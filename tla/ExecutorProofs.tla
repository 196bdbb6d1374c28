---------------------------- MODULE ExecutorProofs ----------------------------
(***************************************************************************)
(* The executor keeps its promises for any number of tasks, queues of any  *)
(* length and any depth of block_on calls inside each other.               *)
(*                                                                         *)
(* A task is polled by one frame at most, and only while it is pending     *)
(* (PolledOnce).  Only the owner of a handle awaits the task, and it has   *)
(* left its waker there (Asked): so the waker of a task is that of the     *)
(* last one who awaited it, and whoever finishes wakes the right task.     *)
(* Without nested calls a round never outlives the queue (InQueue).  A     *)
(* future may own the handle of its own task: while it is polled, it       *)
(* cannot use it.                                                          *)
(***************************************************************************)
EXTENDS Executor, Facts

\* The frames: the outermost is always there.
Stacked ==
  /\ stack # <<>> /\ Len(stack) <= MaxDepth
  /\ \A i, j \in DOMAIN stack : stack[i].who \in Tasks /\ stack[i].who = stack[j].who => i = j

PolledOnce == \A t \in Tasks : Borrowed(t) => task[t] = "pending"

\* Whoever awaits a pending task is the one it will wake.
Asked == \A a \in Actors : LET u == awaits[a].join
                           IN  u # None /\ task[u] = "pending" => waker[u] = a

\* What is left of the round is in the queue, if nobody else empties it.
InQueue == MaxDepth = 1 => Top.left <= Len(queue)

IInv == TypeOK /\ Stacked /\ PolledOnce /\ JoinsAlive /\ Asked /\ NoLostWakeup /\ InQueue

-----------------------------------------------------------------------------
(* The frames and the queue. *)

LEMMA Typed ==
  ASSUME TypeOK
  PROVE  /\ queue \in Seq(Tasks) /\ stack \in Seq(Frame)
         /\ task \in [Tasks -> {"none", "pending", "ready", "empty"}]
         /\ waker \in [Tasks -> Actors \cup {None}] /\ holder \in [Tasks -> Actors \cup {None}]
         /\ awaits \in [Actors -> [join : Tasks \cup {None}, event : BOOLEAN, yield : BOOLEAN]]
         /\ Tasks \subseteq Actors /\ Root \in Actors /\ Root \notin Tasks /\ None \notin Tasks
         /\ Root # None /\ Nothing.join = None
BY NamesAssumption DEF TypeOK, Actors, Nothing

LEMMA FrameType ==
  /\ \A n \in Nat, w \in Actors \cup {None}, k \in 0 .. Fuel :
        LET f == [left |-> n, who |-> w, fuel |-> k]
        IN  f \in Frame /\ f.left = n /\ f.who = w
  /\ Fuel \in 0 .. Fuel /\ 0 \in 0 .. Fuel
BY BoundsAssumption DEF Frame

LEMMA TopType ==
  ASSUME TypeOK, Stacked
  PROVE  /\ Len(stack) \in Nat /\ Len(stack) >= 1 /\ DOMAIN stack = 1 .. Len(stack)
         /\ Len(stack) \in DOMAIN stack /\ Top \in Frame
         /\ Top.left \in Nat /\ Top.who \in Actors \cup {None} /\ Top.fuel \in 0 .. Fuel
<1>1. Len(stack) \in Nat /\ Len(stack) >= 1 /\ DOMAIN stack = 1 .. Len(stack)
  BY Typed, EmptySeq, LenProperties DEF Stacked
<1>2. Len(stack) \in DOMAIN stack
  BY <1>1
<1>3. stack[Len(stack)] \in Frame
  BY <1>1, <1>2, Typed, ElementOfSeq
<1>4. Top \in Frame
  BY <1>3 DEF Top
<1> QED  BY <1>1, <1>2, <1>4 DEF Frame

\* What a change of the innermost frame does to who is being polled.
LEMMA TopSet ==
  ASSUME TypeOK, Stacked, NEW f \in Frame, SetTop(f)
  PROVE  /\ stack' \in Seq(Frame) /\ Len(stack') = Len(stack) /\ Top' = f
         /\ f.who = Top.who =>
               Stacked' /\ \A t \in Tasks : Borrowed(t)' <=> Borrowed(t)
         /\ f.who \notin Tasks =>
               Stacked' /\ \A t \in Tasks : Borrowed(t)' <=> Borrowed(t) /\ t # Top.who
         /\ f.who \in Tasks /\ Top.who \notin Tasks /\ ~Borrowed(f.who) =>
               Stacked' /\ \A t \in Tasks : Borrowed(t)' <=> Borrowed(t) \/ t = f.who
<1> DEFINE n == Len(stack)
<1>1. n \in Nat /\ n >= 1 /\ DOMAIN stack = 1 .. n /\ n \in 1 .. n
  BY TopType
<1>2. /\ stack' \in Seq(Frame) /\ Len(stack') = n /\ DOMAIN stack' = 1 .. n
      /\ stack'[n] = f /\ \A i \in 1 .. n : i # n => stack'[i] = stack[i]
  <2>1. stack' = [stack EXCEPT ![n] = f]
    BY DEF SetTop
  <2> HIDE DEF n
  <2>2. stack' \in Seq(Frame) /\ Len(stack') = Len(stack)
    BY <1>1, <2>1, Typed, ExceptSeq
  <2> QED  BY <1>1, <2>1, <2>2 DEF n
<1>3. Top' = f /\ Top = stack[n]
  BY <1>2 DEF Top
<1> HIDE DEF n
<1>4. stack' # <<>> /\ Len(stack') <= MaxDepth
  <2>1. Len(stack) = n /\ Len(stack) <= MaxDepth
    BY DEF n, Stacked
  <2> QED  BY <1>1, <1>2, <2>1, EmptySeq
<1>5. \A i, j \in 1 .. n : stack[i].who \in Tasks /\ stack[i].who = stack[j].who => i = j
  BY <1>1 DEF Stacked
<1>6. /\ \A t : Borrowed(t) <=> \E i \in 1 .. n : stack[i].who = t
      /\ \A t : Borrowed(t)' <=> \E i \in 1 .. n : stack'[i].who = t
  BY <1>1, <1>2 DEF Borrowed
<1>7. ASSUME f.who \in Tasks => \A i \in 1 .. n : i # n => stack[i].who # f.who
      PROVE  Stacked'
  <2>1. \A i, j \in 1 .. n : stack'[i].who \in Tasks /\ stack'[i].who = stack'[j].who => i = j
    BY <1>2, <1>5, <1>7
  <2> QED  BY <1>2, <1>4, <2>1 DEF Stacked
<1>8. CASE f.who = Top.who
  BY <1>1, <1>2, <1>3, <1>5, <1>6, <1>7, <1>8
<1>9. CASE f.who \notin Tasks
  BY <1>1, <1>2, <1>3, <1>5, <1>6, <1>7, <1>9
<1>10. CASE f.who \in Tasks /\ Top.who \notin Tasks /\ ~Borrowed(f.who)
  BY <1>1, <1>2, <1>3, <1>5, <1>6, <1>7, <1>10
<1> QED  BY <1>1, <1>2, <1>3, <1>8, <1>9, <1>10 DEF n

LEMMA Wakes ==
  ASSUME TypeOK, NEW a, Wake(a)
  PROVE  /\ queue' \in Seq(Tasks) /\ Len(queue') >= Len(queue)
         /\ Len(queue) \in Nat /\ Len(queue') \in Nat
         /\ ToSet(queue) \subseteq ToSet(queue') /\ (a \in Tasks => a \in ToSet(queue'))
<1>1. CASE a \in Tasks
  <2>1. queue' = Append(queue, a)
    BY <1>1 DEF Wake
  <2> QED  BY <1>1, <2>1, Typed, SetOfAppend
<1>2. CASE a \notin Tasks
  BY <1>2, Typed, LenProperties DEF Wake
<1> QED  BY <1>1, <1>2

-----------------------------------------------------------------------------
(* A future that is being polled. *)

LEMMA Running ==
  ASSUME IInv, NEW a \in Actors, Runs(a)
  PROVE  /\ Top.who = a /\ awaits[a] = Nothing /\ awaits[a].join = None
         /\ a \in Tasks => Borrowed(a) /\ task[a] = "pending"
         /\ \A t \in Tasks : holder[t] = a => \A b \in Actors : awaits[b].join # t
<1>1. Top.who = a /\ awaits[a] = Nothing /\ awaits[a].join = None
  BY Typed DEF Runs, IInv
<1>2. a \in Tasks => Borrowed(a)
  BY <1>1, TopType DEF IInv, Borrowed, Top
<1>3. \A t \in Tasks : holder[t] = a => \A b \in Actors : awaits[b].join # t
  BY <1>1, Typed DEF IInv, JoinsAlive
<1> QED  BY <1>1, <1>2, <1>3 DEF IInv, PolledOnce

\* It goes on.
LEMMA Acting ==
  ASSUME IInv, NEW a \in Actors, Acts(a)
  PROVE  /\ Stacked' /\ stack' \in Seq(Frame) /\ Top'.left = Top.left /\ Runs(a)
         /\ \A t \in Tasks : Borrowed(t)' <=> Borrowed(t)
<1> DEFINE f == [Top EXCEPT !.fuel = @ - 1]
<1>1. TypeOK /\ Stacked /\ SetTop(f) /\ Top.fuel > 0 /\ Runs(a)
  BY DEF Acts, IInv
<1>2. f \in Frame /\ f.who = Top.who /\ f.left = Top.left
  <2>1. Top \in Frame /\ Top.fuel \in 0 .. Fuel /\ Fuel \in Nat
    BY <1>1, TopType, BoundsAssumption
  <2>2. Top.fuel - 1 \in 0 .. Fuel
    BY <1>1, <2>1
  <2> QED  BY <2>1, <2>2 DEF Frame
<1> HIDE DEF f
<1> QED  BY <1>1, <1>2, TopSet

\* Its poll returns.
LEMMA Returning ==
  ASSUME IInv, NEW a \in Actors, Runs(a), Return(a)
  PROVE  /\ Stacked' /\ stack' \in Seq(Frame) /\ Top'.left = Top.left
         /\ \A t \in Tasks : Borrowed(t)' <=> Borrowed(t) /\ t # a
<1>1. TypeOK /\ Stacked /\ Top.who = a
  BY DEF Runs, IInv
<1>2. CASE a = Root
  <2>1. stack' = stack /\ Root \notin Tasks
    BY <1>2, NamesAssumption DEF Return
  <2> QED  BY <1>1, <1>2, <2>1, Typed DEF Stacked, Borrowed, Top
<1>3. CASE a # Root
  <2> DEFINE f == [Top EXCEPT !.who = None, !.fuel = 0]
  <2>1. SetTop(f)
    BY <1>3 DEF Return
  <2>2. f \in Frame /\ f.who = None /\ f.left = Top.left
    BY <1>1, TopType, FrameType DEF Frame
  <2>3. None \notin Tasks
    BY NamesAssumption DEF Actors
  <2> HIDE DEF f
  <2> QED  BY <1>1, <2>1, <2>2, <2>3, TopSet
<1> QED  BY <1>2, <1>3

\* It is resumed, with the output of the task it awaited if it did.
LEMMA Resuming ==
  ASSUME IInv, NEW a \in Actors, Resume(a), UNCHANGED waker
  PROVE  /\ task' \in [Tasks -> {"none", "pending", "ready", "empty"}]
         /\ holder' \in [Tasks -> Actors \cup {None}]
         /\ awaits' \in [Actors -> [join : Tasks \cup {None}, event : BOOLEAN, yield : BOOLEAN]]
         /\ JoinsAlive' /\ Asked'
         /\ \A t \in Tasks : task'[t] = task[t] \/ (task[t] = "ready" /\ task'[t] = "empty")
         /\ \A b \in Actors : b # a => awaits'[b] = awaits[b]
<1> DEFINE u == awaits[a].join
<1>1. awaits' = [awaits EXCEPT ![a] = Nothing]
  BY DEF Resume
<1>2. Nothing \in [join : Tasks \cup {None}, event : BOOLEAN, yield : BOOLEAN]
  BY DEF Nothing
<1>3. /\ awaits' \in [Actors -> [join : Tasks \cup {None}, event : BOOLEAN, yield : BOOLEAN]]
      /\ awaits'[a].join = None /\ \A b \in Actors : b # a => awaits'[b] = awaits[b]
  BY <1>1, <1>2, Typed DEF IInv
<1>4. CASE UNCHANGED <<task, holder>>
  <2>1. JoinsAlive'
    BY <1>3, <1>4 DEF IInv, JoinsAlive
  <2>2. Asked'
    BY <1>3, <1>4 DEF IInv, Asked
  <2> QED  BY <1>3, <1>4, <2>1, <2>2, Typed DEF IInv
<1>5. CASE u # None /\ task[u] = "ready" /\ Take(u)
  <2>1. u \in Tasks /\ holder[u] = a
    BY <1>5, Typed DEF IInv, JoinsAlive
  <2> HIDE DEF u
  <2>2. task' = [task EXCEPT ![u] = "empty"] /\ holder' = [holder EXCEPT ![u] = None]
    BY <1>5 DEF Take
  <2>3. /\ task' \in [Tasks -> {"none", "pending", "ready", "empty"}]
        /\ holder' \in [Tasks -> Actors \cup {None}]
        /\ task'[u] = "empty" /\ holder'[u] = None
        /\ \A t \in Tasks : t # u => task'[t] = task[t] /\ holder'[t] = holder[t]
    BY <2>1, <2>2, Typed DEF IInv
  <2>4. \A b \in Actors : b # a /\ awaits[b].join # None =>
                             awaits[b].join \in Tasks /\ awaits[b].join # u
    BY <2>1, Typed DEF IInv, JoinsAlive
  <2>5. JoinsAlive'
    BY <1>3, <2>3, <2>4 DEF IInv, JoinsAlive
  <2>6. Asked'
    BY <1>3, <2>3, <2>4 DEF IInv, Asked
  <2> QED  BY <1>3, <1>5, <2>3, <2>5, <2>6
<1> QED  BY <1>4, <1>5 DEF Resume

-----------------------------------------------------------------------------
(* Every step preserves the invariant. *)

LEMMA InitOK == Init => IInv
<1> SUFFICES ASSUME Init PROVE IInv
  OBVIOUS
<1> DEFINE f == [left |-> 0, who |-> Root, fuel |-> Fuel]
<1>1. Root \in Actors /\ None \notin Actors /\ Root \notin Tasks /\ Root # None
  BY NamesAssumption DEF Actors
<1>2. f \in Frame /\ f.who = Root /\ f.left = 0
  BY <1>1, FrameType
<1>3. stack = <<f>> /\ queue = <<>>
  BY DEF Init
<1> HIDE DEF f
<1>4. /\ stack \in Seq(Frame) /\ stack # <<>> /\ Len(stack) = 1 /\ DOMAIN stack = {1} /\ Top = f
      /\ queue \in Seq(Tasks) /\ Len(queue) = 0 /\ stack[1] = f
  BY <1>2, <1>3 DEF Top
<1>5. TypeOK
  BY <1>1, <1>4 DEF Init, TypeOK, Nothing, Actors
<1>6. Stacked /\ PolledOnce /\ InQueue
  <2>1. \A t \in Tasks : ~Borrowed(t)
    BY <1>1, <1>2, <1>4 DEF Borrowed
  <2>2. Stacked
    BY <1>4, BoundsAssumption DEF Stacked
  <2> QED  BY <1>2, <1>4, <2>1, <2>2 DEF PolledOnce, InQueue
<1>7. JoinsAlive /\ Asked /\ NoLostWakeup
  <2>1. \A a \in Actors : awaits[a].join = None
    BY DEF Init, Nothing
  <2>2. \A t \in Tasks : holder[t] # t /\ task[t] # "pending"
    BY <1>1 DEF Init, Actors
  <2> QED  BY <2>1, <2>2 DEF JoinsAlive, Asked, NoLostWakeup
<1> QED  BY <1>5, <1>6, <1>7 DEF IInv

\* A wakeup is not lost when who can go on could before, or has been woken.
LEMMA NoneLost ==
  ASSUME IInv,
         \A t \in Tasks : task'[t] = "pending" /\ ~Borrowed(t)' /\ Resumable(t)' =>
            \/ t \in ToSet(queue')
            \/ /\ task[t] = "pending" /\ ~Borrowed(t) /\ Resumable(t)
               /\ ToSet(queue) \subseteq ToSet(queue')
  PROVE  NoLostWakeup'
BY DEF IInv, NoLostWakeup

LEMMA SpawnStep ==
  ASSUME IInv, NEW a \in Actors, NEW u \in Tasks, Spawn(a, u)
  PROVE  IInv'
<1>1. /\ Acts(a) /\ task[u] = "none" /\ Wake(u)
      /\ task' = [task EXCEPT ![u] = "pending"] /\ holder' = [holder EXCEPT ![u] = a]
      /\ UNCHANGED <<waker, awaits, armed, fired, returned>>
  BY DEF Spawn
<1>2. /\ Stacked' /\ stack' \in Seq(Frame) /\ Top'.left = Top.left /\ Top.left \in Nat /\ Runs(a)
      /\ \A t \in Tasks : Borrowed(t)' <=> Borrowed(t)
  BY <1>1, Acting, TopType DEF IInv
<1>3. /\ queue' \in Seq(Tasks) /\ Len(queue') >= Len(queue)
      /\ Len(queue) \in Nat /\ Len(queue') \in Nat
      /\ ToSet(queue) \subseteq ToSet(queue') /\ u \in ToSet(queue')
  BY <1>1, Wakes DEF IInv
<1>4. /\ task' \in [Tasks -> {"none", "pending", "ready", "empty"}]
      /\ holder' \in [Tasks -> Actors \cup {None}]
      /\ task'[u] = "pending" /\ holder'[u] = a /\ a # u
      /\ \A t \in Tasks : t # u => task'[t] = task[t] /\ holder'[t] = holder[t]
  BY <1>1, <1>2, Running, Typed DEF IInv
<1>5. \A b \in Actors : awaits[b].join # None => awaits[b].join \in Tasks /\ awaits[b].join # u
  BY <1>1, Typed DEF IInv, JoinsAlive
<1>6. TypeOK'
  BY <1>1, <1>2, <1>3, <1>4 DEF IInv, TypeOK
<1>7. PolledOnce'
  BY <1>2, <1>4 DEF IInv, PolledOnce
<1>8. JoinsAlive' /\ Asked'
  BY <1>1, <1>4, <1>5 DEF IInv, JoinsAlive, Asked
<1>9. NoLostWakeup'
  <2>1. ASSUME NEW t \in Tasks, t # u, Resumable(t)' PROVE Resumable(t)
    BY <1>1, <1>4, <1>5, <2>1, Typed DEF IInv, Resumable
  <2> QED  BY <1>2, <1>3, <1>4, <2>1, NoneLost
<1>10. InQueue'
  BY <1>2, <1>3 DEF IInv, InQueue
<1> QED  BY <1>2, <1>6, <1>7, <1>8, <1>9, <1>10 DEF IInv

\* Nobody awaits a task whose handle somebody else consumes.
LEMMA AbortStep ==
  ASSUME IInv, NEW a \in Actors, NEW u \in Tasks, Abort(a, u)
  PROVE  IInv'
<1>1. /\ Acts(a) /\ holder[u] = a /\ ~Borrowed(u)
      /\ task' = [task EXCEPT ![u] = "empty"] /\ waker' = [waker EXCEPT ![u] = None]
      /\ holder' = [Without(u) EXCEPT ![u] = None] /\ awaits' = [awaits EXCEPT ![u] = Nothing]
      /\ UNCHANGED <<queue, armed, fired, returned>>
  BY DEF Abort
<1>2. /\ Stacked' /\ stack' \in Seq(Frame) /\ Top'.left = Top.left /\ Runs(a)
      /\ \A t \in Tasks : Borrowed(t)' <=> Borrowed(t)
  BY <1>1, Acting
<1>3. /\ task' \in [Tasks -> {"none", "pending", "ready", "empty"}]
      /\ waker' \in [Tasks -> Actors \cup {None}] /\ holder' \in [Tasks -> Actors \cup {None}]
      /\ task'[u] = "empty" /\ holder'[u] = None
      /\ \A t \in Tasks : t # u => /\ task'[t] = task[t] /\ waker'[t] = waker[t]
                                   /\ holder'[t] = IF holder[t] = u THEN None ELSE holder[t]
  BY <1>1, Typed DEF IInv, Without
<1>4. /\ awaits' \in [Actors -> [join : Tasks \cup {None}, event : BOOLEAN, yield : BOOLEAN]]
      /\ awaits'[u].join = None /\ \A b \in Actors : b # u => awaits'[b] = awaits[b]
  <2>1. Nothing \in [join : Tasks \cup {None}, event : BOOLEAN, yield : BOOLEAN]
    BY DEF Nothing
  <2> QED  BY <1>1, <2>1, Typed DEF IInv
<1>5. \A b \in Actors : awaits[b].join # u
  BY <1>1, <1>2, Running
<1>6. \A b \in Actors : awaits'[b].join # None =>
                   /\ b # u /\ awaits'[b] = awaits[b]
                   /\ awaits[b].join \in Tasks /\ awaits[b].join # u
  BY <1>4, <1>5, Typed DEF IInv
<1>7. TypeOK'
  BY <1>1, <1>2, <1>3, <1>4 DEF IInv, TypeOK
<1>8. PolledOnce'
  BY <1>1, <1>2, <1>3, Typed DEF IInv, PolledOnce
<1>9. JoinsAlive' /\ Asked'
  BY <1>3, <1>6 DEF IInv, JoinsAlive, Asked
<1>10. NoLostWakeup'
  <2>1. ASSUME NEW t \in Tasks, t # u, Resumable(t)' PROVE Resumable(t)
    BY <1>1, <1>3, <1>4, <1>5, <2>1, Typed DEF IInv, Resumable
  <2> QED  BY <1>1, <1>2, <1>3, <2>1, NoneLost
<1>11. InQueue'
  BY <1>1, <1>2 DEF IInv, InQueue
<1> QED  BY <1>2, <1>7, <1>8, <1>9, <1>10, <1>11 DEF IInv

LEMMA PassOnStep ==
  ASSUME IInv, NEW a \in Actors, NEW u \in Tasks, NEW b \in Actors \cup {None}, PassOn(a, u, b)
  PROVE  IInv'
<1>1. /\ Acts(a) /\ holder[u] = a /\ holder' = [holder EXCEPT ![u] = b]
      /\ UNCHANGED <<queue, task, waker, awaits, armed, fired, returned>>
  BY DEF PassOn
<1>2. /\ Stacked' /\ stack' \in Seq(Frame) /\ Top'.left = Top.left /\ Runs(a)
      /\ \A t \in Tasks : Borrowed(t)' <=> Borrowed(t)
  BY <1>1, Acting
<1>3. /\ holder' \in [Tasks -> Actors \cup {None}] /\ holder'[u] = b
      /\ \A t \in Tasks : t # u => holder'[t] = holder[t]
  BY <1>1, Typed DEF IInv
<1>4. \A c \in Actors : awaits[c].join # u /\ awaits[c].join \in Tasks \cup {None}
  BY <1>1, <1>2, Running, Typed DEF IInv
<1>5. TypeOK'
  BY <1>1, <1>2, <1>3 DEF IInv, TypeOK
<1>6. PolledOnce'
  BY <1>1, <1>2, <1>3 DEF IInv, PolledOnce
<1>7. JoinsAlive' /\ Asked'
  BY <1>1, <1>3, <1>4 DEF IInv, JoinsAlive, Asked
<1>8. NoLostWakeup'
  BY <1>1, <1>2 DEF IInv, NoLostWakeup, Resumable
<1>9. InQueue'
  BY <1>1, <1>2 DEF IInv, InQueue
<1> QED  BY <1>2, <1>5, <1>6, <1>7, <1>8, <1>9 DEF IInv

\* Whose event comes is woken.
LEMMA SignalStep ==
  ASSUME IInv, NEW a \in Actors, NEW b \in Actors, Signal(a, b)
  PROVE  IInv'
<1>1. /\ Acts(a) /\ Wake(b) /\ armed' = armed \ {b} /\ fired' = fired \cup {b}
      /\ UNCHANGED <<task, waker, holder, awaits, returned>>
  BY DEF Signal
<1>2. /\ Stacked' /\ stack' \in Seq(Frame) /\ Top'.left = Top.left /\ Top.left \in Nat
      /\ \A t \in Tasks : Borrowed(t)' <=> Borrowed(t)
  BY <1>1, Acting, TopType DEF IInv
<1>3. /\ queue' \in Seq(Tasks) /\ Len(queue') >= Len(queue)
      /\ Len(queue) \in Nat /\ Len(queue') \in Nat
      /\ ToSet(queue) \subseteq ToSet(queue') /\ (b \in Tasks => b \in ToSet(queue'))
  BY <1>1, Wakes DEF IInv
<1>4. TypeOK'
  BY <1>1, <1>2, <1>3 DEF IInv, TypeOK
<1>5. PolledOnce'
  BY <1>1, <1>2 DEF IInv, PolledOnce
<1>6. JoinsAlive' /\ Asked'
  BY <1>1 DEF IInv, JoinsAlive, Asked
<1>7. NoLostWakeup'
  <2>1. ASSUME NEW t \in Tasks, t # b, Resumable(t)' PROVE Resumable(t)
    BY <1>1, <2>1 DEF Resumable
  <2> QED  BY <1>1, <1>2, <1>3, <2>1, NoneLost
<1>8. InQueue'
  BY <1>2, <1>3 DEF IInv, InQueue
<1> QED  BY <1>2, <1>4, <1>5, <1>6, <1>7, <1>8 DEF IInv

LEMMA JoinStep ==
  ASSUME IInv, NEW a \in Actors, NEW u \in Tasks, Join(a, u)
  PROVE  IInv'
<1>1. /\ Acts(a) /\ holder[u] = a /\ task[u] = "ready"
      /\ task' = [task EXCEPT ![u] = "empty"] /\ holder' = [holder EXCEPT ![u] = None]
      /\ UNCHANGED <<queue, waker, awaits, armed, fired, returned>>
  BY DEF Join, Take
<1>2. /\ Stacked' /\ stack' \in Seq(Frame) /\ Top'.left = Top.left /\ Runs(a)
      /\ \A t \in Tasks : Borrowed(t)' <=> Borrowed(t)
  BY <1>1, Acting
<1>3. /\ task' \in [Tasks -> {"none", "pending", "ready", "empty"}]
      /\ holder' \in [Tasks -> Actors \cup {None}]
      /\ task'[u] = "empty" /\ holder'[u] = None
      /\ \A t \in Tasks : t # u => task'[t] = task[t] /\ holder'[t] = holder[t]
  BY <1>1, Typed DEF IInv
<1>4. \A c \in Actors : awaits[c].join # u /\ awaits[c].join \in Tasks \cup {None}
  BY <1>1, <1>2, Running, Typed DEF IInv
<1>5. TypeOK'
  BY <1>1, <1>2, <1>3 DEF IInv, TypeOK
<1>6. PolledOnce'
  BY <1>1, <1>2, <1>3, Typed DEF IInv, PolledOnce
<1>7. JoinsAlive' /\ Asked'
  BY <1>1, <1>3, <1>4 DEF IInv, JoinsAlive, Asked
<1>8. NoLostWakeup'
  <2>1. ASSUME NEW t \in Tasks, Resumable(t)' PROVE Resumable(t)
    BY <1>1, <1>3, <1>4, <2>1, Typed DEF IInv, Resumable
  <2> QED  BY <1>1, <1>2, <1>3, <2>1, NoneLost
<1>9. InQueue'
  BY <1>1, <1>2 DEF IInv, InQueue
<1> QED  BY <1>2, <1>5, <1>6, <1>7, <1>8, <1>9 DEF IInv

\* The waker that is left replaces none that is needed.
LEMMA AwaitStep ==
  ASSUME IInv, NEW a \in Actors, NEW u \in Tasks \cup {None}, NEW e \in BOOLEAN, Await(a, u, e)
  PROVE  IInv'
<1> DEFINE w == [join |-> u, event |-> e, yield |-> FALSE]
<1>1. /\ Runs(a) /\ (u # None \/ e) /\ (u # None => holder[u] = a /\ task[u] = "pending")
      /\ awaits' = [awaits EXCEPT ![a] = w]
      /\ fired' = fired \ {a} /\ Return(a) /\ UNCHANGED <<queue, task, holder, returned>>
  BY DEF Await
<1>2. /\ w \in [join : Tasks \cup {None}, event : BOOLEAN, yield : BOOLEAN]
      /\ w # Nothing /\ w.join = u /\ w.event = e /\ w.yield = FALSE
  <2>1. Nothing.join = None /\ Nothing.event = FALSE
    BY DEF Nothing
  <2>2. w.join = u /\ w.event = e
    OBVIOUS
  <2>3. w # Nothing
    BY <1>1, <2>1, <2>2
  <2> QED  BY <2>2, <2>3
<1> HIDE DEF w
<1>3. /\ awaits' \in [Actors -> [join : Tasks \cup {None}, event : BOOLEAN, yield : BOOLEAN]]
      /\ awaits'[a] = w /\ \A b \in Actors : b # a => awaits'[b] = awaits[b]
  BY <1>1, <1>2, Typed DEF IInv
<1>4. /\ waker' = (IF u = None THEN waker ELSE [waker EXCEPT ![u] = a])
      /\ armed' = (IF e THEN armed \cup {a} ELSE armed)
  BY <1>2, <1>3 DEF Await, Pending, Read
<1>5. /\ waker' \in [Tasks -> Actors \cup {None}] /\ (u # None => u \in Tasks /\ waker'[u] = a)
      /\ \A t \in Tasks : t # u => waker'[t] = waker[t]
  BY <1>4, Typed DEF IInv
<1>6. /\ Stacked' /\ stack' \in Seq(Frame) /\ Top'.left = Top.left
      /\ \A t \in Tasks : Borrowed(t)' <=> Borrowed(t) /\ t # a
  BY <1>1, Returning
<1>7. \A b \in Actors : /\ awaits[b].join \in Tasks \cup {None}
                        /\ u # None => awaits[b].join # u
  BY <1>1, Running, Typed DEF IInv
<1>8. TypeOK'
  BY <1>1, <1>3, <1>4, <1>5, <1>6 DEF IInv, TypeOK
<1>9. PolledOnce'
  BY <1>1, <1>6 DEF IInv, PolledOnce
<1>10. JoinsAlive'
  BY <1>1, <1>2, <1>3 DEF IInv, JoinsAlive
<1>11. Asked'
  BY <1>1, <1>2, <1>3, <1>5, <1>7 DEF IInv, Asked
<1>12. NoLostWakeup'
  <2>1. a \in Tasks => ~Resumable(a)'
    BY <1>1, <1>2, <1>3 DEF Resumable
  <2>2. ASSUME NEW t \in Tasks, t # a, Resumable(t)' PROVE Resumable(t)
    BY <1>1, <1>3, <2>2, Typed DEF IInv, Resumable
  <2> QED  BY <1>1, <1>6, <2>1, <2>2, NoneLost
<1>13. InQueue'
  BY <1>1, <1>6 DEF IInv, InQueue
<1> QED  BY <1>6, <1>8, <1>9, <1>10, <1>11, <1>12, <1>13 DEF IInv

LEMMA YieldNowStep ==
  ASSUME IInv, NEW a \in Actors, YieldNow(a)
  PROVE  IInv'
<1> DEFINE w == [Nothing EXCEPT !.yield = TRUE]
<1>1. /\ Runs(a) /\ Wake(a) /\ awaits' = [awaits EXCEPT ![a] = w]
      /\ Return(a) /\ UNCHANGED <<task, waker, holder, armed, fired, returned>>
  BY DEF YieldNow
<1>2. w \in [join : Tasks \cup {None}, event : BOOLEAN, yield : BOOLEAN] /\ w.join = None
  BY DEF Nothing
<1> HIDE DEF w
<1>3. /\ awaits' \in [Actors -> [join : Tasks \cup {None}, event : BOOLEAN, yield : BOOLEAN]]
      /\ awaits'[a].join = None /\ \A b \in Actors : b # a => awaits'[b] = awaits[b]
  BY <1>1, <1>2, Typed DEF IInv
<1>4. /\ Stacked' /\ stack' \in Seq(Frame) /\ Top'.left = Top.left /\ Top.left \in Nat
      /\ \A t \in Tasks : Borrowed(t)' <=> Borrowed(t) /\ t # a
  BY <1>1, Returning, TopType DEF IInv
<1>5. /\ queue' \in Seq(Tasks) /\ Len(queue') >= Len(queue)
      /\ Len(queue) \in Nat /\ Len(queue') \in Nat
      /\ ToSet(queue) \subseteq ToSet(queue') /\ (a \in Tasks => a \in ToSet(queue'))
  BY <1>1, Wakes DEF IInv
<1>6. TypeOK'
  BY <1>1, <1>3, <1>4, <1>5 DEF IInv, TypeOK
<1>7. PolledOnce'
  BY <1>1, <1>4 DEF IInv, PolledOnce
<1>8. JoinsAlive' /\ Asked'
  BY <1>1, <1>3 DEF IInv, JoinsAlive, Asked
<1>9. NoLostWakeup'
  <2>1. ASSUME NEW t \in Tasks, t # a, Resumable(t)' PROVE Resumable(t)
    BY <1>1, <1>3, <2>1, Typed DEF IInv, Resumable
  <2> QED  BY <1>1, <1>4, <1>5, <2>1, NoneLost
<1>10. InQueue'
  BY <1>4, <1>5 DEF IInv, InQueue
<1> QED  BY <1>4, <1>6, <1>7, <1>8, <1>9, <1>10 DEF IInv

\* Who awaits the task is the one whose waker it has.
LEMMA FinishStep ==
  ASSUME IInv, NEW t \in Tasks, Finish(t)
  PROVE  IInv'
<1>1. /\ Runs(t) /\ Wake(waker[t]) /\ Return(t)
      /\ task' = [task EXCEPT ![t] = "ready"] /\ waker' = [waker EXCEPT ![t] = None]
      /\ holder' = Without(t) /\ UNCHANGED <<awaits, armed, fired, returned>>
  BY DEF Finish
<1>2. t \in Actors /\ task[t] = "pending" /\ awaits[t].join = None
  BY <1>1, Running, Typed DEF IInv
<1>3. /\ task' \in [Tasks -> {"none", "pending", "ready", "empty"}]
      /\ waker' \in [Tasks -> Actors \cup {None}] /\ holder' \in [Tasks -> Actors \cup {None}]
      /\ task'[t] = "ready"
      /\ \A v \in Tasks : v # t => task'[v] = task[v] /\ waker'[v] = waker[v]
      /\ \A v \in Tasks : holder'[v] = IF holder[v] = t THEN None ELSE holder[v]
  BY <1>1, Typed DEF IInv, Without
<1>4. /\ Stacked' /\ stack' \in Seq(Frame) /\ Top'.left = Top.left /\ Top.left \in Nat
      /\ \A v \in Tasks : Borrowed(v)' <=> Borrowed(v) /\ v # t
  BY <1>1, <1>2, Returning, TopType DEF IInv
<1>5. /\ queue' \in Seq(Tasks) /\ Len(queue') >= Len(queue)
      /\ Len(queue) \in Nat /\ Len(queue') \in Nat
      /\ ToSet(queue) \subseteq ToSet(queue') /\ (waker[t] \in Tasks => waker[t] \in ToSet(queue'))
  BY <1>1, Wakes DEF IInv
<1>6. TypeOK'
  BY <1>1, <1>3, <1>4, <1>5 DEF IInv, TypeOK
<1>7. PolledOnce'
  BY <1>3, <1>4, Typed DEF IInv, PolledOnce
<1>8. JoinsAlive'
  <2> SUFFICES ASSUME NEW b \in Actors, awaits[b].join # None
               PROVE  holder'[awaits[b].join] = b /\ task'[awaits[b].join] \in {"pending", "ready"}
    BY <1>1 DEF JoinsAlive
  <2>1. /\ awaits[b].join \in Tasks /\ holder[awaits[b].join] = b /\ b # t
        /\ task[awaits[b].join] \in {"pending", "ready"}
    BY <1>2, Typed DEF IInv, JoinsAlive
  <2> QED  BY <1>3, <2>1
<1>9. Asked'
  BY <1>1, <1>3, Typed DEF IInv, Asked
<1>10. NoLostWakeup'
  <2>1. ASSUME NEW v \in Tasks, Resumable(v)', ~Resumable(v) PROVE v \in ToSet(queue')
    <3>1. awaits[v].join = t
      BY <1>1, <1>3, <2>1, Typed DEF IInv, Resumable
    <3>2. waker[t] = v
      BY <1>2, <3>1, Typed DEF IInv, Asked
    <3> QED  BY <1>5, <3>2
  <2> QED  BY <1>3, <1>4, <1>5, <2>1, NoneLost
<1>11. InQueue'
  BY <1>4, <1>5 DEF IInv, InQueue
<1> QED  BY <1>4, <1>6, <1>7, <1>8, <1>9, <1>10, <1>11 DEF IInv

\* A reference is taken from the queue; its task cannot go on, or is polled now.
LEMMA PopPendingStep ==
  ASSUME IInv, PopPending
  PROVE  IInv'
<1> DEFINE t == Head(queue)
           f == [Top EXCEPT !.left = Remaining]
           g == [left |-> Remaining, who |-> t, fuel |-> Fuel]
<1>1. /\ Top.who = None /\ Top.left > 0 /\ queue # <<>> /\ queue' = Tail(queue) /\ ~Borrowed(t)
      /\ UNCHANGED <<fired, returned>>
      /\ IF task[t] # "pending" \/ ~Resumable(t)
         THEN /\ SetTop(f)
              /\ IF task[t] = "pending" THEN Pending(t, awaits[t]) ELSE UNCHANGED <<waker, armed>>
              /\ UNCHANGED <<task, holder, awaits>>
         ELSE SetTop(g) /\ Resume(t) /\ UNCHANGED <<waker, armed>>
  BY DEF PopPending, Popping, Turn
<1>2. /\ t \in Tasks /\ queue' \in Seq(Tasks)
      /\ Len(queue) \in Nat /\ Len(queue) > 0 /\ Len(queue') = Len(queue) - 1
      /\ ToSet(queue) = ToSet(queue') \cup {t}
  BY <1>1, Typed, SetOfTail DEF IInv
<1>3. t \in Actors /\ None \notin Tasks
  BY <1>2, Typed DEF IInv
<1>4. /\ Top.left \in Nat /\ Remaining = Top.left - 1 /\ Remaining \in Nat
      /\ f \in Frame /\ f.who = None /\ f.left = Remaining
      /\ g \in Frame /\ g.who = t /\ g.left = Remaining
  <2>1. Top \in Frame /\ Top.left \in Nat
    BY TopType DEF IInv
  <2>2. Remaining = Top.left - 1 /\ Remaining \in Nat
    BY <1>1, <2>1 DEF Remaining
  <2>3. f \in Frame /\ f.who = None /\ f.left = Remaining
    BY <1>1, <2>1, <2>2 DEF Frame
  <2>4. g \in Frame /\ g.who = t /\ g.left = Remaining
    BY <1>3, <2>2, FrameType
  <2> QED  BY <2>1, <2>2, <2>3, <2>4
<1> HIDE DEF t, f, g
<1>5. InQueue' \/ ~(Top'.left = Remaining)
  BY <1>2, <1>4 DEF IInv, InQueue
<1>6. CASE task[t] # "pending" \/ ~Resumable(t)
  <2>1. /\ SetTop(f) /\ UNCHANGED <<task, holder, awaits>>
        /\ (waker' = waker /\ armed' = armed) \/ Pending(t, awaits[t])
    BY <1>1, <1>6
  <2>2. /\ Stacked' /\ stack' \in Seq(Frame) /\ Top'.left = Remaining
        /\ \A v \in Tasks : Borrowed(v)' <=> Borrowed(v)
    BY <1>1, <1>4, <2>1, TopSet DEF IInv
  <2>3. /\ waker' \in [Tasks -> Actors \cup {None}] /\ armed' \subseteq Actors
        /\ \A v \in Tasks : waker'[v] = waker[v] \/ (waker'[v] = t /\ awaits[t].join = v)
    <3>1. CASE waker' = waker /\ armed' = armed
      BY <3>1, Typed DEF IInv, TypeOK
    <3>2. CASE Pending(t, awaits[t])
      <4> DEFINE u == awaits[t].join
      <4>1. u \in Tasks \cup {None}
        BY <1>3, Typed DEF IInv
      <4>2. /\ waker' = waker \/ (u # None /\ waker' = [waker EXCEPT ![u] = t])
            /\ armed' = armed \/ armed' = armed \cup {t}
        BY <3>2 DEF Pending, Read
      <4>3. armed \subseteq Actors /\ waker \in [Tasks -> Actors \cup {None}]
        BY Typed DEF IInv, TypeOK
      <4> HIDE DEF u
      <4>4. armed' \subseteq Actors /\ waker' \in [Tasks -> Actors \cup {None}]
        BY <1>3, <4>1, <4>2, <4>3
      <4>5. \A v \in Tasks : waker'[v] = waker[v] \/ (waker'[v] = t /\ u = v)
        BY <4>1, <4>2, <4>3
      <4> QED  BY <4>4, <4>5 DEF u
    <3> QED  BY <2>1, <3>1, <3>2
  <2>4. TypeOK'
    BY <1>1, <1>2, <2>1, <2>2, <2>3 DEF IInv, TypeOK
  <2>5. PolledOnce' /\ JoinsAlive'
    BY <2>1, <2>2 DEF IInv, PolledOnce, JoinsAlive
  <2>6. Asked'
    <3> SUFFICES ASSUME NEW a \in Actors, awaits[a].join # None, task[awaits[a].join] = "pending"
                 PROVE  waker'[awaits[a].join] = a
      BY <2>1 DEF Asked
    <3>1. /\ awaits[a].join \in Tasks /\ holder[awaits[a].join] = a /\ waker[awaits[a].join] = a
          /\ awaits[t].join # None => holder[awaits[t].join] = t
      BY <1>3, Typed DEF IInv, JoinsAlive, Asked
    <3> QED  BY <2>3, <3>1
  <2>7. NoLostWakeup'
    BY <1>1, <1>2, <1>6, <2>1, <2>2 DEF IInv, NoLostWakeup, Resumable
  <2> QED  BY <1>5, <2>2, <2>4, <2>5, <2>6, <2>7 DEF IInv
<1>7. CASE ~(task[t] # "pending" \/ ~Resumable(t))
  <2>1. SetTop(g) /\ Resume(t) /\ UNCHANGED <<waker, armed>> /\ task[t] = "pending"
    BY <1>1, <1>7
  <2>2. /\ Stacked' /\ stack' \in Seq(Frame) /\ Top'.left = Remaining
        /\ \A v \in Tasks : Borrowed(v)' <=> Borrowed(v) \/ v = t
    BY <1>1, <1>2, <1>3, <1>4, <2>1, TopSet DEF IInv
  <2>3. /\ task' \in [Tasks -> {"none", "pending", "ready", "empty"}]
        /\ holder' \in [Tasks -> Actors \cup {None}]
        /\ awaits' \in [Actors -> [join : Tasks \cup {None}, event : BOOLEAN, yield : BOOLEAN]]
        /\ JoinsAlive' /\ Asked'
        /\ \A v \in Tasks : task'[v] = task[v] \/ (task[v] = "ready" /\ task'[v] = "empty")
        /\ \A b \in Actors : b # t => awaits'[b] = awaits[b]
    BY <1>3, <2>1, Resuming
  <2>4. TypeOK'
    BY <1>1, <1>2, <2>1, <2>2, <2>3 DEF IInv, TypeOK
  <2>5. PolledOnce'
    BY <2>1, <2>2, <2>3 DEF IInv, PolledOnce
  <2>6. NoLostWakeup'
    <3>1. ASSUME NEW v \in Tasks, v # t, Resumable(v)' PROVE Resumable(v)
      BY <1>1, <2>3, <3>1, Typed DEF IInv, Resumable
    <3> QED  BY <1>2, <2>2, <2>3, <3>1 DEF IInv, NoLostWakeup
  <2> QED  BY <1>5, <2>2, <2>3, <2>4, <2>5, <2>6 DEF IInv
<1> QED  BY <1>6, <1>7

LEMMA PollRootStep ==
  ASSUME IInv, PollRoot
  PROVE  IInv'
<1> DEFINE f == [left |-> 0, who |-> Root, fuel |-> Fuel]
<1>1. /\ Top.who = None /\ SetTop(f) /\ UNCHANGED <<queue, fired, returned>>
      /\ \/ UNCHANGED <<waker, armed, task, holder, awaits>>
         \/ Pending(Root, awaits[Root]) /\ UNCHANGED <<task, holder, awaits>>
         \/ Resume(Root) /\ UNCHANGED <<waker, armed>>
  BY DEF PollRoot, Turn
<1>2. Root \in Actors /\ Root \notin Tasks /\ None \notin Tasks
  BY Typed DEF IInv
<1>3. f \in Frame /\ f.who = Root /\ f.left = 0
  BY <1>2, FrameType
<1> HIDE DEF f
<1>4. /\ Stacked' /\ stack' \in Seq(Frame) /\ Top'.left = 0
      /\ \A v \in Tasks : Borrowed(v)' <=> Borrowed(v)
  BY <1>1, <1>2, <1>3, TopSet DEF IInv
<1>5. InQueue'
  BY <1>1, <1>4, Typed, LenProperties DEF IInv, InQueue
<1>6. CASE UNCHANGED <<waker, armed, task, holder, awaits>>
  BY <1>1, <1>4, <1>5, <1>6 DEF IInv, TypeOK, PolledOnce, JoinsAlive, Asked, NoLostWakeup,
                                Resumable
<1>7. CASE Pending(Root, awaits[Root]) /\ UNCHANGED <<task, holder, awaits>>
  <2> DEFINE u == awaits[Root].join
  <2>1. u \in Tasks \cup {None} /\ (u # None => holder[u] = Root)
    BY <1>2, Typed DEF IInv, JoinsAlive
  <2>2. /\ waker' = waker \/ (u # None /\ waker' = [waker EXCEPT ![u] = Root])
        /\ armed' \subseteq Actors
    BY <1>2, <1>7 DEF Pending, Read, IInv, TypeOK
  <2> HIDE DEF u
  <2>3. /\ waker' \in [Tasks -> Actors \cup {None}]
        /\ \A v \in Tasks : waker'[v] = waker[v] \/ (waker'[v] = Root /\ u = v)
    BY <1>2, <2>1, <2>2, Typed DEF IInv
  <2>4. TypeOK'
    BY <1>1, <1>4, <1>7, <2>2, <2>3 DEF IInv, TypeOK
  <2>5. Asked'
    <3> SUFFICES ASSUME NEW a \in Actors, awaits[a].join # None, task[awaits[a].join] = "pending"
                 PROVE  waker'[awaits[a].join] = a
      BY <1>7 DEF Asked
    <3>1. awaits[a].join \in Tasks /\ holder[awaits[a].join] = a /\ waker[awaits[a].join] = a
      BY Typed DEF IInv, JoinsAlive, Asked
    <3> QED  BY <1>2, <2>1, <2>3, <3>1
  <2>6. PolledOnce' /\ JoinsAlive' /\ NoLostWakeup'
    BY <1>1, <1>4, <1>7 DEF IInv, PolledOnce, JoinsAlive, NoLostWakeup, Resumable
  <2> QED  BY <1>4, <1>5, <2>4, <2>5, <2>6 DEF IInv
<1>8. CASE Resume(Root) /\ UNCHANGED <<waker, armed>>
  <2>1. /\ task' \in [Tasks -> {"none", "pending", "ready", "empty"}]
        /\ holder' \in [Tasks -> Actors \cup {None}]
        /\ awaits' \in [Actors -> [join : Tasks \cup {None}, event : BOOLEAN, yield : BOOLEAN]]
        /\ JoinsAlive' /\ Asked'
        /\ \A v \in Tasks : task'[v] = task[v] \/ (task[v] = "ready" /\ task'[v] = "empty")
        /\ \A b \in Actors : b # Root => awaits'[b] = awaits[b]
    BY <1>2, <1>8, Resuming
  <2>2. TypeOK'
    BY <1>1, <1>4, <1>8, <2>1 DEF IInv, TypeOK
  <2>3. PolledOnce'
    BY <1>4, <2>1 DEF IInv, PolledOnce
  <2>4. NoLostWakeup'
    <3>1. ASSUME NEW v \in Tasks, Resumable(v)' PROVE Resumable(v)
      BY <1>1, <1>2, <2>1, <3>1, Typed DEF IInv, Resumable
    <3> QED  BY <1>1, <1>4, <2>1, <3>1 DEF IInv, NoLostWakeup
  <2> QED  BY <1>4, <1>5, <2>1, <2>2, <2>3, <2>4 DEF IInv
<1> QED  BY <1>1, <1>6, <1>7, <1>8

\* Only the frames change, and not who is polled.
LEMMA FramesOnly ==
  ASSUME IInv, Stacked', stack' \in Seq(Frame), InQueue',
         UNCHANGED <<queue, task, waker, holder, awaits, armed, fired>>, returned' \in BOOLEAN,
         \A t \in Tasks : Borrowed(t)' <=> Borrowed(t)
  PROVE  IInv'
BY DEF IInv, TypeOK, PolledOnce, JoinsAlive, Asked, NoLostWakeup, Resumable

LEMMA StartRoundStep ==
  ASSUME IInv, StartRound
  PROVE  IInv'
<1> DEFINE f == [left |-> Len(queue), who |-> None, fuel |-> 0]
<1>1. /\ SetTop(f) /\ Top.who = Root
      /\ UNCHANGED <<queue, task, waker, holder, awaits, armed, fired, returned>>
  BY DEF StartRound, Count
<1>2. Len(queue) \in Nat /\ Root \notin Tasks /\ None \notin Tasks
  BY Typed, LenProperties DEF IInv
<1>3. f \in Frame /\ f.who = None /\ f.left = Len(queue)
  BY <1>2, FrameType
<1> HIDE DEF f
<1>4. /\ Stacked' /\ stack' \in Seq(Frame) /\ Top'.left = Len(queue)
      /\ \A v \in Tasks : Borrowed(v)' <=> Borrowed(v)
  BY <1>1, <1>2, <1>3, TopSet DEF IInv
<1>5. InQueue' /\ returned' \in BOOLEAN
  BY <1>1, <1>2, <1>4 DEF InQueue, IInv, TypeOK
<1> QED  BY <1>1, <1>4, <1>5, FramesOnly

LEMMA BlockOnNestedStep ==
  ASSUME IInv, NEW a \in Actors, BlockOnNested(a)
  PROVE  IInv'
<1> DEFINE f == [left |-> 0, who |-> Root, fuel |-> 0]
           n == Len(stack)
<1>1. /\ n < MaxDepth /\ stack' = Append(stack, f)
      /\ UNCHANGED <<queue, task, waker, holder, awaits, armed, fired, returned>>
  BY DEF BlockOnNested
<1>2. Root \in Actors /\ Root \notin Tasks /\ stack \in Seq(Frame)
  BY Typed DEF IInv
<1>3. f \in Frame /\ f.who = Root
  BY <1>2, FrameType
<1>4. n \in Nat /\ n >= 1 /\ DOMAIN stack = 1 .. n
  BY TopType DEF IInv
<1> HIDE DEF f
<1>5. /\ stack' \in Seq(Frame) /\ Len(stack') = n + 1 /\ DOMAIN stack' = 1 .. n + 1
      /\ stack'[n + 1] = f /\ \A i \in 1 .. n : stack'[i] = stack[i]
  <2>1. stack' \in Seq(Frame) /\ Len(stack') = n + 1
    BY <1>1, <1>2, <1>3, AppendProperties
  <2>2. DOMAIN stack' = 1 .. n + 1
    BY <2>1, LenProperties
  <2> QED  BY <1>1, <1>2, <1>3, <2>1, <2>2, AppendProperties
<1>6. stack' # <<>> /\ Len(stack') <= MaxDepth
  BY <1>1, <1>4, <1>5, BoundsAssumption, EmptySeq
<1> HIDE DEF n
<1>7. \A i \in 1 .. n + 1 : i \in 1 .. n \/ i = n + 1
  BY <1>4
<1>8. \A i, j \in 1 .. n : stack[i].who \in Tasks /\ stack[i].who = stack[j].who => i = j
  BY <1>4 DEF IInv, Stacked
<1>9. Stacked'
  <2>1. \A i, j \in 1 .. n + 1 : stack'[i].who \in Tasks /\ stack'[i].who = stack'[j].who => i = j
    BY <1>2, <1>3, <1>5, <1>7, <1>8
  <2> QED  BY <1>5, <1>6, <2>1 DEF Stacked
<1>10. \A t \in Tasks : Borrowed(t)' <=> Borrowed(t)
  <2>1. \A i \in 1 .. n : i \in 1 .. n + 1
    BY <1>4
  <2> QED  BY <1>2, <1>3, <1>4, <1>5, <1>7, <2>1 DEF Borrowed
<1>11. InQueue' /\ returned' \in BOOLEAN
  BY <1>1, <1>4 DEF InQueue, IInv, TypeOK
<1> QED  BY <1>1, <1>5, <1>9, <1>10, <1>11, FramesOnly

LEMMA NestedReturnsStep ==
  ASSUME IInv, NestedReturns
  PROVE  IInv'
<1> DEFINE n == Len(stack)
<1>1. /\ n > 1 /\ stack[n].who = Root /\ stack' = Front(stack)
      /\ UNCHANGED <<queue, task, waker, holder, awaits, armed, fired, returned>>
  BY DEF NestedReturns, Nested, Top
<1>2. Root \notin Tasks /\ stack \in Seq(Frame)
  BY Typed DEF IInv
<1>3. n \in Nat /\ DOMAIN stack = 1 .. n /\ n <= MaxDepth
  BY TopType DEF IInv, Stacked
<1>4. /\ stack' \in Seq(Frame) /\ Len(stack') = n - 1 /\ DOMAIN stack' = 1 .. n - 1
      /\ \A i \in 1 .. n - 1 : stack'[i] = stack[i]
  <2>1. stack' = SubSeq(stack, 1, n - 1)
    BY <1>1 DEF Front
  <2>2. 1 \in Int /\ n - 1 \in Int /\ \A i \in 1 .. n - 1 : stack[i] \in Frame
    BY <1>1, <1>2, <1>3, ElementOfSeq
  <2> HIDE DEF n
  <2>3. /\ stack' \in Seq(Frame)
        /\ Len(stack') = IF 1 <= n - 1 THEN n - 1 - 1 + 1 ELSE 0
        /\ \A i \in 1 .. n - 1 - 1 + 1 : stack'[i] = stack[1 + i - 1]
    BY <2>1, <2>2, SubSeqProperties
  <2>4. Len(stack') = n - 1 /\ \A i \in 1 .. n - 1 : stack'[i] = stack[i]
    BY <1>1, <1>3, <2>3
  <2>5. DOMAIN stack' = 1 .. n - 1
    BY <2>3, <2>4, LenProperties
  <2> QED  BY <2>3, <2>4, <2>5
<1>5. stack' # <<>> /\ Len(stack') <= MaxDepth
  BY <1>1, <1>3, <1>4, BoundsAssumption, EmptySeq
<1>6. \A i, j \in 1 .. n : stack[i].who \in Tasks /\ stack[i].who = stack[j].who => i = j
  BY <1>3 DEF IInv, Stacked
<1> HIDE DEF n
<1>7. \A i \in 1 .. n - 1 : i \in 1 .. n
  BY <1>3
<1>8. \A i \in 1 .. n : i \in 1 .. n - 1 \/ i = n
  BY <1>3
<1>9. Stacked'
  <2>1. \A i, j \in 1 .. n - 1 : stack'[i].who \in Tasks /\ stack'[i].who = stack'[j].who => i = j
    BY <1>4, <1>6, <1>7
  <2> QED  BY <1>4, <1>5, <2>1 DEF Stacked
<1>10. \A t \in Tasks : Borrowed(t)' <=> Borrowed(t)
  BY <1>1, <1>2, <1>3, <1>4, <1>7, <1>8 DEF Borrowed
<1>11. InQueue' /\ returned' \in BOOLEAN
  BY <1>1, <1>3 DEF InQueue, IInv, TypeOK
<1> QED  BY <1>1, <1>4, <1>9, <1>10, <1>11, FramesOnly

LEMMA NextOK == IInv /\ [Next]_vars => IInv'
<1> SUFFICES ASSUME IInv, [Next]_vars PROVE IInv'
  OBVIOUS
<1>1. CASE BlockOnReturns \/ UNCHANGED vars
  <2>1. /\ UNCHANGED <<queue, stack, task, waker, holder, awaits, armed, fired>>
        /\ returned' \in BOOLEAN
    BY <1>1 DEF BlockOnReturns, vars, IInv, TypeOK
  <2>2. /\ Stacked' /\ InQueue' /\ stack' \in Seq(Frame)
        /\ \A t \in Tasks : Borrowed(t)' <=> Borrowed(t)
    BY <2>1, Typed DEF IInv, Stacked, InQueue, Top, Borrowed
  <2> QED  BY <2>1, <2>2, FramesOnly
<1>2. CASE StartRound \/ PollRoot \/ PopPending \/ NestedReturns
  BY <1>2, StartRoundStep, PollRootStep, PopPendingStep, NestedReturnsStep
<1>3. ASSUME NEW a \in Actors, NEW u \in Tasks, Spawn(a, u) \/ Abort(a, u) \/ Join(a, u)
      PROVE  IInv'
  BY <1>3, SpawnStep, AbortStep, JoinStep
<1>4. ASSUME NEW a \in Actors, NEW u \in Tasks, NEW b \in Actors \cup {None}, PassOn(a, u, b)
      PROVE  IInv'
  BY <1>4, PassOnStep
<1>5. ASSUME NEW a \in Actors, NEW b \in Actors, Signal(a, b) PROVE IInv'
  BY <1>5, SignalStep
<1>6. ASSUME NEW a \in Actors, NEW u \in Tasks \cup {None}, NEW e \in BOOLEAN, Await(a, u, e)
      PROVE  IInv'
  BY <1>6, AwaitStep
<1>7. ASSUME NEW a \in Actors, YieldNow(a) \/ BlockOnNested(a) PROVE IInv'
  BY <1>7, YieldNowStep, BlockOnNestedStep
<1>8. ASSUME NEW t \in Tasks, Finish(t) PROVE IInv'
  BY <1>8, FinishStep
<1> QED  BY <1>1, <1>2, <1>3, <1>4, <1>5, <1>6, <1>7, <1>8 DEF Next

THEOREM Invariance == Spec => []IInv
  BY InitOK, NextOK, PTL DEF Spec

-----------------------------------------------------------------------------
(* What follows. *)

\* The state of the executor stays in its types, the frames of block_on included
\* (Executor, TypeOK).
THEOREM TypeCorrect == Spec => []TypeOK
<1>1. IInv => TypeOK
  BY DEF IInv
<1> QED  BY <1>1, Invariance, PTL

\* A task that can go on is in the queue unless it is being polled, also when handles move
\* between futures and block_on is called inside a poll: no wakeup is lost.
THEOREM NoWakeupLost == Spec => []NoLostWakeup
<1>1. IInv => NoLostWakeup
  BY DEF IInv
<1> QED  BY <1>1, Invariance, PTL

\* Whoever awaits a Task owns its handle, and its output is there or will be: abort and
\* await consume the handle, so no join waits for a task that is gone.
THEOREM JoinsAreAnswered == Spec => []JoinsAlive
<1>1. IInv => JoinsAlive
  BY DEF IInv
<1> QED  BY <1>1, Invariance, PTL

\* When block_on is not called inside a poll, what is left of a round is in the queue,
\* whatever the tasks do, so the unwrap of its pop_front never fails.
THEOREM NoEmptyPop ==
  ASSUME MaxDepth = 1
  PROVE  Spec => []PopSucceeds
<1>1. IInv => PopSucceeds
  BY TopType, EmptySeq DEF IInv, InQueue, PopSucceeds, Popping
<1> QED  BY <1>1, Invariance, PTL
=============================================================================
