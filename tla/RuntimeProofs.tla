---------------------------- MODULE RuntimeProofs ----------------------------
(***************************************************************************)
(* The runtime keeps its promises for any number of tasks and operations   *)
(* and rings of any size.                                                  *)
(*                                                                         *)
(* A request under way is under way once (Once); the operation it is of    *)
(* is the one its owner is at, and the owner has sent it (Known, Own).     *)
(* Entries are bounded by the driver, so requests under way are (Bounded); *)
(* a ring of answers that holds as many can always take the next.  Main is *)
(* past join only when every task has ended (Joined), and a task that      *)
(* ended by itself left no entry (Own).  Joined is kept apart from the     *)
(* rest, IInv, which also holds when main leaves (module Buffers).         *)
(***************************************************************************)
EXTENDS Runtime, Facts

Once ==
  /\ IsInjective(sq) /\ IsInjective(rq)
  /\ ToSet(sq) \cap answers = {} /\ ToSet(sq) \cap ToSet(rq) = {} /\ answers \cap ToSet(rq) = {}

\* Whoever made the request knows it by its entry, and is not still about to send it.
Known == \A o \in InFlight : entry[o] \in {"live", "cancelled"} /\ stage[o[1]] # "ring"

\* An actor has an entry for the operation it is at, when it is at one, and no other.
Own ==
  /\ \A o \in Ops : entry[o] # "none" => /\ o[2] = round[o[1]]
                                         /\ stage[o[1]] \in {"ring", "op", "aborted"}
  /\ \A a \in Actors : /\ stage[a] = "ring" => entry[Op(a)] = "live"
                       /\ stage[a] = "op" => entry[Op(a)] \in {"live", "completed"}

Bounded == Cardinality(Entries) <= SizeA

\* What recv_bulk announced is there.
Batched == batch <= Len(rq)

\* Only main joins, it is done when it stops, and it is not aborted.
Roles ==
  /\ \A t \in Tasks : stage[t] # "join"
  /\ pc = "end" => stage[Main] = "done"
  /\ round[Main] = 1
  /\ stage[Main] # "aborted" /\ (~MayAbort => \A t \in Tasks : stage[t] # "aborted")

\* The exit operation is the last of all.
ExitLast == server \in {"exiting", "end"} => stage[Main] \in {"op", "done"}

Core == Once /\ Known /\ Own /\ Bounded

\* Main goes on when all tasks have ended.
Joined == stage[Main] # "join" => AllJoined

IInv == TypeOK /\ Core /\ Batched /\ Roles /\ ExitLast /\ NobodyForgotten

-----------------------------------------------------------------------------
(* Tasks are spawned in some order. *)

LEMMA SetToSeqOf ==
  ASSUME NEW S, IsFiniteSet(S)
  PROVE  SetToSeq(S) \in Seq(S) /\ ToSet(SetToSeq(S)) = S
<1> DEFINE n == Cardinality(S)
           f == SetToSeq(S)
<1>1. n \in Nat /\ ExistsBijection(1 .. n, S)
  BY FS_CardinalityType
<1>2. \E g \in [1 .. n -> S] : IsInjective(g)
  BY <1>1 DEF ExistsBijection, Bijection, Injection
<1>3. f \in [1 .. n -> S] /\ IsInjective(f)
  BY <1>2 DEF SetToSeq
<1> HIDE DEF f
<1>4. f \in Injection(1 .. n, S)
  BY <1>3 DEF Injection
<1>5. IsFiniteSet(1 .. n) /\ Cardinality(1 .. n) = n
  BY <1>1, FS_Interval
<1>6. f \in Surjection(1 .. n, S)
  BY <1>4, <1>5, FS_Injection
<1>7. ToSet(f) = S
  BY <1>3, <1>6 DEF ToSet, Surjection
<1>8. f \in Seq(S)
  BY <1>1, <1>3, SeqDef
<1> QED  BY <1>7, <1>8 DEF f

-----------------------------------------------------------------------------
(* The entries of the driver. *)

LEMMA OpsFinite == IsFiniteSet(Ops)
<1>1. IsFiniteSet(1 .. Rounds)
  BY BoundsAssumption, FS_Interval
<1>2. IsFiniteSet(Tasks \X (1 .. Rounds))
  BY <1>1, NamesAssumption, FS_Product
<1> QED  BY <1>2, FS_AddElement DEF Ops

\* The operation an actor is at is one of its own.
LEMMA OpsOf ==
  ASSUME TypeOK, Roles
  PROVE  /\ \A a \in Actors : Op(a) \in Ops
         /\ \A o \in Ops : o[1] \in Actors /\ o = <<o[1], o[2]>> /\ (o # Exit => o[1] \in Tasks)
<1>1. \A a \in Actors : Op(a) \in Ops
  BY DEF TypeOK, Roles, Op, Ops, Actors, Exit
<1>2. \A o \in Ops : o[1] \in Actors /\ o = <<o[1], o[2]>> /\ (o # Exit => o[1] \in Tasks)
  BY DEF Ops, Actors, Exit
<1> QED  BY <1>1, <1>2

LEMMA EntryTaken ==
  ASSUME Bounded, ~DriverFull, NEW o \in Ops,
         entry \in [Ops -> {"none", "live", "completed", "cancelled"}],
         entry' = [entry EXCEPT ![o] = "live"]
  PROVE  Bounded'
<1>1. Entries \subseteq Ops /\ Entries' = Entries \cup {o}
  BY DEF Entries
<1>2. IsFiniteSet(Entries)
  BY <1>1, OpsFinite, FS_Subset
<1>3. Cardinality(Entries) \in Nat
  BY <1>2, FS_CardinalityType
<1>4. Cardinality(Entries) + 1 <= SizeA
  BY <1>3, SizesAssumption DEF Bounded, DriverFull
<1>5. Cardinality(Entries \cup {o}) <= Cardinality(Entries) + 1
  <2>1. Cardinality(Entries \cup {o}) = IF o \in Entries THEN Cardinality(Entries)
                                                        ELSE Cardinality(Entries) + 1
    BY <1>2, FS_AddElement, Zenon
  <2> QED  BY <1>3, <2>1
<1>6. Cardinality(Entries') <= SizeA
  <2>1. Cardinality(Entries') = Cardinality(Entries \cup {o})
    BY <1>1
  <2>2. Cardinality(Entries \cup {o}) \in Nat
    BY <1>2, FS_AddElement, FS_CardinalityType, Zenon
  <2> QED  BY <1>3, <1>4, <1>5, <2>1, <2>2, SizesAssumption
<1> QED  BY <1>6 DEF Bounded

LEMMA EntryLeft ==
  ASSUME Bounded, \A o \in Ops : entry[o] = "none" => entry'[o] = "none"
  PROVE  Bounded'
<1>1. Entries \subseteq Ops /\ Entries' \subseteq Entries
  BY DEF Entries
<1>2. IsFiniteSet(Entries)
  BY <1>1, OpsFinite, FS_Subset
<1>3. IsFiniteSet(Entries') /\ Cardinality(Entries') <= Cardinality(Entries)
  BY <1>1, <1>2, FS_Subset
<1>4. Cardinality(Entries) \in Nat /\ Cardinality(Entries') \in Nat
  BY <1>2, <1>3, FS_CardinalityType
<1> QED  BY <1>3, <1>4, SizesAssumption DEF Bounded

\* Requests under way have entries, so they are no more than the driver holds.
LEMMA FewUnderWay ==
  ASSUME TypeOK, Once, Known, Bounded
  PROVE  /\ Len(sq) + Cardinality(answers) + Len(rq) = Cardinality(InFlight)
         /\ Len(sq) + Cardinality(answers) + Len(rq) <= SizeA
         /\ IsFiniteSet(answers) /\ Cardinality(answers) \in Nat
<1>1. /\ sq \in Seq(Ops) /\ rq \in Seq(Ops) /\ answers \subseteq Ops
      /\ entry \in [Ops -> {"none", "live", "completed", "cancelled"}]
  BY DEF TypeOK
<1>2. /\ IsFiniteSet(ToSet(sq)) /\ Cardinality(ToSet(sq)) = Len(sq) /\ Len(sq) \in Nat
      /\ IsFiniteSet(ToSet(rq)) /\ Cardinality(ToSet(rq)) = Len(rq) /\ Len(rq) \in Nat
      /\ ToSet(sq) \subseteq Ops /\ ToSet(rq) \subseteq Ops
  BY <1>1, SetOfSeq DEF Once
<1>3. IsFiniteSet(answers) /\ Cardinality(answers) \in Nat
  BY <1>1, OpsFinite, FS_Subset, FS_CardinalityType
<1> DEFINE T == ToSet(sq) \cup answers
<1>4. ToSet(sq) \cap answers = {} /\ T \cap ToSet(rq) = {} /\ InFlight = T \cup ToSet(rq)
  BY DEF Once, InFlight
<1>5. IsFiniteSet(T) /\ Cardinality(T) = Len(sq) + Cardinality(answers)
  <2>1. /\ IsFiniteSet(T)
        /\ Cardinality(T) = Cardinality(ToSet(sq)) + Cardinality(answers)
                            - Cardinality(ToSet(sq) \cap answers)
    BY <1>2, <1>3, FS_Union, Zenon
  <2>2. Cardinality(ToSet(sq) \cap answers) = 0
    BY <1>4, FS_EmptySet
  <2> HIDE DEF T
  <2> QED  BY <1>2, <1>3, <2>1, <2>2
<1> HIDE DEF T
<1>6. Cardinality(InFlight) = Len(sq) + Cardinality(answers) + Len(rq) /\ IsFiniteSet(InFlight)
  <2>1. /\ IsFiniteSet(T \cup ToSet(rq))
        /\ Cardinality(T \cup ToSet(rq)) = Cardinality(T) + Cardinality(ToSet(rq))
                                           - Cardinality(T \cap ToSet(rq))
    BY <1>2, <1>5, FS_Union, Zenon
  <2>2. Cardinality(T \cap ToSet(rq)) = 0
    BY <1>4, FS_EmptySet
  <2> QED  BY <1>2, <1>3, <1>4, <1>5, <2>1, <2>2
<1>7. InFlight \subseteq Entries /\ Entries \subseteq Ops
  BY <1>1, <1>2 DEF InFlight, Known, Entries
<1>8. IsFiniteSet(Entries) /\ Cardinality(InFlight) <= Cardinality(Entries)
  BY <1>7, OpsFinite, FS_Subset
<1>9. Cardinality(Entries) \in Nat /\ Cardinality(InFlight) \in Nat
  BY <1>6, <1>8, FS_CardinalityType
<1> QED  BY <1>3, <1>6, <1>8, <1>9, SizesAssumption DEF Bounded

LEMMA WaitAppends ==
  ASSUME Wait
  PROVE  /\ pending' = pending \/ pending' = Append(pending, cur)
         /\ cur # Main => pending' = Append(pending, cur)
BY DEF Wait

LEMMA WaitPending ==
  ASSUME Wait, pending \in Seq(Actors), cur \in Actors
  PROVE  /\ pending' \in Seq(Actors) /\ ToSet(pending) \subseteq ToSet(pending')
         /\ cur # Main => cur \in ToSet(pending')
<1>1. /\ Append(pending, cur) \in Seq(Actors)
      /\ ToSet(Append(pending, cur)) = ToSet(pending) \cup {cur}
  BY SetOfAppend
<1> QED  BY <1>1, WaitAppends

-----------------------------------------------------------------------------
(* Every step preserves the invariant. *)

\* What the requests and entries are about.
LEMMA Frame ==
  ASSUME IInv, UNCHANGED <<stage, round, entry, sq, rq, answers>>
  PROVE  Core'
BY DEF IInv, Core, Once, Known, Own, Bounded, InFlight, Entries, Op

LEMMA Typed ==
  ASSUME TypeOK
  PROVE  /\ stage \in [Actors -> {"join", "slot", "ring", "op", "done", "aborted"}]
         /\ entry \in [Ops -> {"none", "live", "completed", "cancelled"}]
         /\ round \in [Actors -> 1 .. Rounds] /\ cur \in Actors
         /\ sq \in Seq(Ops) /\ rq \in Seq(Ops) /\ answers \subseteq Ops
         /\ queue \in Seq(Tasks) /\ pending \in Seq(Actors)
BY DEF TypeOK

\* What NobodyForgotten says of a task that is not being polled.
Minded(t) == /\ stage[t] \in {"slot", "ring"} => t \in ToSet(pending) \cup ToSet(queue)
             /\ stage[t] = "op" => entry[Op(t)] = "live" \/ t \in ToSet(queue)

LEMMA Remembered ==
  ASSUME \A t \in Tasks : (pc' = "poll" /\ cur' = t) \/ Minded(t)'
  PROVE  NobodyForgotten'
BY DEF NobodyForgotten, Minded

LEMMA StillMinded ==
  ASSUME NobodyForgotten, NEW t \in Tasks, ~(pc = "poll" /\ cur = t),
         stage'[t] = stage[t], Op(t)' = Op(t),
         t \in ToSet(queue) => t \in ToSet(queue'),
         t \in ToSet(pending) => t \in ToSet(pending') \cup ToSet(queue'),
         stage[t] = "op" /\ entry[Op(t)] = "live"
            => entry'[Op(t)] = "live" \/ t \in ToSet(queue')
  PROVE  Minded(t)'
BY DEF NobodyForgotten, Minded

LEMMA Quiet ==
  ASSUME NobodyForgotten, UNCHANGED <<stage, round, entry, queue, pending>>,
         \A t \in Tasks : pc = "poll" /\ cur = t => pc' = "poll" /\ cur' = t
  PROVE  NobodyForgotten'
BY DEF NobodyForgotten, Op

LEMMA UnderWay ==
  ASSUME TypeOK
  PROVE  InFlight \subseteq Ops /\ \A o \in InFlight : o[1] \in Actors
<1>1. InFlight \subseteq Ops
  BY Typed, SetOfSeq DEF InFlight
<1> QED  BY <1>1 DEF Ops, Actors, Exit

LEMMA InitOK == Init => IInv
<1> SUFFICES ASSUME Init PROVE IInv
  OBVIOUS
<1>1. queue \in Seq(Tasks) /\ ToSet(queue) = Tasks /\ Len(queue) \in Nat
  BY SetToSeqOf, NamesAssumption, LenProperties DEF Init
<1>2. TypeOK
  <2>1. Len(sq) = 0 /\ Len(rq) = 0 /\ sq \in Seq(Ops) /\ rq \in Seq(Ops) /\ pending \in Seq(Actors)
    BY DEF Init
  <2> QED  BY <1>1, <2>1, NamesAssumption, SizesAssumption, BoundsAssumption
         DEF Init, TypeOK, Actors
<1>3. Core
  <2>1. ToSet(sq) = {} /\ ToSet(rq) = {} /\ answers = {} /\ IsInjective(sq) /\ IsInjective(rq)
    BY DEF Init, ToSet, IsInjective
  <2>2. Entries = {}
    BY DEF Init, Entries
  <2>3. Cardinality(Entries) = 0
    BY <2>2, FS_EmptySet
  <2>4. Own
    BY DEF Init, Own, Actors
  <2> QED  BY <2>1, <2>3, <2>4, SizesAssumption DEF Core, Once, Known, Bounded, InFlight
<1>4. Batched /\ Roles /\ ExitLast
  BY NamesAssumption DEF Init, Batched, Roles, ExitLast, Actors
<1>5. NobodyForgotten
  BY <1>1, NamesAssumption DEF Init, NobodyForgotten, Actors
<1> QED  BY <1>2, <1>3, <1>4, <1>5 DEF IInv

\* An answer loses nobody from both queues, and it queues the task it completes.
LEMMA AnswerQueue ==
  ASSUME IInv, Answer
  PROVE  /\ queue' \in Seq(Tasks) /\ Len(queue') \in Nat /\ Len(queue') >= Len(queue)
         /\ Len(queue) \in Nat /\ pending' \in Seq(Actors)
         /\ ToSet(queue) \subseteq ToSet(queue')
         /\ \A t \in Tasks : t \in ToSet(pending) => t \in ToSet(pending') \cup ToSet(queue')
         /\ \A o \in Ops : entry[o] = "live" =>
                             entry'[o] = "live" \/ o = Exit \/ o[1] \in ToSet(queue')
<1> DEFINE o == Head(rq)
           w == WakesOne
<1>1. /\ queue' = IF entry[o] = "live" /\ o # Exit THEN Append(w, o[1]) ELSE w
      /\ entry' = [entry EXCEPT ![o] = IF @ = "live" THEN "completed" ELSE "none"]
      /\ pending' = IF pending = <<>> THEN <<>> ELSE Tail(pending)
  BY DEF Answer
<1>2. /\ queue \in Seq(Tasks) /\ pending \in Seq(Actors) /\ rq # <<>> /\ rq \in Seq(Ops)
      /\ entry \in [Ops -> {"none", "live", "completed", "cancelled"}]
  BY SizesAssumption DEF Answer, IInv, TypeOK, Batched
<1>3. o \in Ops /\ (o # Exit => o[1] \in Tasks)
  BY <1>2, SetOfTail, OpsOf DEF IInv
<1>4. /\ w \in Seq(Tasks) /\ Len(w) \in Nat /\ Len(w) >= Len(queue) /\ Len(queue) \in Nat
      /\ ToSet(queue) \subseteq ToSet(w)
      /\ pending # <<>> /\ Head(pending) \in Tasks => Head(pending) \in ToSet(w)
  <2>1. CASE pending # <<>> /\ Head(pending) \in Tasks
    <3>1. w = Append(queue, Head(pending))
      BY <2>1 DEF WakesOne, Woken
    <3> HIDE DEF w
    <3> QED  BY <1>2, <2>1, <3>1, SetOfAppend
  <2>2. CASE ~(pending # <<>> /\ Head(pending) \in Tasks)
    <3>1. w = queue
      BY <2>2 DEF WakesOne, Woken
    <3> QED  BY <1>2, <2>2, <3>1, LenProperties
  <2> QED  BY <2>1, <2>2
<1> HIDE DEF o, w
<1>5. /\ queue' \in Seq(Tasks) /\ Len(queue') \in Nat /\ Len(queue') >= Len(w)
      /\ ToSet(w) \subseteq ToSet(queue')
      /\ entry[o] = "live" /\ o # Exit => o[1] \in ToSet(queue')
  <2>1. CASE entry[o] = "live" /\ o # Exit
    <3>1. queue' = Append(w, o[1]) /\ o[1] \in Tasks
      BY <1>1, <1>3, <2>1
    <3>2. /\ Append(w, o[1]) \in Seq(Tasks) /\ Len(Append(w, o[1])) = Len(w) + 1
          /\ ToSet(Append(w, o[1])) = ToSet(w) \cup {o[1]}
      BY <1>4, <3>1, SetOfAppend
    <3> QED  BY <1>4, <3>1, <3>2
  <2>2. CASE ~(entry[o] = "live" /\ o # Exit)
    BY <1>1, <1>4, <2>2
  <2> QED  BY <2>1, <2>2
<1>6. /\ pending' \in Seq(Actors)
      /\ \A t \in ToSet(pending) : t \in ToSet(pending') \/ (pending # <<>> /\ t = Head(pending))
  <2>1. CASE pending = <<>>
    <3>1. pending' = <<>> /\ ToSet(<<>>) = {}
      BY <1>1, <2>1 DEF ToSet
    <3> QED  BY <2>1, <3>1
  <2>2. CASE pending # <<>>
    <3>1. pending' = Tail(pending)
      BY <1>1, <2>2
    <3>2. /\ Tail(pending) \in Seq(Actors)
          /\ ToSet(pending) = ToSet(Tail(pending)) \cup {Head(pending)}
      BY <1>2, <2>2, SetOfTail
    <3> QED  BY <2>2, <3>1, <3>2
  <2> QED  BY <2>1, <2>2
<1>7. ASSUME NEW p \in Ops, entry[p] = "live", entry'[p] # "live" PROVE p = o
  BY <1>1, <1>2, <1>7
<1> QED  BY <1>4, <1>5, <1>6, <1>7

LEMMA RecvBulkStep ==
  ASSUME IInv, RecvBulk
  PROVE  IInv'
<1>1. TypeOK'
  BY LenProperties, SizesAssumption DEF IInv, TypeOK, RecvBulk
<1>2. Core'
  BY Frame DEF RecvBulk
<1>3. Batched'
  BY DEF IInv, TypeOK, Batched, RecvBulk
<1>4. Roles'
  BY DEF IInv, TypeOK, Roles, RecvBulk
<1>5. ExitLast'
  BY DEF IInv, TypeOK, ExitLast, RecvBulk
<1>6. NobodyForgotten'
  BY Quiet DEF IInv, RecvBulk
<1> QED  BY <1>1, <1>2, <1>3, <1>4, <1>5, <1>6 DEF IInv

LEMMA AnswerStep ==
  ASSUME IInv, Answer
  PROVE  IInv'
<1>1. TypeOK'
  <2>1. /\ queue' \in Seq(Tasks) /\ Len(queue') \in Nat /\ Len(queue') >= Len(queue)
        /\ Len(queue) \in Nat /\ pending' \in Seq(Actors)
    BY AnswerQueue
  <2>2. batch - 1 \in 0 .. SizeB - 1 /\ rq # <<>>
    BY SizesAssumption DEF Answer, IInv, TypeOK, Batched
  <2>3. rq' \in Seq(Ops) /\ Len(rq') < SizeB
    BY <2>2, SetOfTail, SizesAssumption DEF Answer, IInv, TypeOK
  <2>4. entry' \in [Ops -> {"none", "live", "completed", "cancelled"}]
    BY DEF Answer, IInv, TypeOK
  <2>5. left \in 0 .. Len(queue')
    BY <2>1 DEF IInv, TypeOK
  <2> QED  BY <2>1, <2>2, <2>3, <2>4, <2>5 DEF IInv, TypeOK, Answer
<1>2. Core'
  <2> DEFINE o == Head(rq)
  <2>1. /\ UNCHANGED <<stage, round, sq, answers>> /\ rq' = Tail(rq) /\ rq # <<>>
        /\ entry' = [entry EXCEPT ![o] = IF @ = "live" THEN "completed" ELSE "none"]
    BY SizesAssumption DEF Answer, IInv, TypeOK, Batched
  <2>2. rq \in Seq(Ops) /\ entry \in [Ops -> {"none", "live", "completed", "cancelled"}]
    BY Typed DEF IInv
  <2>3. /\ ToSet(rq) = ToSet(rq') \cup {o} /\ o \notin ToSet(rq') /\ IsInjective(rq')
        /\ o \in Ops
    BY <2>1, <2>2, SetOfTail DEF IInv, Core, Once
  <2> HIDE DEF o
  <2>4. Once'
    BY <2>1, <2>3 DEF IInv, Core, Once
  <2>5. o \in InFlight /\ o \notin InFlight' /\ InFlight' \subseteq InFlight
    BY <2>1, <2>3 DEF InFlight, IInv, Core, Once
  <2>6. Known'
    <3>1. \A p \in InFlight' : entry'[p] = entry[p]
      BY <2>1, <2>5
    <3> QED  BY <2>1, <2>5, <3>1 DEF IInv, Core, Known
  <2>7. entry[o] \in {"live", "cancelled"} /\ stage[o[1]] # "ring"
    BY <2>5 DEF IInv, Core, Known
  <2>8. Own'
    <3>1. ASSUME NEW p \in Ops, entry'[p] # "none" PROVE entry[p] # "none"
      BY <2>1, <2>2, <2>7, <3>1
    <3>2. ASSUME NEW a \in Actors, stage[a] = "ring" PROVE entry'[Op(a)] = "live"
      <4>1. entry[Op(a)] = "live" /\ Op(a) # o
        BY <2>7, <3>2 DEF IInv, Core, Own, Op
      <4> QED  BY <2>1, <4>1
    <3>3. ASSUME NEW a \in Actors, stage[a] = "op" PROVE entry'[Op(a)] \in {"live", "completed"}
      <4>1. entry[Op(a)] \in {"live", "completed"}
        BY <3>3 DEF IInv, Core, Own
      <4> QED  BY <2>1, <2>2, <2>3, <2>7, <4>1
    <3> QED  BY <2>1, <3>1, <3>2, <3>3 DEF IInv, Core, Own, Op
  <2>9. Bounded'
    BY <2>1, <2>2, <2>7, EntryLeft DEF IInv, Core
  <2> QED  BY <2>4, <2>6, <2>8, <2>9 DEF Core
<1>3. Batched'
  <2>1. batch > 0 /\ batch' = batch - 1 /\ rq' = Tail(rq) /\ rq # <<>> /\ batch \in Nat
    BY SizesAssumption DEF Answer, IInv, TypeOK, Batched
  <2>2. Len(rq) \in Nat /\ Len(rq') = Len(rq) - 1
    BY <2>1, Typed, SetOfTail DEF IInv
  <2> QED  BY <2>1, <2>2 DEF IInv, Batched
<1>4. Roles'
  BY DEF IInv, TypeOK, Roles, Answer
<1>5. ExitLast'
  BY DEF IInv, TypeOK, ExitLast, Answer
<1>6. NobodyForgotten'
  <2>1. /\ UNCHANGED <<stage, round>> /\ pc = "drain"
    BY DEF Answer
  <2> SUFFICES ASSUME NEW t \in Tasks PROVE Minded(t)'
    BY Remembered
  <2>2. Op(t)' = Op(t)
    BY <2>1 DEF Op
  <2>3. stage[t] = "op" /\ entry[Op(t)] = "live" => entry'[Op(t)] = "live" \/ t \in ToSet(queue')
    <3>1. Op(t) \in Ops /\ Op(t)[1] = t /\ Op(t) # Exit
      BY OpsOf, NamesAssumption DEF IInv, Op, Exit, Actors
    <3> QED  BY <3>1, AnswerQueue
  <2> QED  BY <2>1, <2>2, <2>3, AnswerQueue, StillMinded DEF IInv
<1> QED  BY <1>1, <1>2, <1>3, <1>4, <1>5, <1>6 DEF IInv

LEMMA PollMainStep ==
  ASSUME IInv, PollMain
  PROVE  IInv'
<1>1. TypeOK'
  BY NamesAssumption DEF IInv, TypeOK, Actors, PollMain
<1>2. Core'
  BY Frame DEF PollMain
<1>3. Batched'
  BY DEF IInv, TypeOK, Batched, PollMain
<1>4. Roles'
  BY DEF IInv, TypeOK, Roles, PollMain
<1>5. ExitLast'
  BY DEF IInv, TypeOK, ExitLast, PollMain
<1>6. NobodyForgotten'
  BY Quiet DEF IInv, PollMain
<1> QED  BY <1>1, <1>2, <1>3, <1>4, <1>5, <1>6 DEF IInv

LEMMA PollTaskStep ==
  ASSUME IInv, PollTask
  PROVE  IInv'
<1>1. TypeOK'
  BY NamesAssumption DEF IInv, TypeOK, Actors, PollTask
<1>2. Core'
  BY Frame DEF PollTask
<1>3. Batched'
  BY DEF IInv, TypeOK, Batched, PollTask
<1>4. Roles'
  BY DEF IInv, TypeOK, Roles, PollTask
<1>5. ExitLast'
  BY DEF IInv, TypeOK, ExitLast, PollTask
<1>6. NobodyForgotten'
  <2>1. /\ UNCHANGED <<stage, round, entry, pending>> /\ pc = "round" /\ queue' = Tail(queue)
        /\ left > 0
    BY DEF PollTask
  <2>2. queue \in Seq(Tasks) /\ queue # <<>>
    BY <2>1 DEF IInv, TypeOK
  <2>3. ToSet(queue) = ToSet(queue') \cup {Head(queue)}
    BY <2>1, <2>2, SetOfTail
  <2> SUFFICES ASSUME NEW t \in Tasks PROVE (pc' = "poll" /\ cur' = t) \/ Minded(t)'
    BY Remembered
  <2>4. CASE t = Head(queue) /\ stage[t] \in {"slot", "ring", "op"}
    BY <2>4 DEF PollTask
  <2>5. CASE stage[t] \notin {"slot", "ring", "op"}
    BY <2>1, <2>5 DEF Minded
  <2>6. CASE t # Head(queue)
    BY <2>1, <2>3, <2>6, StillMinded DEF IInv, Op
  <2> QED  BY <2>4, <2>5, <2>6
<1> QED  BY <1>1, <1>2, <1>3, <1>4, <1>5, <1>6 DEF IInv

LEMMA NextRoundStep ==
  ASSUME IInv, NextRound
  PROVE  IInv'
<1>1. TypeOK'
  BY DEF IInv, TypeOK, NextRound
<1>2. Core'
  BY Frame DEF NextRound
<1>3. Batched'
  BY DEF IInv, TypeOK, Batched, NextRound
<1>4. Roles'
  BY DEF IInv, TypeOK, Roles, NextRound
<1>5. ExitLast'
  BY DEF IInv, TypeOK, ExitLast, NextRound
<1>6. NobodyForgotten'
  BY Quiet DEF IInv, NextRound
<1> QED  BY <1>1, <1>2, <1>3, <1>4, <1>5, <1>6 DEF IInv

LEMMA SubmitStep ==
  ASSUME IInv, Submit
  PROVE  IInv'
<1>1. TypeOK'
  BY DEF IInv, TypeOK, Submit, At, Goto, Op
<1>2. Core'
  <2> DEFINE o == Op(cur)
  <2>1. /\ UNCHANGED <<round, sq, rq, answers>> /\ stage[cur] = "slot" /\ ~DriverFull
        /\ stage' = [stage EXCEPT ![cur] = "ring"] /\ entry' = [entry EXCEPT ![o] = "live"]
    BY DEF Submit, At, Goto
  <2>2. /\ entry \in [Ops -> {"none", "live", "completed", "cancelled"}] /\ cur \in Actors
        /\ o \in Ops /\ o[1] = cur /\ o[2] = round[cur] /\ DOMAIN stage = Actors
    BY Typed, OpsOf DEF IInv, Op
  <2>3. Own
    BY DEF IInv, Core
  <2>4. entry[o] = "none"
    BY <2>1, <2>2, <2>3 DEF Own
  <2>5. o \notin InFlight
    BY <2>4 DEF IInv, Core, Known
  <2> HIDE DEF o
  <2>6. Once' /\ InFlight' = InFlight
    BY <2>1 DEF IInv, Core, Once, InFlight
  <2>7. InFlight \subseteq Ops
    BY Typed, SetOfSeq DEF IInv, InFlight
  <2>8. \A p \in InFlight : p[1] # cur
    <3>1. \A p \in Ops : entry[p] # "none" => p[1] # cur
      BY <2>1, <2>3 DEF Own
    <3> QED  BY <2>7, <3>1 DEF IInv, Core, Known
  <2>9. Known'
    BY <2>1, <2>2, <2>5, <2>6, <2>7, <2>8, OpsOf DEF IInv, Core, Known
  <2>10. Own'
    <3>1. ASSUME NEW p \in Ops, entry'[p] # "none"
          PROVE  p[2] = round'[p[1]] /\ stage'[p[1]] \in {"ring", "op", "aborted"}
      <4>1. CASE p = o
        BY <2>1, <2>2, <4>1
      <4>2. CASE p # o
        <5>1. entry[p] # "none"
          BY <2>1, <3>1, <4>2
        <5>2. p[2] = round[p[1]] /\ stage[p[1]] \in {"ring", "op", "aborted"}
          BY <2>3, <5>1 DEF Own
        <5> QED  BY <2>1, <5>2
      <4> QED  BY <4>1, <4>2
    <3>2. ASSUME NEW a \in Actors
          PROVE  /\ stage'[a] = "ring" => entry'[Op(a)] = "live"
                 /\ stage'[a] = "op" => entry'[Op(a)] \in {"live", "completed"}
      <4>1. CASE a = cur
        BY <2>1, <2>2, <4>1 DEF o
      <4>2. CASE a # cur
        <5>1. Op(a) # o
          BY <4>2 DEF Op, o
        <5>2. stage'[a] = stage[a] /\ entry'[Op(a)] = entry[Op(a)]
          BY <2>1, <4>2, <5>1
        <5> QED  BY <2>3, <5>2 DEF Own
      <4> QED  BY <4>1, <4>2
    <3>3. \A a \in Actors : Op(a)' = Op(a)
      BY <2>1 DEF Op
    <3> QED  BY <3>1, <3>2, <3>3 DEF Own
  <2>11. Bounded'
    BY <2>1, <2>2, EntryTaken DEF IInv, Core
  <2> QED  BY <2>6, <2>9, <2>10, <2>11 DEF Core
<1>3. Batched'
  BY DEF IInv, TypeOK, Batched, Submit, At
<1>4. Roles'
  BY DEF IInv, TypeOK, Roles, Submit, At, Goto
<1>5. ExitLast'
  BY DEF IInv, TypeOK, ExitLast, Submit, At, Goto
<1>6. NobodyForgotten'
  <2>1. /\ UNCHANGED <<pc, cur, round, queue, pending>> /\ pc = "poll"
        /\ stage' = [stage EXCEPT ![cur] = "ring"] /\ entry' = [entry EXCEPT ![Op(cur)] = "live"]
    BY DEF Submit, At, Goto
  <2> SUFFICES ASSUME NEW t \in Tasks, cur # t PROVE Minded(t)'
    BY <2>1, Remembered
  <2>2. Op(t)' = Op(t) /\ Op(t) # Op(cur) /\ stage'[t] = stage[t] /\ Op(t) \in Ops
    BY <2>1, Typed, OpsOf DEF IInv, Op, Actors
  <2>3. entry'[Op(t)] = entry[Op(t)]
    BY <2>1, <2>2, Typed DEF IInv
  <2> QED  BY <2>1, <2>2, <2>3, StillMinded DEF IInv
<1> QED  BY <1>1, <1>2, <1>3, <1>4, <1>5, <1>6 DEF IInv

LEMMA WaitForEntryStep ==
  ASSUME IInv, WaitForEntry
  PROVE  IInv'
<1>1. TypeOK'
  <2>1. pending' \in Seq(Actors)
    <3>1. Wait /\ pending \in Seq(Actors) /\ cur \in Actors
      BY Typed DEF IInv, WaitForEntry
    <3> QED  BY <3>1, WaitPending
  <2>2. Len(queue) \in Nat
    BY Typed, LenProperties DEF IInv
  <2> QED  BY <2>1, <2>2 DEF IInv, TypeOK, WaitForEntry, PollReturns
<1>2. Core'
  BY Frame DEF WaitForEntry
<1>3. Batched'
  BY DEF IInv, TypeOK, Batched, WaitForEntry
<1>4. Roles'
  BY DEF IInv, TypeOK, Roles, WaitForEntry, At, PollReturns
<1>5. ExitLast'
  BY DEF IInv, TypeOK, ExitLast, WaitForEntry, At
<1>6. NobodyForgotten'
  <2>1. /\ UNCHANGED <<stage, round, entry, queue>> /\ pc = "poll" /\ pc' = "round"
        /\ Wait
    BY DEF WaitForEntry, At, PollReturns
  <2>2. pending \in Seq(Actors) /\ cur \in Actors
    BY Typed DEF IInv
  <2>3. ToSet(pending) \subseteq ToSet(pending') /\ (cur # Main => cur \in ToSet(pending'))
    BY <2>1, <2>2, WaitPending
  <2>4. stage[cur] # "op"
    BY DEF WaitForEntry, At
  <2> SUFFICES ASSUME NEW t \in Tasks PROVE Minded(t)'
    BY Remembered
  <2>5. CASE cur = t
    BY <2>1, <2>3, <2>4, <2>5, NamesAssumption DEF Minded
  <2>6. CASE cur # t
    BY <2>1, <2>3, <2>6, StillMinded DEF IInv, Op
  <2> QED  BY <2>5, <2>6
<1> QED  BY <1>1, <1>2, <1>3, <1>4, <1>5, <1>6 DEF IInv

LEMMA SendStep ==
  ASSUME IInv, Send
  PROVE  IInv'
<1>1. TypeOK'
  <2>1. /\ sq' = Append(sq, Op(cur)) /\ Len(sq) # SizeA - 1 /\ Op(cur) \in Ops
        /\ sq \in Seq(Ops) /\ Len(sq) < SizeA
    BY Typed, OpsOf DEF Send, RingFull, IInv, TypeOK
  <2>2. sq' \in Seq(Ops) /\ Len(sq') < SizeA
    BY <2>1, SetOfAppend, SizesAssumption
  <2>3. Len(queue) \in Nat
    BY Typed, LenProperties DEF IInv
  <2> QED  BY <2>2, <2>3 DEF IInv, TypeOK, Send, Goto, PollReturns
<1>2. Core'
  <2> DEFINE o == Op(cur)
  <2>1. /\ UNCHANGED <<round, entry, rq, answers>> /\ stage[cur] = "ring"
        /\ stage' = [stage EXCEPT ![cur] = "op"] /\ sq' = Append(sq, o)
    BY DEF Send, At, Goto
  <2>2. /\ cur \in Actors /\ o \in Ops /\ o[1] = cur /\ sq \in Seq(Ops) /\ DOMAIN stage = Actors
        /\ Own
    BY Typed, OpsOf DEF IInv, Core, Op
  <2>3. entry[o] = "live"
    BY <2>1, <2>2 DEF Own
  <2>4. o \notin InFlight
    BY <2>1, <2>2 DEF IInv, Core, Known
  <2> HIDE DEF o
  <2>5. /\ ToSet(sq') = ToSet(sq) \cup {o}
        /\ (IsInjective(sq) /\ o \notin ToSet(sq) => IsInjective(sq'))
    BY <2>1, <2>2, SetOfAppend
  <2>6. Once' /\ InFlight' = InFlight \cup {o}
    BY <2>1, <2>4, <2>5 DEF IInv, Core, Once, InFlight
  <2>7. Known'
    <3>1. \A a : stage'[a] = "ring" => stage[a] = "ring"
      BY <2>1
    <3> QED  BY <2>1, <2>2, <2>3, <2>6, <3>1 DEF IInv, Core, Known
  <2>8. Own'
    <3>1. ASSUME NEW p \in Ops, entry[p] # "none"
          PROVE  p[2] = round[p[1]] /\ stage'[p[1]] \in {"ring", "op", "aborted"}
      BY <2>1, <2>2, <3>1 DEF Own
    <3>2. ASSUME NEW a \in Actors
          PROVE  /\ stage'[a] = "ring" => entry[Op(a)] = "live"
                 /\ stage'[a] = "op" => entry[Op(a)] \in {"live", "completed"}
      BY <2>1, <2>2, <2>3 DEF Own, o
    <3> QED  BY <2>1, <3>1, <3>2 DEF Own, Op
  <2>9. Bounded'
    BY <2>1 DEF IInv, Core, Bounded, Entries
  <2> QED  BY <2>6, <2>7, <2>8, <2>9 DEF Core
<1>3. Batched'
  BY DEF IInv, TypeOK, Batched, Send
<1>4. Roles'
  BY DEF IInv, TypeOK, Roles, Send, At, Goto, PollReturns
<1>5. ExitLast'
  BY DEF IInv, TypeOK, ExitLast, Send, At, Goto
<1>6. NobodyForgotten'
  <2>1. /\ UNCHANGED <<round, entry, queue, pending>> /\ pc = "poll" /\ stage[cur] = "ring"
        /\ stage' = [stage EXCEPT ![cur] = "op"] /\ pc' = "round"
    BY DEF Send, At, Goto, PollReturns
  <2>2. cur \in Actors /\ stage'[cur] = "op" /\ entry[Op(cur)] = "live"
    BY <2>1, Typed DEF IInv, Core, Own
  <2> SUFFICES ASSUME NEW t \in Tasks PROVE Minded(t)'
    BY Remembered
  <2>3. CASE cur = t
    BY <2>1, <2>2, <2>3 DEF Minded, Op
  <2>4. CASE cur # t
    <3>1. stage'[t] = stage[t] /\ Op(t)' = Op(t)
      BY <2>1, <2>4, Typed DEF IInv, Op, Actors
    <3> QED  BY <2>1, <2>4, <3>1, StillMinded DEF IInv
  <2> QED  BY <2>3, <2>4
<1> QED  BY <1>1, <1>2, <1>3, <1>4, <1>5, <1>6 DEF IInv

LEMMA WaitForRingStep ==
  ASSUME IInv, WaitForRing
  PROVE  IInv'
<1>1. TypeOK'
  <2>1. pending' \in Seq(Actors)
    <3>1. Wait /\ pending \in Seq(Actors) /\ cur \in Actors
      BY Typed DEF IInv, WaitForRing
    <3> QED  BY <3>1, WaitPending
  <2>2. Len(queue) \in Nat
    BY Typed, LenProperties DEF IInv
  <2> QED  BY <2>1, <2>2 DEF IInv, TypeOK, WaitForRing, PollReturns
<1>2. Core'
  BY Frame DEF WaitForRing
<1>3. Batched'
  BY DEF IInv, TypeOK, Batched, WaitForRing
<1>4. Roles'
  BY DEF IInv, TypeOK, Roles, WaitForRing, At, PollReturns
<1>5. ExitLast'
  BY DEF IInv, TypeOK, ExitLast, WaitForRing, At
<1>6. NobodyForgotten'
  <2>1. /\ UNCHANGED <<stage, round, entry, queue>> /\ pc = "poll" /\ pc' = "round"
        /\ Wait
    BY DEF WaitForRing, At, PollReturns
  <2>2. pending \in Seq(Actors) /\ cur \in Actors
    BY Typed DEF IInv
  <2>3. ToSet(pending) \subseteq ToSet(pending') /\ (cur # Main => cur \in ToSet(pending'))
    BY <2>1, <2>2, WaitPending
  <2>4. stage[cur] # "op"
    BY DEF WaitForRing, At
  <2> SUFFICES ASSUME NEW t \in Tasks PROVE Minded(t)'
    BY Remembered
  <2>5. CASE cur = t
    BY <2>1, <2>3, <2>4, <2>5, NamesAssumption DEF Minded
  <2>6. CASE cur # t
    BY <2>1, <2>3, <2>6, StillMinded DEF IInv, Op
  <2> QED  BY <2>5, <2>6
<1> QED  BY <1>1, <1>2, <1>3, <1>4, <1>5, <1>6 DEF IInv

LEMMA StillAwaitingStep ==
  ASSUME IInv, StillAwaiting
  PROVE  IInv'
<1>1. TypeOK'
  BY DEF IInv, TypeOK, StillAwaiting, At, PollReturns, Op
<1>2. Core'
  BY Frame DEF StillAwaiting
<1>3. Batched'
  BY DEF IInv, TypeOK, Batched, StillAwaiting
<1>4. Roles'
  BY DEF IInv, TypeOK, Roles, StillAwaiting, At, PollReturns
<1>5. ExitLast'
  BY DEF IInv, TypeOK, ExitLast, StillAwaiting, At
<1>6. NobodyForgotten'
  <2>1. /\ UNCHANGED <<stage, round, entry, queue, pending>> /\ pc = "poll" /\ pc' = "round"
        /\ stage[cur] = "op" /\ entry[Op(cur)] = "live"
    BY DEF StillAwaiting, At, PollReturns
  <2> SUFFICES ASSUME NEW t \in Tasks PROVE Minded(t)'
    BY Remembered
  <2>2. CASE cur = t
    BY <2>1, <2>2 DEF Minded, Op
  <2>3. CASE cur # t
    BY <2>1, <2>3, StillMinded DEF IInv, Op
  <2> QED  BY <2>2, <2>3
<1> QED  BY <1>1, <1>2, <1>3, <1>4, <1>5, <1>6 DEF IInv

LEMMA FetchStep ==
  ASSUME IInv, Fetch
  PROVE  IInv'
<1>1. TypeOK'
  <2>1. entry' \in [Ops -> {"none", "live", "completed", "cancelled"}]
    BY DEF Fetch, IInv, TypeOK
  <2>2. round' \in [Actors -> 1 .. Rounds]
    <3>1. round[cur] \in Nat /\ round[cur] >= 1
      BY BoundsAssumption DEF IInv, TypeOK
    <3>2. round[cur] < Rounds => round[cur] + 1 \in 1 .. Rounds
      BY <3>1, BoundsAssumption
    <3> QED  BY <3>2 DEF Fetch, IInv, TypeOK
  <2>3. stage' \in [Actors -> {"join", "slot", "ring", "op", "done", "aborted"}]
    BY DEF Fetch, Goto, IInv, TypeOK
  <2>4. left' \in 0 .. Len(queue) /\ pc' \in {"root", "drain", "poll", "round", "end"} /\ cur' = cur
    <3>1. Len(queue) \in Nat
      BY Typed, LenProperties DEF IInv
    <3> QED  BY <3>1 DEF Fetch, PollReturns, IInv, TypeOK
  <2> QED  BY <2>1, <2>2, <2>3, <2>4 DEF IInv, TypeOK, Fetch
<1>2. Core'
  <2> DEFINE o == Op(cur)
  <2>1. /\ UNCHANGED <<sq, rq, answers>> /\ stage[cur] = "op" /\ entry[o] = "completed"
        /\ entry' = [entry EXCEPT ![o] = "none"]
        /\ stage' = [stage EXCEPT ![cur] = "slot"] \/ stage' = [stage EXCEPT ![cur] = "done"]
        /\ round' = round \/ round' = [round EXCEPT ![cur] = @ + 1]
    BY DEF Fetch, At, Goto
  <2>2. /\ entry \in [Ops -> {"none", "live", "completed", "cancelled"}] /\ cur \in Actors
        /\ o \in Ops /\ o = <<cur, round[cur]>> /\ Own /\ DOMAIN stage = Actors
        /\ InFlight \subseteq Ops
    BY Typed, OpsOf, SetOfSeq DEF IInv, Core, Op, InFlight
  <2> HIDE DEF o
  <2>3. o \notin InFlight /\ InFlight' = InFlight /\ Once'
    BY <2>1 DEF IInv, Core, Known, InFlight, Once
  <2>4. \A p \in Ops : entry'[p] # "none" => entry[p] # "none" /\ p[1] # cur /\ p # o
    <3> SUFFICES ASSUME NEW p \in Ops, entry'[p] # "none"
                 PROVE  entry[p] # "none" /\ p[1] # cur /\ p # o
      OBVIOUS
    <3>1. p # o /\ entry[p] # "none"
      BY <2>1, <2>2
    <3>2. p[2] = round[p[1]] /\ p = <<p[1], p[2]>>
      BY <2>2, <3>1, OpsOf DEF Own, IInv
    <3> QED  BY <2>2, <3>1, <3>2
  <2>5. \A p \in InFlight : entry'[p] = entry[p] /\ entry[p] # "none"
    BY <2>1, <2>3 DEF IInv, Core, Known
  <2>6. Known'
    <3>1. \A a \in Actors : stage'[a] = "ring" => stage[a] = "ring"
      BY <2>1, <2>2
    <3> QED  BY <2>3, <2>5, <3>1, UnderWay DEF IInv, Core, Known
  <2>7. \A a \in Actors : a # cur => stage'[a] = stage[a] /\ round'[a] = round[a]
    BY <2>1, Typed DEF IInv
  <2>8. Own'
    <3>1. ASSUME NEW p \in Ops, entry'[p] # "none"
          PROVE  p[2] = round'[p[1]] /\ stage'[p[1]] \in {"ring", "op", "aborted"}
      BY <2>2, <2>4, <2>7, <3>1, OpsOf DEF Own, IInv
    <3>2. ASSUME NEW a \in Actors, stage'[a] \in {"ring", "op"}
          PROVE  stage'[a] = stage[a] /\ entry'[Op(a)'] = entry[Op(a)]
      <4>1. a # cur
        BY <2>1, <2>2, <3>2
      <4>2. Op(a)' = Op(a) /\ Op(a) # o
        BY <2>2, <2>7, <4>1 DEF Op
      <4> QED  BY <2>1, <2>7, <4>1, <4>2
    <3>3. \A a \in Actors : /\ stage'[a] = "ring" => entry'[Op(a)'] = "live"
                            /\ stage'[a] = "op" => entry'[Op(a)'] \in {"live", "completed"}
      BY <2>2, <3>2 DEF Own
    <3> QED  BY <3>1, <3>3 DEF Own
  <2>9. Bounded'
    BY <2>4, EntryLeft DEF IInv, Core
  <2> QED  BY <2>3, <2>6, <2>8, <2>9 DEF Core
<1>3. Batched'
  BY DEF IInv, TypeOK, Batched, Fetch
<1>4. Roles'
  <2>1. /\ stage[cur] = "op" /\ pc = "poll"
        /\ pc' = "end" => cur = Main /\ stage' = [stage EXCEPT ![cur] = "done"]
        /\ stage' = [stage EXCEPT ![cur] = "slot"] \/ stage' = [stage EXCEPT ![cur] = "done"]
        /\ (cur \in Tasks /\ round' = [round EXCEPT ![cur] = @ + 1]) \/ round' = round
    BY DEF Fetch, At, Goto, PollReturns
  <2>2. cur \in Actors /\ DOMAIN stage = Actors /\ Main \in Actors /\ Tasks \subseteq Actors
    BY Typed DEF IInv, Actors
  <2>3. \A a \in Actors : stage'[a] \in {"join", "aborted"} => stage'[a] = stage[a]
    BY <2>1, <2>2
  <2>4. round'[Main] = round[Main] /\ (pc' = "end" => stage'[Main] = "done")
    BY <2>1, <2>2, Typed, NamesAssumption DEF IInv
  <2> QED  BY <2>2, <2>3, <2>4 DEF IInv, Roles
<1>5. ExitLast'
  BY NamesAssumption DEF IInv, TypeOK, ExitLast, Actors, Fetch, At, Goto
<1>6. NobodyForgotten'
  <2>1. /\ UNCHANGED <<queue, pending>> /\ pc = "poll"
        /\ entry' = [entry EXCEPT ![Op(cur)] = "none"]
        /\ \/ UNCHANGED <<pc, cur>> /\ cur \in Tasks
           \/ stage' = [stage EXCEPT ![cur] = "done"]
        /\ \A a \in Actors \ {cur} : stage'[a] = stage[a] /\ round'[a] = round[a]
    BY Typed DEF IInv, Fetch, At, Goto
  <2> SUFFICES ASSUME NEW t \in Tasks, ~(pc' = "poll" /\ cur' = t) PROVE Minded(t)'
    BY Remembered
  <2>2. CASE cur = t
    <3>1. stage'[t] = "done"
      BY <2>1, <2>2, Typed DEF IInv
    <3> QED  BY <3>1 DEF Minded
  <2>3. CASE cur # t
    <3>1. Op(t)' = Op(t) /\ Op(t) # Op(cur) /\ stage'[t] = stage[t]
      BY <2>1, <2>3 DEF Op, Actors
    <3> QED  BY <2>1, <2>3, <3>1, StillMinded DEF IInv
  <2> QED  BY <2>2, <2>3
<1> QED  BY <1>1, <1>2, <1>3, <1>4, <1>5, <1>6 DEF IInv

LEMMA JoinStep ==
  ASSUME IInv, Join
  PROVE  IInv'
<1>1. TypeOK'
  <2>1. Len(queue) \in Nat
    BY Typed, LenProperties DEF IInv
  <2>2. stage' \in [Actors -> {"join", "slot", "ring", "op", "done", "aborted"}]
    BY Typed DEF IInv, Join, Goto
  <2>3. left' \in 0 .. Len(queue) /\ pc' \in {"root", "drain", "poll", "round", "end"} /\ cur' = cur
    BY <2>1 DEF IInv, TypeOK, Join, PollReturns
  <2> QED  BY <2>2, <2>3 DEF IInv, TypeOK, Join
<1>2. Core'
  <2>1. /\ UNCHANGED <<round, entry, sq, rq, answers>> /\ stage[cur] = "join"
        /\ stage' = stage \/ stage' = [stage EXCEPT ![cur] = "slot"]
    BY DEF Join, At, Goto
  <2>2. Own /\ cur \in Actors /\ DOMAIN stage = Actors
    BY Typed DEF IInv, Core
  <2>3. \A a \in Actors : stage[a] \in {"ring", "op", "aborted"} => stage'[a] = stage[a]
    BY <2>1, <2>2
  <2>4. \A a \in Actors : stage'[a] \in {"ring", "op"} => stage'[a] = stage[a]
    BY <2>1, <2>2
  <2>5. Once' /\ InFlight' = InFlight /\ Bounded'
    BY <2>1 DEF IInv, Core, Once, InFlight, Bounded, Entries
  <2>6. Known'
    <3>1. \A a \in Actors : stage'[a] = "ring" => stage[a] = "ring"
      BY <2>1, <2>2
    <3> QED  BY <2>1, <2>5, <3>1, UnderWay DEF IInv, Core, Known
  <2>7. Own'
    BY <2>1, <2>2, <2>3, <2>4, OpsOf DEF Own, Op, IInv
  <2> QED  BY <2>5, <2>6, <2>7 DEF Core
<1>3. Batched'
  BY DEF IInv, TypeOK, Batched, Join
<1>4. Roles'
  <2>1. /\ UNCHANGED round /\ stage[cur] = "join" /\ pc' \in {"poll", "round"}
        /\ stage' = stage \/ (AllJoined /\ stage' = [stage EXCEPT ![cur] = "slot"])
    BY DEF Join, At, Goto, PollReturns
  <2>2. cur = Main /\ DOMAIN stage = Actors /\ Main \in Actors /\ Main \notin Tasks
    BY <2>1, Typed, NamesAssumption DEF IInv, Roles, Actors
  <2>3. \A t \in Tasks : stage'[t] = stage[t]
    BY <2>1, <2>2 DEF Actors
  <2>4. stage'[Main] # "aborted" /\ pc' # "end" /\ round'[Main] = 1
    BY <2>1, <2>2 DEF IInv, Roles
  <2> QED  BY <2>3, <2>4 DEF IInv, Roles
<1>5. ExitLast'
  BY NamesAssumption DEF IInv, TypeOK, ExitLast, Actors, Join, At, Goto, AllJoined, Ended
<1>6. NobodyForgotten'
  <2>1. /\ UNCHANGED <<round, entry, queue, pending>> /\ pc = "poll" /\ stage[cur] = "join"
        /\ stage' = [stage EXCEPT ![cur] = "slot"] \/ stage' = stage
    BY DEF Join, At, Goto
  <2>2. cur \notin Tasks
    BY <2>1 DEF IInv, Roles
  <2> SUFFICES ASSUME NEW t \in Tasks PROVE Minded(t)'
    BY Remembered
  <2>3. stage'[t] = stage[t] /\ Op(t)' = Op(t)
    BY <2>1, <2>2, Typed DEF IInv, Op, Actors
  <2> QED  BY <2>1, <2>2, <2>3, StillMinded DEF IInv
<1> QED  BY <1>1, <1>2, <1>3, <1>4, <1>5, <1>6 DEF IInv

LEMMA AbortStep ==
  ASSUME IInv, NEW t \in Tasks, Abort(t)
  PROVE  IInv'
<1>1. TypeOK'
  BY DEF IInv, TypeOK, Abort, At, Ended, Dropped, Op
<1>2. Core'
  <2> DEFINE o == Op(t)
  <2>1. /\ UNCHANGED <<round, sq, rq, answers>> /\ stage' = [stage EXCEPT ![t] = "aborted"]
        /\ IF stage[t] = "op"
           THEN entry' = [entry EXCEPT ![o] = IF @ = "live" THEN "cancelled" ELSE "none"]
           ELSE entry' = entry
    BY DEF Abort, Dropped
  <2>2. /\ Own /\ t \in Actors /\ DOMAIN stage = Actors /\ o \in Ops /\ InFlight \subseteq Ops
        /\ entry \in [Ops -> {"none", "live", "completed", "cancelled"}]
    BY Typed, OpsOf, SetOfSeq DEF IInv, Core, Actors, InFlight
  <2>3. \A a \in Actors \ {t} : Op(a) # o
    BY DEF Op
  <2>4. stage[t] = "op" => entry[o] \in {"live", "completed"}
    BY <2>2 DEF Own
  <2> HIDE DEF o
  <2>5. Once' /\ InFlight' = InFlight
    BY <2>1 DEF IInv, Core, Once, InFlight
  <2>6. \A p \in Ops : entry'[p] # "none" => entry[p] # "none"
    BY <2>1, <2>2, <2>4
  <2>7. Known'
    <3>1. \A p \in InFlight : entry[p] \in {"live", "cancelled"} /\ stage[p[1]] # "ring"
      BY DEF IInv, Core, Known
    <3>2. \A a : stage'[a] = "ring" => stage[a] = "ring"
      BY <2>1, <2>2
    <3>3. \A p \in InFlight : entry'[p] \in {"live", "cancelled"}
      BY <2>1, <2>2, <2>4, <3>1
    <3> QED  BY <2>5, <3>1, <3>2, <3>3 DEF Known
  <2>8. Own'
    <3>1. ASSUME NEW p \in Ops, entry'[p] # "none"
          PROVE  p[2] = round[p[1]] /\ stage'[p[1]] \in {"ring", "op", "aborted"}
      BY <2>1, <2>2, <2>6, <3>1 DEF Own
    <3>2. ASSUME NEW a \in Actors, stage'[a] \in {"ring", "op"}
          PROVE  stage'[a] = stage[a] /\ entry'[Op(a)] = entry[Op(a)]
      <4>1. a # t
        BY <2>1, <2>2, <3>2
      <4>2. Op(a) # o /\ Op(a) \in Ops
        BY <2>3, <4>1, OpsOf DEF IInv
      <4> QED  BY <2>1, <2>2, <4>1, <4>2
    <3>3. \A a \in Actors : Op(a)' = Op(a)
      BY <2>1 DEF Op
    <3> QED  BY <2>1, <2>2, <3>1, <3>2, <3>3 DEF Own
  <2>9. Bounded'
    BY <2>6, EntryLeft DEF IInv, Core
  <2> QED  BY <2>5, <2>7, <2>8, <2>9 DEF Core
<1>3. Batched'
  BY DEF IInv, TypeOK, Batched, Abort
<1>4. Roles'
  BY NamesAssumption DEF IInv, TypeOK, Roles, Actors, Abort, At, Ended
<1>5. ExitLast'
  BY NamesAssumption DEF IInv, TypeOK, ExitLast, Actors, Abort, At, Ended
<1>6. NobodyForgotten'
  <2>1. /\ UNCHANGED <<round, queue, pending>> /\ stage[cur] = "join"
        /\ stage' = [stage EXCEPT ![t] = "aborted"]
        /\ entry' = entry \/ \E k : entry' = [entry EXCEPT ![Op(t)] = k]
    BY DEF Abort, At, Dropped
  <2>2. cur \notin Tasks
    BY <2>1 DEF IInv, Roles
  <2> SUFFICES ASSUME NEW u \in Tasks PROVE Minded(u)'
    BY Remembered
  <2>3. CASE u = t
    <3>1. stage'[t] = "aborted"
      BY <2>1, Typed DEF IInv, Actors
    <3> QED  BY <2>3, <3>1 DEF Minded
  <2>4. CASE u # t
    <3>1. Op(u)' = Op(u) /\ Op(u) # Op(t) /\ stage'[u] = stage[u]
      BY <2>1, <2>4, Typed DEF IInv, Op, Actors
    <3>2. entry'[Op(u)] = entry[Op(u)]
      BY <2>1, <3>1, Typed, OpsOf DEF IInv, Actors
    <3> QED  BY <2>1, <2>2, <3>1, <3>2, StillMinded DEF IInv
  <2> QED  BY <2>3, <2>4
<1> QED  BY <1>1, <1>2, <1>3, <1>4, <1>5, <1>6 DEF IInv

LEMMA ReceiveStep ==
  ASSUME IInv, Receive
  PROVE  IInv'
<1>1. TypeOK'
  BY LenProperties, SizesAssumption DEF IInv, TypeOK, Receive, client
<1>2. Core'
  <2>1. /\ sq # <<>> /\ sq' = Tail(sq) /\ answers' = answers \cup {Head(sq)} /\ rq' = rq
        /\ UNCHANGED <<stage, round, entry>>
    BY DEF Receive, client
  <2>2. /\ ToSet(sq) = ToSet(sq') \cup {Head(sq)}
        /\ IsInjective(sq) => IsInjective(sq') /\ Head(sq) \notin ToSet(sq')
    BY <2>1, Typed, SetOfTail DEF IInv
  <2>3. Once' /\ InFlight' = InFlight
    BY <2>1, <2>2 DEF IInv, Core, Once, InFlight
  <2> QED  BY <2>1, <2>3 DEF IInv, Core, Known, Own, Bounded, Entries, Op
<1>3. Batched'
  BY DEF IInv, TypeOK, Batched, Receive, client
<1>4. Roles'
  BY DEF IInv, TypeOK, Roles, Receive, client
<1>5. ExitLast'
  <2>1. UNCHANGED stage /\ sq # <<>> /\ (server' = "exiting" => Head(sq) = Exit) /\ server' # "end"
    BY DEF Receive, client
  <2>2. CASE Head(sq) = Exit
    <3>1. Exit \in InFlight /\ Exit \in Ops /\ Exit[1] = Main
      <4>1. Exit \in ToSet(sq) /\ Exit \in Ops
        BY <2>1, <2>2, Typed, SetOfTail DEF IInv
      <4> QED  BY <4>1 DEF InFlight, Exit
    <3>2. entry[Exit] # "none" /\ stage[Main] # "ring"
      BY <3>1 DEF IInv, Core, Known
    <3>3. stage[Main] \in {"ring", "op", "aborted"} /\ stage[Main] # "aborted"
      BY <3>1, <3>2 DEF IInv, Core, Own, Roles
    <3> QED  BY <2>1, <3>2, <3>3 DEF ExitLast
  <2>3. CASE Head(sq) # Exit
    BY <2>1, <2>3 DEF ExitLast
  <2> QED  BY <2>2, <2>3
<1>6. NobodyForgotten'
  BY Quiet DEF IInv, Receive, client
<1> QED  BY <1>1, <1>2, <1>3, <1>4, <1>5, <1>6 DEF IInv

LEMMA StartSendingStep ==
  ASSUME IInv, StartSending
  PROVE  IInv'
<1>1. TypeOK'
  BY DEF IInv, TypeOK, StartSending, client
<1>2. Core'
  BY Frame DEF StartSending, client
<1>3. Batched'
  BY DEF IInv, TypeOK, Batched, StartSending, client
<1>4. Roles'
  BY DEF IInv, TypeOK, Roles, StartSending, client
<1>5. ExitLast'
  BY DEF IInv, TypeOK, ExitLast, StartSending, client
<1>6. NobodyForgotten'
  BY Quiet DEF IInv, StartSending, client
<1> QED  BY <1>1, <1>2, <1>3, <1>4, <1>5, <1>6 DEF IInv

LEMMA ReplyStep ==
  ASSUME IInv, NEW o \in Ops, Reply(o)
  PROVE  IInv'
<1>1. TypeOK'
  BY LenProperties, SizesAssumption DEF IInv, TypeOK, Reply, client
<1>2. Core'
  <2>1. /\ o \in answers /\ rq' = Append(rq, o) /\ answers' = answers \ {o} /\ sq' = sq
        /\ UNCHANGED <<stage, round, entry>>
    BY DEF Reply, client
  <2>2. /\ ToSet(rq') = ToSet(rq) \cup {o}
        /\ IsInjective(rq) /\ o \notin ToSet(rq) => IsInjective(rq')
    BY <2>1, Typed, SetOfAppend DEF IInv
  <2>3. Once' /\ InFlight' = InFlight
    BY <2>1, <2>2 DEF IInv, Core, Once, InFlight
  <2> QED  BY <2>1, <2>3 DEF IInv, Core, Known, Own, Bounded, Entries, Op
<1>3. Batched'
  BY DEF IInv, TypeOK, Batched, Reply, client
<1>4. Roles'
  BY DEF IInv, TypeOK, Roles, Reply, client
<1>5. ExitLast'
  BY DEF IInv, TypeOK, ExitLast, Reply, client
<1>6. NobodyForgotten'
  BY Quiet DEF IInv, Reply, client
<1> QED  BY <1>1, <1>2, <1>3, <1>4, <1>5, <1>6 DEF IInv

LEMMA NextOK == IInv /\ [Next]_vars => IInv'
<1> SUFFICES ASSUME IInv, [Next]_vars PROVE IInv'
  OBVIOUS
<1>1. CASE UNCHANGED vars
  <2>1. TypeOK' /\ Batched' /\ Roles' /\ ExitLast'
    BY <1>1 DEF vars, client, IInv, TypeOK, Batched, Roles, ExitLast
  <2>2. Core'
    BY <1>1, Frame DEF vars, client
  <2>3. NobodyForgotten'
    BY <1>1, Quiet DEF IInv, vars, client
  <2> QED  BY <2>1, <2>2, <2>3 DEF IInv
<1>2. CASE Next
  <2>1. CASE Client
    BY <2>1, RecvBulkStep, AnswerStep, PollMainStep, PollTaskStep, NextRoundStep, SubmitStep,
       WaitForEntryStep, SendStep, WaitForRingStep, StillAwaitingStep, FetchStep, JoinStep,
       AbortStep DEF Client
  <2>2. CASE Server
    BY <2>2, ReceiveStep, StartSendingStep, ReplyStep DEF Server
  <2> QED  BY <1>2, <2>1, <2>2 DEF Next
<1> QED  BY <1>1, <1>2

THEOREM Invariance == Spec => []IInv
  BY InitOK, NextOK, PTL DEF Spec

\* Tasks that have ended stay so, and main passes join when all have.
LEMMA JoinedOK == IInv /\ Joined /\ [Next]_vars => Joined'
<1> SUFFICES ASSUME IInv, Joined, [Next]_vars PROVE Joined'
  OBVIOUS
<1>1. stage \in [Actors -> {"join", "slot", "ring", "op", "done", "aborted"}] /\ cur \in Actors
      /\ Main \in Actors /\ Tasks \subseteq Actors
  BY Typed DEF IInv, Actors
<1>2. CASE stage' = stage
  BY <1>2 DEF Joined, AllJoined, Ended
<1>3. ASSUME NEW a \in Actors, NEW s \in {"slot", "ring", "op", "done"}, ~Ended(a),
             stage' = [stage EXCEPT ![a] = s], stage[a] = "join" => a = Main /\ AllJoined
      PROVE  Joined'
  <2>1. \A t \in Tasks : Ended(t) => stage'[t] = stage[t]
    BY <1>1, <1>3 DEF Ended
  <2>2. stage'[Main] # "join" => AllJoined
    BY <1>1, <1>3 DEF Joined
  <2> QED  BY <2>1, <2>2 DEF Joined, AllJoined, Ended
<1>4. CASE \E t \in Tasks : Abort(t)
  <2>1. PICK t \in Tasks : Abort(t)
    BY <1>4
  <2>2. stage' = [stage EXCEPT ![t] = "aborted"]
    BY <2>1 DEF Abort
  <2>3. \A u \in Tasks : Ended(u) => stage'[u] \in {"done", "aborted"}
    BY <1>1, <2>2 DEF Ended
  <2>4. stage'[Main] = stage[Main]
    BY <1>1, <2>2, NamesAssumption
  <2> QED  BY <2>3, <2>4 DEF Joined, AllJoined, Ended
<1>5. CASE Submit
  BY <1>1, <1>3, <1>5 DEF Submit, At, Goto, Ended
<1>6. CASE Send
  BY <1>1, <1>3, <1>6 DEF Send, At, Goto, Ended
<1>7. CASE Fetch
  BY <1>1, <1>3, <1>7 DEF Fetch, At, Goto, Ended
<1>8. CASE Join
  <2>1. stage[cur] = "join" /\ ~Ended(cur) /\ cur = Main
    BY <1>1, <1>8 DEF Join, At, Ended, IInv, Roles, Actors
  <2> QED  BY <1>1, <1>2, <1>3, <1>8, <2>1 DEF Join, Goto
<1>9. CASE \/ RecvBulk \/ Answer \/ PollMain \/ PollTask \/ NextRound \/ WaitForEntry
           \/ WaitForRing \/ StillAwaiting \/ Server \/ UNCHANGED vars
  BY <1>2, <1>9 DEF RecvBulk, Answer, PollMain, PollTask, NextRound, WaitForEntry, WaitForRing,
                    StillAwaiting, Server, Receive, StartSending, Reply, vars, client
<1> QED  BY <1>4, <1>5, <1>6, <1>7, <1>8, <1>9 DEF Next, Client

THEOREM MainLast == Spec => []Joined
<1>1. Init => Joined
  BY DEF Init, Joined, Actors
<1> QED  BY <1>1, JoinedOK, Invariance, PTL DEF Spec

-----------------------------------------------------------------------------
(* What follows. *)

LEMMA RequestsAre == IInv => RequestsKnown
BY FewUnderWay DEF IInv, Core, Known, RequestsKnown

LEMMA AlwaysRoom ==
  ASSUME SizeA < SizeB, IInv
  PROVE  NeverOutOfCapacity
<1> SUFFICES ASSUME ReplyPanics PROVE FALSE
  BY DEF NeverOutOfCapacity
<1>1. Len(sq) + Cardinality(answers) + Len(rq) <= SizeA /\ Len(sq) \in Nat
  BY FewUnderWay, Typed, LenProperties DEF IInv, Core
<1>2. Cardinality(answers) \in Nat /\ Cardinality(answers) # 0
  BY FewUnderWay, FS_EmptySet DEF IInv, Core, ReplyPanics
<1>3. Len(rq) = SizeB - 1
  BY DEF ReplyPanics
<1> QED  BY <1>1, <1>2, <1>3, SizesAssumption

\* The state of the runtime stays in its types: batches, rounds and queues in their bounds,
\* and neither ring is ever fuller than its capacity (Runtime, TypeOK).
THEOREM TypeCorrect == Spec => []TypeOK
<1>1. IInv => TypeOK
  BY DEF IInv
<1> QED  BY <1>1, Invariance, PTL

\* Every request under way is under way once and has its entry, however tasks are aborted:
\* complete of the driver never meets an id it does not know.
THEOREM EveryRequestKnown == Spec => []RequestsKnown
  BY RequestsAre, Invariance, PTL

\* A task that is not done is queued, or waits where an answer will find it: the wakers of
\* wait_for_ok and of the driver forget no task, also when tasks are aborted.
THEOREM EveryTaskReached == Spec => []NobodyForgotten
<1>1. IInv => NobodyForgotten
  BY DEF IInv
<1> QED  BY <1>1, Invariance, PTL

\* A ring of answers with more places than the driver has entries always has room for the
\* next answer, because cancelled operations keep their entries: the "out of capacity" of
\* the servers does not happen.
THEOREM RoomForEveryAnswer ==
  ASSUME SizeA < SizeB
  PROVE  Spec => []NeverOutOfCapacity
  BY AlwaysRoom, Invariance, PTL

\* Without aborts an operation that has ended left no entry.
LEMMA EndedLeavesNothing ==
  ASSUME IInv, ~MayAbort, AllJoined
  PROVE  /\ \A o \in Entries : o = Exit
         /\ stage[Main] = "done" => Entries = {}
<1>1. ASSUME NEW o \in Ops, entry[o] # "none" PROVE o = Exit /\ stage[Main] # "done"
  <2>1. o[2] = round[o[1]] /\ stage[o[1]] \in {"ring", "op", "aborted"}
    BY <1>1 DEF IInv, Core, Own
  <2>2. o[1] \notin Tasks
    BY <2>1 DEF IInv, Roles, AllJoined, Ended
  <2>3. o = Exit
    BY <2>2, OpsOf DEF IInv
  <2> QED  BY <2>1, <2>3 DEF Exit
<1> QED  BY <1>1 DEF Entries

\* The benchmark's server tries again when the ring is full, except for the answer of the
\* exit operation; when main awaits its tasks that one is alone, so it has room as soon as
\* the ring has a place at all.
THEOREM RetriesSuffice ==
  ASSUME Retry, ~MayAbort, SizeB > 1
  PROVE  Spec => []NeverOutOfCapacity
<1>1. IInv /\ Joined => NeverOutOfCapacity
  <2> SUFFICES ASSUME IInv, Joined, ReplyPanics PROVE FALSE
    BY DEF NeverOutOfCapacity
  <2>1. server = "exiting" /\ answers # {} /\ Len(rq) = SizeB - 1
    BY DEF ReplyPanics
  <2>2. AllJoined
    BY <2>1 DEF IInv, ExitLast, Joined
  <2>3. InFlight \subseteq {Exit}
    <3>1. InFlight \subseteq Entries
      BY UnderWay DEF IInv, Core, Known, Entries
    <3> QED  BY <2>2, <3>1, EndedLeavesNothing
  <2>4. answers = {Exit} /\ ToSet(rq) = {}
    BY <2>1, <2>3 DEF InFlight, IInv, Core, Once
  <2>5. Len(rq) = 0
    <3>1. IsInjective(rq) /\ Cardinality(ToSet(rq)) = 0
      BY <2>4, FS_EmptySet DEF IInv, Core, Once
    <3> QED  BY <3>1, Typed, SetOfSeq DEF IInv
  <2> QED  BY <2>1, <2>5, SizesAssumption
<1> QED  BY <1>1, Invariance, MainLast, PTL

\* When main has ended without aborting a task, no task is suspended and the driver is
\* empty: into_sender and the drop of the driver succeed.
THEOREM EndsClean ==
  ASSUME ~MayAbort
  PROVE  Spec => []CleanEnd
<1>1. IInv /\ Joined => CleanEnd
  <2> SUFFICES ASSUME IInv, Joined, pc = "end" PROVE AllJoined /\ Entries = {}
    BY DEF CleanEnd, AllJoined
  <2>1. stage[Main] = "done" /\ AllJoined
    BY DEF IInv, Roles, Joined
  <2> QED  BY <2>1, EndedLeavesNothing
<1> QED  BY <1>1, Invariance, MainLast, PTL
=============================================================================
