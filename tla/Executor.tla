------------------------------ MODULE Executor ------------------------------
(***************************************************************************)
(* The single-threaded executor of local-executor: executor.rs and task.rs.*)
(*                                                                         *)
(* block_on polls its own future, the root, with a noop waker; if that is  *)
(* pending, it polls as many queued tasks as there were, and starts over.  *)
(* Waking a task appends a reference to it to the queue, each time.  What  *)
(* the tasks do inside a poll is arbitrary: spawn, abort, hand over or     *)
(* drop Task handles, signal an event source, and then finish or wait for  *)
(* something.  A poll is a sequence of such steps of the one thread.       *)
(*                                                                         *)
(* A future may own the handle of its own task.  To abort or to await a    *)
(* task that is being polled, its own or that of an outer block_on, borrows*)
(* its RefCell twice and panics, as the poll of such a task does: these    *)
(* steps do not exist, and the guards ~Borrowed(u) stand for them.         *)
(***************************************************************************)
EXTENDS Naturals, Sequences, SequencesExt

CONSTANTS Tasks, Root, None,
          MaxQueue,    \* bound on the queue: nothing is woken beyond it
          Fuel,        \* bound on what one poll does before it returns
          MaxDepth     \* bound on block_on calls inside each other

Actors == Tasks \cup {Root}

ASSUME NamesAssumption == Root \notin Tasks /\ None \notin Actors
ASSUME BoundsAssumption == {MaxQueue, Fuel, MaxDepth} \subseteq Nat /\ MaxDepth > 0

VARIABLES
  queue,       \* Executor::queue
  stack,       \* the block_on frames: polls left in the round, and what is being polled
  task,        \* TaskImpl: "ready" holds an output, "empty" none (any more)
  waker,       \* the join waker of a pending task
  holder,      \* who owns the Task handle; None: it was dropped
  awaits,      \* what each actor waits for
  armed,       \* the wakers at the event source
  fired,       \* the actors whose event has come
  returned

vars == <<queue, stack, task, waker, holder, awaits, armed, fired, returned>>

Nothing == [join |-> None, event |-> FALSE, yield |-> FALSE]
Frame == [left : Nat, who : Actors \cup {None}, fuel : 0 .. Fuel]

Init ==
  /\ queue = <<>> /\ stack = <<[left |-> 0, who |-> Root, fuel |-> Fuel]>>
  /\ task = [t \in Tasks |-> "none"] /\ waker = [t \in Tasks |-> None]
  /\ holder = [t \in Tasks |-> None] /\ awaits = [a \in Actors |-> Nothing]
  /\ armed = {} /\ fired = {} /\ returned = FALSE

Top == stack[Len(stack)]
SetTop(f) == stack' = [stack EXCEPT ![Len(stack)] = f]
Nested == Len(stack) > 1
Live == ~returned

\* exclusive_access: the RefCell of a task is borrowed while the task is polled.
Borrowed(t) == \E i \in DOMAIN stack : stack[i].who = t

\* Mutant: noop is queued as well.
WakeAlways(a) == a # None => Len(queue) < MaxQueue /\ queue' = Append(queue, a)

\* Mutant: a woken task goes to the front.
WakeFront(a) ==
  IF a \in Tasks THEN Len(queue) < MaxQueue /\ queue' = <<a>> \o queue ELSE queue' = queue

\* Executor::wake, by the waker of a; the root's is noop, and None is no waker.
Wake(a) ==
  IF a \in Tasks THEN Len(queue) < MaxQueue /\ queue' = Append(queue, a) ELSE queue' = queue

-----------------------------------------------------------------------------
(* The loop of block_on. *)

Resumable(a) ==
  LET w == awaits[a]
  IN  \/ w = Nothing \/ w.yield
      \/ w.event /\ a \in fired
      \/ w.join # None /\ task[w.join] = "ready"

Turn(who, left) == SetTop([left |-> left, who |-> who, fuel |-> Fuel])

\* Mutant: the waker of an earlier read is kept.
ReadOnce(a, u) == IF u = None THEN waker ELSE [waker EXCEPT ![u] = IF @ = None THEN a ELSE @]

\* TaskImpl::read of a pending task leaves the waker of a with it.
Read(a, u) == IF u = None THEN waker ELSE [waker EXCEPT ![u] = a]

\* A poll that is pending leaves the waker of a wherever a waits.
Pending(a, w) == /\ w.join # None => ~Borrowed(w.join)
                 /\ waker' = Read(a, w.join)
                 /\ armed' = IF w.event THEN armed \cup {a} ELSE armed

\* TaskImpl::read swaps the output out; the handle, awaited by value, is dropped.
Take(u) == /\ task' = [task EXCEPT ![u] = "empty"]
           /\ holder' = [holder EXCEPT ![u] = None]

Resume(a) ==
  /\ awaits' = [awaits EXCEPT ![a] = Nothing]
  /\ \/ awaits[a].join # None /\ task[awaits[a].join] = "ready" /\ Take(awaits[a].join)
     \/ /\ awaits[a] = Nothing \/ awaits[a].yield \/ (awaits[a].event /\ a \in fired)
        /\ UNCHANGED <<task, holder>>

\* Mutant: one more than there are.
CountMore == Len(queue) + 1
Count == Len(queue)

\* Mutant: the round goes on until the queue is empty.
RemainingLive == Len(queue')
Remaining == Top.left - 1

\* The root is pending.  "Newly waked tasks are deferred to the next loop."
StartRound ==
  /\ Live /\ Top.who = Root /\ (~Nested => awaits[Root] # Nothing)
  /\ SetTop([left |-> Count, who |-> None, fuel |-> 0])
  /\ UNCHANGED <<queue, task, waker, holder, awaits, armed, fired, returned>>

PollRoot ==
  /\ Live /\ Top.who = None /\ Top.left = 0
  /\ Turn(Root, 0)
  /\ IF Nested \/ ~Resumable(Root)
     THEN /\ IF Nested THEN UNCHANGED <<waker, armed>> ELSE Pending(Root, awaits[Root])
          /\ UNCHANGED <<task, holder, awaits>>
     ELSE Resume(Root) /\ UNCHANGED <<waker, armed>>
  /\ UNCHANGED <<queue, fired, returned>>

\* pop_front().unwrap(), then poll_wakeable.
Popping == Live /\ Top.who = None /\ Top.left > 0
PopPending ==
  /\ Popping /\ queue # <<>> /\ queue' = Tail(queue)
  /\ LET t == Head(queue)
     IN  /\ ~Borrowed(t)
         /\ IF task[t] # "pending" \/ ~Resumable(t)
            THEN /\ SetTop([Top EXCEPT !.left = Remaining])
                 /\ IF task[t] = "pending" THEN Pending(t, awaits[t]) ELSE UNCHANGED <<waker, armed>>
                 /\ UNCHANGED <<task, holder, awaits>>
            ELSE /\ Turn(t, Remaining)
                 /\ Resume(t) /\ UNCHANGED <<waker, armed>>
  /\ UNCHANGED <<fired, returned>>

-----------------------------------------------------------------------------
(* What a future does while it is polled. *)

Runs(a) == Live /\ Top.who = a /\ awaits[a] = Nothing /\ (a = Root => ~Nested)
Acts(a) == Runs(a) /\ Top.fuel > 0 /\ SetTop([Top EXCEPT !.fuel = @ - 1])

\* Executor::spawn
Spawn(a, u) ==
  /\ Acts(a) /\ task[u] = "none" /\ Wake(u)
  /\ task' = [task EXCEPT ![u] = "pending"] /\ holder' = [holder EXCEPT ![u] = a]
  /\ UNCHANGED <<waker, awaits, armed, fired, returned>>

\* The future of u goes, and with it the handles in it.
Without(u) == [t \in Tasks |-> IF holder[t] = u THEN None ELSE holder[t]]

\* Mutant: the handle is borrowed, not consumed, so others may abort the task too.
AbortAny(a, u) ==
  /\ Acts(a) /\ task[u] # "none" /\ ~Borrowed(u)
  /\ task' = [task EXCEPT ![u] = "empty"] /\ waker' = [waker EXCEPT ![u] = None]
  /\ holder' = Without(u) /\ awaits' = [awaits EXCEPT ![u] = Nothing]
  /\ UNCHANGED <<queue, armed, fired, returned>>

\* Task::abort consumes the handle; queued references to the task stay.
Abort(a, u) ==
  /\ Acts(a) /\ holder[u] = a /\ ~Borrowed(u)
  /\ task' = [task EXCEPT ![u] = "empty"] /\ waker' = [waker EXCEPT ![u] = None]
  /\ holder' = [Without(u) EXCEPT ![u] = None] /\ awaits' = [awaits EXCEPT ![u] = Nothing]
  /\ UNCHANGED <<queue, armed, fired, returned>>

\* A handle is dropped, which detaches the task, or moves to another future: also to that
\* of its own task, through a cell that both can reach.
PassOn(a, u, b) ==
  /\ Acts(a) /\ holder[u] = a /\ b # a
  /\ b \in Tasks => task[b] = "pending"
  /\ holder' = [holder EXCEPT ![u] = b]
  /\ UNCHANGED <<queue, task, waker, awaits, armed, fired, returned>>

\* The event source calls one of the wakers it was given.
Signal(a, b) ==
  /\ Acts(a) /\ b \in armed /\ Wake(b)
  /\ armed' = armed \ {b} /\ fired' = fired \cup {b}
  /\ UNCHANGED <<task, waker, holder, awaits, returned>>

\* Awaiting a task that is ready already.
Join(a, u) ==
  /\ Acts(a) /\ holder[u] = a /\ task[u] = "ready" /\ Take(u)
  /\ UNCHANGED <<queue, waker, awaits, armed, fired, returned>>

\* The root's poll ends in StartRound, that of a task here.
Return(a) == IF a = Root THEN stack' = stack ELSE SetTop([Top EXCEPT !.who = None, !.fuel = 0])

Await(a, u, e) ==
  /\ Runs(a) /\ (u # None \/ e)
  /\ u # None => holder[u] = a /\ task[u] = "pending"
  /\ awaits' = [awaits EXCEPT ![a] = [join |-> u, event |-> e, yield |-> FALSE]]
  /\ Pending(a, awaits'[a])
  /\ fired' = fired \ {a}
  /\ Return(a) /\ UNCHANGED <<queue, task, holder, returned>>

\* yield_now wakes its own task and is ready at the next poll, whatever caused it.
YieldNow(a) ==
  /\ Runs(a) /\ Wake(a)
  /\ awaits' = [awaits EXCEPT ![a] = [Nothing EXCEPT !.yield = TRUE]]
  /\ Return(a) /\ UNCHANGED <<task, waker, holder, armed, fired, returned>>

\* Mutant: whoever joins the task is not woken.
FinishSilently(t) ==
  /\ Runs(t)
  /\ task' = [task EXCEPT ![t] = "ready"] /\ waker' = [waker EXCEPT ![t] = None]
  /\ holder' = Without(t)
  /\ Return(t) /\ UNCHANGED <<queue, awaits, armed, fired, returned>>

\* TaskImpl::poll finds its future ready.
Finish(t) ==
  /\ Runs(t) /\ Wake(waker[t])
  /\ task' = [task EXCEPT ![t] = "ready"] /\ waker' = [waker EXCEPT ![t] = None]
  /\ holder' = Without(t)
  /\ Return(t) /\ UNCHANGED <<awaits, armed, fired, returned>>

\* block_on returns the root's output; what is queued stays queued.
BlockOnReturns ==
  /\ Runs(Root) /\ returned' = TRUE
  /\ UNCHANGED <<queue, stack, task, waker, holder, awaits, armed, fired>>

-----------------------------------------------------------------------------
(* block_on called while a task is polled; nothing prevents it.  The inner  *)
(* future is pending or ready as it likes.                                  *)

BlockOnNested(a) ==
  /\ Runs(a) /\ Len(stack) < MaxDepth
  /\ stack' = Append(stack, [left |-> 0, who |-> Root, fuel |-> 0])
  /\ UNCHANGED <<queue, task, waker, holder, awaits, armed, fired, returned>>

NestedReturns ==
  /\ Live /\ Nested /\ Top.who = Root /\ stack' = Front(stack)
  /\ UNCHANGED <<queue, task, waker, holder, awaits, armed, fired, returned>>

-----------------------------------------------------------------------------
Next ==
  \/ StartRound \/ PollRoot \/ PopPending \/ BlockOnReturns \/ NestedReturns
  \/ \E a \in Actors :
       \/ \E u \in Tasks : Spawn(a, u) \/ Abort(a, u) \/ Join(a, u)
       \/ \E u \in Tasks, b \in Actors \cup {None} : PassOn(a, u, b)
       \/ \E b \in Actors : Signal(a, b)
       \/ \E u \in Tasks \cup {None}, e \in BOOLEAN : Await(a, u, e)
       \/ YieldNow(a) \/ BlockOnNested(a)
  \/ \E t \in Tasks : Finish(t)

Spec == Init /\ [][Next]_vars

\* The thread runs, and every poll returns.
FairSpec == Spec /\ WF_vars(Next)

-----------------------------------------------------------------------------
(* Properties. *)

TypeOK ==
  /\ queue \in Seq(Tasks) /\ stack \in Seq(Frame)
  /\ task \in [Tasks -> {"none", "pending", "ready", "empty"}]
  /\ waker \in [Tasks -> Actors \cup {None}] /\ holder \in [Tasks -> Actors \cup {None}]
  /\ awaits \in [Actors -> [join : Tasks \cup {None}, event : BOOLEAN, yield : BOOLEAN]]
  /\ armed \subseteq Actors /\ fired \subseteq Actors
  /\ returned \in BOOLEAN

\* The round never outlives the queue, though the tasks it polls wake and abort others,
\* and a task may be queued twice or be done: the unwrap in the loop of block_on succeeds.
PopSucceeds == Popping => queue # <<>>

\* No wakeup is lost: a task that can go on is in the queue, unless it is being polled.
\* This goes for the first poll, for yields, events and joins, and whoever awaits a
\* handle now, wherever the handle was before.
NoLostWakeup ==
  \A t \in Tasks : task[t] = "pending" /\ ~Borrowed(t) /\ Resumable(t) => t \in ToSet(queue)

\* Whoever awaits a task still owns its handle, and the task has its output or will have
\* one: a join never waits for a task that was aborted or read by somebody else.
JoinsAlive ==
  \A a \in Actors : awaits[a].join # None =>
    holder[awaits[a].join] = a /\ task[awaits[a].join] \in {"pending", "ready"}

\* The root is polled again and again, however busily the tasks wake each other.
RootPolled == []<>(returned \/ Top.who = Root)

\* A queued task is polled at some time, unless block_on returns first.
Polls(t) == Popping /\ queue # <<>> /\ Head(queue) = t
QueuedPolled == \A t \in Tasks : t \in ToSet(queue) ~> (returned \/ Polls(t))
=============================================================================
