------------------------------- MODULE Runtime -------------------------------
(***************************************************************************)
(* A client and a server over one uring: Runtime of evering-utils, with    *)
(* the executor, the driver and the rings it puts together, and the        *)
(* programs of evering-threaded, evering-ipc and ipc-benchmark.            *)
(*                                                                         *)
(* Client (one thread): the root future, RunOn, takes the answers that are *)
(* in the ring, wakes one waiting submission and completes one operation   *)
(* for each, then polls the main future; then the queued tasks are polled. *)
(* Each task submits operations one after the other; to submit it needs an *)
(* entry in the driver and then a place in the ring, and it waits for      *)
(* either in pending_submissions.  Main awaits the tasks, then submits the *)
(* exit operation.                                                         *)
(*                                                                         *)
(* Server (the other thread): takes requests, keeps their answers for a    *)
(* while, and sends them in any order; after the exit request it sends all *)
(* it has and ends.                                                        *)
(*                                                                         *)
(* The components appear by what they are shown to promise: a ring is a    *)
(* bounded FIFO (SpscQueue, Channel), an operation has an entry of its own *)
(* (Driver, EntryExact), the queue of the executor is polled in rounds     *)
(* (Executor).                                                             *)
(***************************************************************************)
EXTENDS Naturals, Sequences, SequencesExt, FiniteSetsExt

CONSTANTS Tasks,       \* of the client
          Main,        \* its main future
          Rounds,      \* the operations each task submits
          SizeA, SizeB,\* of the rings; the driver has SizeA entries
          Retry,       \* the server tries a failed send again, or it panics
          MayAbort,    \* whether main aborts tasks
          MaxNoops     \* bound on main's own wakers in pending_submissions

ASSUME NamesAssumption == Main \notin Tasks /\ IsFiniteSet(Tasks)
ASSUME SizesAssumption == SizeA \in Nat /\ SizeB \in Nat /\ SizeA > 0 /\ SizeB > 0
ASSUME BoundsAssumption ==
  Rounds \in Nat \ {0} /\ MaxNoops \in Nat /\ {Retry, MayAbort} \subseteq BOOLEAN

Actors == Tasks \cup {Main}
Exit == <<Main, 1>>
Ops == Tasks \X (1 .. Rounds) \cup {Exit}

VARIABLES
  pc, batch,           \* of block_on and RunOn::poll; the answers left of recv_bulk
  cur, left,           \* the actor being polled, and the polls left in the round
  queue,               \* Executor::queue
  stage, round,        \* of each actor, and which operation it is at
  entry,               \* Driver: of each operation
  pending,             \* pending_submissions
  sq, rq,              \* the rings
  server, answers      \* where the server is, and the answers it has not sent

client == <<pc, batch, cur, left, queue, stage, round, entry, pending>>
vars == <<client, sq, rq, server, answers>>

Op(a) == <<a, round[a]>>
Entries == {o \in Ops : entry[o] # "none"}       \* Driver::len is their number

Init ==
  /\ pc = "root" /\ batch = 0 /\ cur = Main /\ left = 0
  /\ queue = SetToSeq(Tasks)                     \* spawned by the first poll of main
  /\ stage = [a \in Actors |-> IF a = Main THEN "join" ELSE "slot"]
  /\ round = [a \in Actors |-> 1]
  /\ entry = [o \in Ops |-> "none"]
  /\ pending = <<>> /\ sq = <<>> /\ rq = <<>>
  /\ server = "receive" /\ answers = {}

\* The wakers of tasks append them to the queue; the one of main is noop.
Woken(a) == IF a \in Tasks THEN Append(queue, a) ELSE queue

-----------------------------------------------------------------------------
(* The root: RunOn::poll, and the loop of block_on around it. *)

RecvBulk ==
  /\ pc = "root" /\ pc' = "drain" /\ batch' = Len(rq)
  /\ UNCHANGED <<cur, left, queue, stage, round, entry, pending, sq, rq, server, answers>>

\* Mutant: no submission is woken.
WakesNobody == queue
\* One waiting submission is woken per answer, before its operation is completed.
WakesOne == IF pending = <<>> THEN queue ELSE Woken(Head(pending))

\* The task awaits the operation, so that completing it wakes the task.
Answer ==
  LET o == Head(rq)
  IN  /\ pc = "drain" /\ batch > 0 /\ batch' = batch - 1
      /\ rq' = Tail(rq)
      /\ pending' = IF pending = <<>> THEN <<>> ELSE Tail(pending)
      /\ queue' = IF entry[o] = "live" /\ o # Exit THEN Append(WakesOne, o[1]) ELSE WakesOne
      /\ entry' = [entry EXCEPT ![o] = IF @ = "live" THEN "completed" ELSE "none"]
      /\ UNCHANGED <<pc, cur, left, stage, round, sq, server, answers>>

PollMain ==
  /\ pc = "drain" /\ batch = 0 /\ pc' = "poll" /\ cur' = Main
  /\ UNCHANGED <<batch, left, queue, stage, round, entry, pending, sq, rq, server, answers>>

\* A poll is pending: on to the next one of the round, or to the root.
PollReturns ==
  /\ pc' = "round" /\ left' = IF cur = Main THEN Len(queue) ELSE left
  /\ UNCHANGED cur

\* References to tasks that have ended are polled to no effect.
PollTask ==
  /\ pc = "round" /\ left > 0 /\ left' = left - 1
  /\ queue' = Tail(queue)
  /\ LET t == Head(queue)
     IN  IF stage[t] \in {"slot", "ring", "op"} THEN pc' = "poll" /\ cur' = t
                                               ELSE UNCHANGED <<pc, cur>>
  /\ UNCHANGED <<batch, stage, round, entry, pending, sq, rq, server, answers>>

NextRound ==
  /\ pc = "round" /\ left = 0 /\ pc' = "root"
  /\ UNCHANGED <<batch, cur, left, queue, stage, round, entry, pending, sq, rq, server, answers>>

-----------------------------------------------------------------------------
(* A poll of a task, or of main: submit_ext, the Op, and what follows. *)

At(s) == pc = "poll" /\ stage[cur] = s
Goto(s) == stage' = [stage EXCEPT ![cur] = s]

\* wait_for_ok: the waker goes to the end of pending_submissions.
Wait == pending' = IF cur = Main /\ Len(SelectSeq(pending, LAMBDA a : a = Main)) >= MaxNoops
                   THEN pending ELSE Append(pending, cur)

NeverFull == FALSE       \* mutant: Driver::submit instead of try_submit
DriverFull == Cardinality(Entries) = SizeA

Submit ==
  /\ At("slot") /\ ~DriverFull /\ Goto("ring")
  /\ entry' = [entry EXCEPT ![Op(cur)] = "live"]
  /\ UNCHANGED <<pc, batch, cur, left, queue, round, pending, sq, rq, server, answers>>

WaitForEntry ==
  /\ At("slot") /\ DriverFull /\ Wait /\ PollReturns
  /\ UNCHANGED <<batch, queue, stage, round, entry, sq, rq, server, answers>>

FullAtSize == Len(sq) = SizeA     \* mutant: no place of the ring is left empty
RingFull == Len(sq) = SizeA - 1

\* The Op is made and polled at once, which is pending: no answer is taken meanwhile.
Send ==
  /\ At("ring") /\ ~RingFull /\ sq' = Append(sq, Op(cur))
  /\ Goto("op") /\ PollReturns
  /\ UNCHANGED <<batch, queue, round, entry, pending, rq, server, answers>>

WaitForRing ==
  /\ At("ring") /\ RingFull /\ Wait /\ PollReturns
  /\ UNCHANGED <<batch, queue, stage, round, entry, sq, rq, server, answers>>

StillAwaiting ==
  /\ At("op") /\ entry[Op(cur)] = "live" /\ PollReturns
  /\ UNCHANGED <<batch, queue, stage, round, entry, pending, sq, rq, server, answers>>

\* The Op is ready; its task goes on with the next operation, or is done.
Fetch ==
  /\ At("op") /\ entry[Op(cur)] = "completed"
  /\ entry' = [entry EXCEPT ![Op(cur)] = "none"]
  /\ IF cur \in Tasks /\ round[cur] < Rounds
     THEN /\ round' = [round EXCEPT ![cur] = @ + 1] /\ Goto("slot")
          /\ UNCHANGED <<pc, cur, left>>
     ELSE /\ Goto("done") /\ UNCHANGED round
          /\ IF cur = Main THEN pc' = "end" /\ UNCHANGED <<cur, left>> ELSE PollReturns
  /\ UNCHANGED <<batch, queue, pending, sq, rq, server, answers>>

Ended(t) == stage[t] \in {"done", "aborted"}
NoJoin == TRUE           \* mutant: main does not await the tasks
AllJoined == \A t \in Tasks : Ended(t)

Join ==
  /\ At("join")
  /\ IF AllJoined THEN Goto("slot") /\ UNCHANGED <<pc, left, cur>>
                  ELSE PollReturns /\ UNCHANGED stage
  /\ UNCHANGED <<batch, queue, round, entry, pending, sq, rq, server, answers>>

\* Mutant: dropping an Op that is not answered frees its entry.
DroppedFreed(o) == [entry EXCEPT ![o] = "none"]
\* Op::drop
Dropped(o) == [entry EXCEPT ![o] = IF @ = "live" THEN "cancelled" ELSE "none"]

\* Main aborts a task instead of awaiting it.  An Op is dropped; an entry the task got
\* without having made its Op yet stays, and nobody knows it any more.
Abort(t) ==
  /\ MayAbort /\ At("join") /\ ~Ended(t)
  /\ stage' = [stage EXCEPT ![t] = "aborted"]
  /\ entry' = IF stage[t] = "op" THEN Dropped(Op(t)) ELSE entry
  /\ UNCHANGED <<pc, batch, cur, left, queue, round, pending, sq, rq, server, answers>>

-----------------------------------------------------------------------------
(* The server. *)

Receive ==
  /\ server = "receive" /\ sq # <<>> /\ (Retry => answers = {})
  /\ sq' = Tail(sq) /\ answers' = answers \cup {Head(sq)}
  /\ server' = IF Head(sq) = Exit THEN "exiting" ELSE IF Retry THEN "send" ELSE server
  /\ UNCHANGED <<client, rq>>

\* It decides to send all it has.
StartSending ==
  /\ server = "receive" /\ answers # {} /\ server' = "send"
  /\ UNCHANGED <<client, sq, rq, answers>>

Reply(o) ==
  /\ server \in {"send", "exiting"} /\ o \in answers /\ Len(rq) < SizeB - 1
  /\ rq' = Append(rq, o) /\ answers' = answers \ {o}
  /\ server' = IF answers # {o} THEN server ELSE IF server = "send" THEN "receive" ELSE "end"
  /\ UNCHANGED <<client, sq>>

\* expect("out of capacity"), and the unwrap on the benchmark's exit.
ReplyPanics == server \in {"send", "exiting"} /\ (Retry => server = "exiting")
               /\ answers # {} /\ Len(rq) = SizeB - 1

-----------------------------------------------------------------------------
Client == \/ RecvBulk \/ Answer \/ PollMain \/ PollTask \/ NextRound
          \/ Submit \/ WaitForEntry \/ Send \/ WaitForRing \/ StillAwaiting \/ Fetch
          \/ Join \/ \E t \in Tasks : Abort(t)
Server == Receive \/ StartSending \/ \E o \in Ops : Reply(o)
Next == Client \/ Server

Spec == Init /\ [][Next]_vars

\* Both threads run; the server's coin says at some time that it should send.
FairSpec == Spec /\ WF_vars(Client) /\ WF_vars(Receive) /\ WF_vars(StartSending)
                 /\ WF_vars(\E o \in Ops : Reply(o))

-----------------------------------------------------------------------------
(* Properties. *)

InFlight == ToSet(sq) \cup answers \cup ToSet(rq)

TypeOK ==
  /\ pc \in {"root", "drain", "poll", "round", "end"} /\ batch \in 0 .. SizeB - 1
  /\ cur \in Actors /\ left \in 0 .. Len(queue) /\ queue \in Seq(Tasks)
  /\ stage \in [Actors -> {"join", "slot", "ring", "op", "done", "aborted"}]
  /\ round \in [Actors -> 1 .. Rounds]
  /\ entry \in [Ops -> {"none", "live", "completed", "cancelled"}]
  /\ pending \in Seq(Actors) /\ sq \in Seq(Ops) /\ rq \in Seq(Ops)
  /\ Len(sq) < SizeA /\ Len(rq) < SizeB
  /\ server \in {"receive", "send", "exiting", "end"} /\ answers \subseteq Ops

\* Every request under way is under way once and has its entry, whatever was aborted:
\* complete never fails on an id, and no answer goes to another operation.
RequestsKnown ==
  /\ \A o \in InFlight : entry[o] \in {"live", "cancelled"}
  /\ Len(sq) + Cardinality(answers) + Len(rq) = Cardinality(InFlight)

\* Somebody will poll every task that is not done: a suspended submission waits in
\* pending_submissions or is queued, and a task whose answer has come is queued.
NobodyForgotten ==
  \A t \in Tasks : \/ pc = "poll" /\ cur = t
                  \/ /\ stage[t] \in {"slot", "ring"} => t \in ToSet(pending) \cup ToSet(queue)
                     /\ stage[t] = "op" => entry[Op(t)] = "live" \/ t \in ToSet(queue)

\* Cancelled operations still count: the requests under way are never more than the
\* driver's entries, so the server can always send all its answers.
NeverOutOfCapacity == ~ReplyPanics

\* When main is done, nothing of the runtime is in use any more: no task is suspended in
\* a submission, which would hold it, and every operation is completed.  So into_sender
\* and the drop of the driver succeed.
CleanEnd == pc = "end" => /\ \A t \in Tasks : Ended(t)
                          /\ Entries = {}

\* The client ends: no task waits forever for an entry, for a place in the ring or for an
\* answer, and then the exit operation is answered.
ClientEnds == <>(pc = "end")

\* Nobody waits for a submission to be woken by an answer when no answer will come:
\* "circular waiting chain".
Stranded == /\ pc = "round" /\ queue = <<>> /\ InFlight = {}
            /\ \E t \in Tasks : stage[t] \in {"slot", "ring"}
NeverStranded == ~Stranded
=============================================================================
