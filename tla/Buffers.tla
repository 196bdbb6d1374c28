------------------------------- MODULE Buffers -------------------------------
(***************************************************************************)
(* The buffers that the operations of module Runtime carry: ShmBox and     *)
(* ShmToken of evering-ipc, the allocator behind them, and what becomes of *)
(* them when a task is aborted or the runtime is dropped.                  *)
(*                                                                         *)
(* A task allocates the buffers of an operation at its first poll, or goes *)
(* on with those of the one before; its request names them by tokens,      *)
(* which are copies of an offset and keep nothing alive.  They are owned   *)
(* by the task's future, then by its Op, and by the entry of the driver if *)
(* the Op is dropped before the answer (Cancellation::recycle).  The       *)
(* server uses them between taking the request and having its answer.     *)
(*                                                                         *)
(* Each action is one of Runtime together with what it does to buffers.    *)
(* The Tlsf allocator may give any free block.                             *)
(***************************************************************************)
EXTENDS Runtime

CONSTANTS Blocks,      \* of the shared memory
          PerOp,       \* buffers of an operation; 0: Ping of evering-threaded
          MayLeave     \* whether main may return without awaiting its tasks

\* The memory is large enough for all tasks: the allocator does not panic.
ASSUME BlocksAssumption == /\ IsFiniteSet(Blocks) /\ PerOp \in Nat
                           /\ PerOp * Cardinality(Tasks) <= Cardinality(Blocks)
ASSUME LeaveAssumption == MayLeave \in BOOLEAN /\ (MayLeave => PerOp > 0)

VARIABLES
  used,                \* blocks that are allocated
  held,                \* of each task: the boxes in its future, or in its Op
  kept,                \* of each operation: what its entry keeps, once cancelled
  token,               \* of each request under way: the buffers it names
  contents,            \* of each block: the operation answered in it (Exit: none yet)
  serving,             \* the request whose buffers the server is using
  fate                 \* of the Runtime, after block_on

boxes == <<used, held, kept>>
buffers == <<boxes, token, contents, serving, fate>>
bvars == <<vars, buffers>>

BInit ==
  /\ Init /\ used = {} /\ held = [t \in Tasks |-> {}]
  /\ kept = [o \in Ops |-> {}] /\ token = [o \in Ops |-> {}]
  /\ contents = [b \in Blocks |-> Exit] /\ serving = {} /\ fate = "running"

-----------------------------------------------------------------------------
(* The client. *)

\* Allocator::alloc_slice_uninit and the like
Available == kSubset(PerOp, Blocks \ used)

\* ShmBox::new_slice_uninit and the like, at the first poll of a task
Alloc ==
  /\ IF cur \in Tasks /\ held[cur] = {}
     THEN \E s \in Available :
            used' = used \cup s /\ held' = [held EXCEPT ![cur] = s]
     ELSE UNCHANGED <<used, held>>
  /\ UNCHANGED contents

\* Drop for ShmBox: what is in a free block has no meaning.
Free(s) == used' = used \ s /\ contents' = [b \in Blocks |-> IF b \in s THEN Exit ELSE contents[b]]

AllocSubmit == Submit /\ Alloc /\ UNCHANGED <<kept, token, serving, fate>>
AllocWait == WaitForEntry /\ Alloc /\ UNCHANGED <<kept, token, serving, fate>>

\* ShmBox::as_shm
SendToken ==
  /\ Send
  /\ token' = IF cur \in Tasks THEN [token EXCEPT ![Op(cur)] = held[cur]] ELSE token
  /\ UNCHANGED <<boxes, contents, serving, fate>>

\* Mutant: the resource of a cancelled operation is forgotten.
Forgotten(o) == {}
\* Completing a cancelled entry drops its Cancellation.
Expired(o) == kept[o]

Complete ==
  LET o == Head(rq)
  IN  /\ Answer
      /\ Free(Expired(o)) /\ kept' = [kept EXCEPT ![o] = {}]
      /\ token' = [token EXCEPT ![o] = {}]
      /\ UNCHANGED <<held, serving, fate>>

\* The boxes come back with the output: for the next operation, or to be dropped.
TakeBack ==
  /\ Fetch
  /\ IF cur \in Tasks
     THEN \/ round[cur] < Rounds /\ UNCHANGED <<used, held, contents>>
          \/ Free(held[cur]) /\ held' = [held EXCEPT ![cur] = {}]
     ELSE UNCHANGED <<used, held, contents>>
  /\ UNCHANGED <<kept, token, serving, fate>>

\* Mutant: Cancellation::noop, the boxes are dropped with the Op.
Noop(t) == {}
\* Ping::cancel: the entry keeps what an unanswered Op had.  Everything else that the
\* future had is dropped with it.
Recycle(t) == IF stage[t] = "op" /\ entry[Op(t)] = "live" THEN held[t] ELSE {}

AbortTask(t) ==
  /\ Abort(t)
  /\ kept' = IF Recycle(t) = {} THEN kept ELSE [kept EXCEPT ![Op(t)] = Recycle(t)]
  /\ Free(held[t] \ Recycle(t)) /\ held' = [held EXCEPT ![t] = {}]
  /\ UNCHANGED <<token, serving, fate>>

\* Main returns while tasks are under way; they are detached with its handles.
Leave ==
  /\ MayLeave /\ At("join") /\ ~AllJoined /\ Goto("done") /\ pc' = "end"
  /\ UNCHANGED <<batch, cur, left, queue, round, entry, pending, sq, rq, server, answers, buffers>>

Elsewhere ==
  /\ RecvBulk \/ PollMain \/ PollTask \/ NextRound \/ WaitForRing \/ StillAwaiting \/ Join
  /\ UNCHANGED buffers

-----------------------------------------------------------------------------
(* The end of the client's Runtime. *)

\* submit_ext holds a strong reference to the runtime while it waits; a task that was
\* never polled has no boxes yet and holds nothing.
Suspended(t) == stage[t] \in {"slot", "ring"} /\ held[t] # {}

ReleaseAll ==
  /\ Free((UNION {held[t] : t \in Tasks}) \cup (UNION {kept[o] : o \in Ops}))
  /\ held' = [t \in Tasks |-> {}] /\ kept' = [o \in Ops |-> {}]

\* Drop: with operations under way the runtime is leaked; one that its own tasks refer to
\* lives on; otherwise its tasks are dropped, and their boxes.
RuntimeDrop ==
  /\ pc = "end" /\ fate = "running"
  /\ IF Entries # {} \/ \E t \in Tasks : Suspended(t)
     THEN fate' = "leaked" /\ UNCHANGED <<boxes, contents>>
     ELSE fate' = "dropped" /\ ReleaseAll
  /\ UNCHANGED <<vars, token, serving>>

\* into_inner fails on another reference, and the drop of the driver on an operation.
IntoUringPanics == Entries # {} \/ \E t \in Tasks : Suspended(t)

IntoUring ==
  /\ pc = "end" /\ fate = "running" /\ ~IntoUringPanics
  /\ fate' = "taken" /\ ReleaseAll
  /\ UNCHANGED <<vars, token, serving>>

-----------------------------------------------------------------------------
(* The server. *)

\* Mutant: the answer may go out before the response is written.
AnyTime == TRUE
ServedFirst == serving = {}

ReceiveToken ==
  /\ ServedFirst /\ Receive
  /\ serving' = IF Head(sq) = Exit \/ PerOp = 0 THEN {} ELSE {Head(sq)}
  /\ UNCHANGED <<boxes, token, contents, fate>>

\* It reads the request and writes the response, through the tokens.
Serve(o) ==
  /\ o \in serving /\ serving' = {}
  /\ contents' = [b \in Blocks |-> IF b \in token[o] THEN o ELSE contents[b]]
  /\ UNCHANGED <<vars, boxes, token, fate>>

SendAll == ServedFirst /\ StartSending /\ UNCHANGED buffers
SendAnswer(o) == ServedFirst /\ Reply(o) /\ UNCHANGED buffers

-----------------------------------------------------------------------------
BClient == \/ AllocSubmit \/ AllocWait \/ SendToken \/ Complete \/ TakeBack \/ Leave
           \/ Elsewhere \/ \E t \in Tasks : AbortTask(t)
BServer == ReceiveToken \/ SendAll \/ \E o \in Ops : Serve(o) \/ SendAnswer(o)
BNext == BClient \/ RuntimeDrop \/ IntoUring \/ BServer

BSpec == BInit /\ [][BNext]_bvars

\* As in Runtime; nobody has to drop the runtime.
BFairSpec == BSpec /\ WF_bvars(BClient) /\ WF_bvars(ReceiveToken) /\ WF_bvars(SendAll)
                   /\ WF_bvars(\E o \in Ops : Serve(o))
                   /\ WF_bvars(\E o \in Ops : SendAnswer(o))

-----------------------------------------------------------------------------
(* Properties. *)

BTypeOK ==
  /\ TypeOK
  /\ used \subseteq Blocks /\ held \in [Tasks -> SUBSET Blocks]
  /\ kept \in [Ops -> SUBSET Blocks] /\ token \in [Ops -> SUBSET Blocks]
  /\ contents \in [Blocks -> Ops] /\ serving \subseteq answers /\ Cardinality(serving) <= 1
  /\ fate \in {"running", "leaked", "dropped", "taken"}

\* The runtime keeps the ownership model: buffers named by a request under way are
\* allocated and nobody else's until the answer is taken, through aborts, the reuse of
\* blocks and the drop of the runtime ("so that no pending resources will expire").
Loans == [o \in Ops |-> IF o \in InFlight THEN token[o] ELSE {}]
LendingModel == INSTANCE Lending WITH Requests <- Ops, allocated <- used, loans <- Loans
RefinesLending == LendingModel!Spec

\* A task that is answered finds in its buffers the response to its own operation, not one
\* that was cancelled or what the block held before.
OwnResponse ==
  \A t \in Tasks : stage[t] = "op" /\ entry[Op(t)] = "completed" =>
    \A b \in held[t] : contents[b] = Op(t)

\* Buffers that no task has are those of cancelled operations; as long as the client runs
\* they do not stay allocated.
Strays == used \ UNION {held[t] : t \in Tasks}
Recycled == []<>(Strays = {} \/ pc = "end")
=============================================================================
