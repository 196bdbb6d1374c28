------------------------------- MODULE Driver -------------------------------
(***************************************************************************)
(* The life of operations: `Driver` of evering/src/driver.rs and `Op` of   *)
(* evering/src/op.rs.                                                      *)
(*                                                                         *)
(* The driver keeps a slab of entries; an OpId is a bare index into it.    *)
(* An entry is inserted by submit, and leaves by the poll that yields the  *)
(* answer, by the drop of an answered Op, or by the answer to a cancelled  *)
(* one.  Everything runs on one thread, each call in one borrow of the     *)
(* RefCell; what interleaves is the calls of different tasks and of the    *)
(* completion loop.  The peer answers each request once, by its OpId, in   *)
(* any order and at any time.                                              *)
(*                                                                         *)
(* A finished Op still has its drop to come, which looks its OpId up       *)
(* again.  `.await` drops it in the same step (Hold = FALSE), a caller     *)
(* that pins it may keep it (Hold = TRUE).                                 *)
(***************************************************************************)
EXTENDS Naturals, FiniteSets

CONSTANTS Ops,         \* the operations ever submitted
          Wakers,
          None,
          Capacity,    \* of Driver::with_capacity
          MaxKeys,     \* bound on the slots the slab grows to
          Hold         \* whether a finished Op may be kept

Output == [payload : Ops, ext : Ops]      \* what complete_ext is given

ASSUME NoneAssumption == None \notin Ops \cup Wakers
ASSUME NoOutputAssumption == None \notin Output
ASSUME CapacityAssumption == Capacity \in Nat /\ MaxKeys \in Nat /\ Capacity <= MaxKeys
ASSUME HoldAssumption == Hold \in BOOLEAN

VARIABLES
  slab,        \* the entries: Slab<RawOp>
  cap,         \* Slab::capacity
  driver,      \* "alive", or how its owner got rid of it
  op, id,      \* each Op handle, and its OpId
  result,      \* what its poll was ready with: the payload and the ext
  request,     \* the request at the peer: "none", "sent", "answered" or "seen"
  verdict,     \* what complete returned for it
  resource,    \* where what the operation lent to the peer is
  lastWaker,   \* the waker of its last poll, if that was pending
  woken        \* the wakers called for it

vars == <<slab, cap, driver, op, id, result, request, verdict, resource, lastWaker,
          woken>>

Keys == 0 .. MaxKeys - 1
Entry == [state : {"Submitted", "Waiting", "Completed", "Cancelled"},
          waker : Wakers \cup {None}, payload : Ops \cup {None}, ext : Ops]
Vacant == [state |-> "Vacant"]

Occupied == {k \in Keys : slab[k] # Vacant}     \* Slab::iter; its size is len()

Init ==
  /\ slab = [k \in Keys |-> Vacant] /\ cap = Capacity /\ driver = "alive"
  /\ op = [o \in Ops |-> "new"] /\ id = [o \in Ops |-> 0]
  /\ result = [o \in Ops |-> None]
  /\ request = [o \in Ops |-> "none"] /\ verdict = [o \in Ops |-> "none"]
  /\ resource = [o \in Ops |-> "caller"]
  /\ lastWaker = [o \in Ops |-> None] /\ woken = [o \in Ops |-> {}]

\* Nothing else runs between a poll that is ready and the drop that `.await` does.
Idle == /\ driver = "alive"
        /\ Hold \/ \A o \in Ops : op[o] # "ready"

Set(k, e) == slab' = [slab EXCEPT ![k] = e]

\* The entry of o changes its state; it keeps its ext.
Become(o, s, w, p) ==
  Set(id[o], [state |-> s, waker |-> w, payload |-> p, ext |-> slab[id[o]].ext])

-----------------------------------------------------------------------------
(* Submission. *)

\* Slab::insert hands out some vacant key; the request goes to the peer with it.
Insert(o, k) ==
  /\ op[o] = "new" /\ k \in Keys /\ k < cap' /\ slab[k] = Vacant
  /\ Set(k, [state |-> "Submitted", waker |-> None, payload |-> None, ext |-> o])
  /\ op' = [op EXCEPT ![o] = "submitted"] /\ id' = [id EXCEPT ![o] = k]
  /\ request' = [request EXCEPT ![o] = "sent"]
  /\ UNCHANGED <<driver, result, verdict, resource, lastWaker, woken>>

\* try_submit fails, and returns its argument, when len() = capacity().
TrySubmit(o, k) ==
  /\ Idle /\ Cardinality(Occupied) # cap
  /\ cap' = cap /\ Insert(o, k)

\* submit grows the slab when there is no vacant key.
Submit(o, k) ==
  /\ Idle
  /\ IF Cardinality(Occupied) = cap THEN cap' \in cap + 1 .. MaxKeys ELSE cap' = cap
  /\ Insert(o, k)

\* Op::new takes the operation's data.
NewOp(o) ==
  /\ Idle /\ op[o] = "submitted" /\ op' = [op EXCEPT ![o] = "held"]
  /\ resource' = [resource EXCEPT ![o] = "op"]
  /\ UNCHANGED <<slab, cap, driver, id, result, request, verdict, lastWaker, woken>>

-----------------------------------------------------------------------------
(* Op::poll. *)

\* Mutant: the waker of an earlier poll is kept.
KeepWaker(e, w) == IF e.state = "Waiting" THEN e.waker ELSE w
NewWaker(e, w) == w

PollPending(o, w) ==
  LET e == slab[id[o]]
  IN  /\ Idle /\ op[o] = "held" /\ e.state \in {"Submitted", "Waiting"}
      /\ Become(o, "Waiting", NewWaker(e, w), None)
      /\ lastWaker' = [lastWaker EXCEPT ![o] = w]
      /\ UNCHANGED <<cap, driver, op, id, result, request, verdict, resource, woken>>

\* The entry is removed and the data completes with the payload.
PollReady(o) ==
  LET e == slab[id[o]]
  IN  /\ Idle /\ op[o] = "held" /\ e.state = "Completed"
      /\ Set(id[o], Vacant)
      /\ op' = [op EXCEPT ![o] = "ready"]
      /\ result' = [result EXCEPT ![o] = [payload |-> e.payload, ext |-> e.ext]]
      /\ resource' = [resource EXCEPT ![o] = "caller"]
      /\ lastWaker' = [lastWaker EXCEPT ![o] = None]
      /\ UNCHANGED <<cap, driver, id, request, verdict, woken>>

\* expect("invalid driver state"), unreachable!("invalid operation state")
PollPanics(o) == Idle /\ op[o] = "held" /\ slab[id[o]].state \in {"Vacant", "Cancelled"}

-----------------------------------------------------------------------------
(* Driver::complete, called for every answer of the peer. *)

PeerAnswers(o) ==
  /\ request[o] = "sent" /\ request' = [request EXCEPT ![o] = "answered"]
  /\ UNCHANGED <<slab, cap, driver, op, id, result, verdict, resource, lastWaker, woken>>

Seen(o, v) == /\ request' = [request EXCEPT ![o] = "seen"]
              /\ verdict' = [verdict EXCEPT ![o] = v]

Wake(e) == IF e.state = "Waiting" THEN [woken EXCEPT ![e.ext] = @ \cup {e.waker}] ELSE woken

\* Mutant: the payload is not stored.
CompleteLiveEmpty(o) ==
  LET e == slab[id[o]]
  IN  /\ Idle /\ request[o] = "answered" /\ e.state \in {"Submitted", "Waiting"}
      /\ Become(o, "Completed", None, None)
      /\ woken' = Wake(e)
      /\ Seen(o, "ok")
      /\ UNCHANGED <<cap, driver, op, id, result, resource, lastWaker>>

CompleteLive(o) ==
  LET e == slab[id[o]]
  IN  /\ Idle /\ request[o] = "answered" /\ e.state \in {"Submitted", "Waiting"}
      /\ Become(o, "Completed", None, o)
      /\ woken' = Wake(e)
      /\ Seen(o, "ok")
      /\ UNCHANGED <<cap, driver, op, id, result, resource, lastWaker>>

\* Mutant: a cancelled entry is completed like another.
CompleteCancelledKept(o) ==
  LET e == slab[id[o]]
  IN  /\ Idle /\ request[o] = "answered" /\ e.state = "Cancelled"
      /\ Become(o, "Completed", None, o)
      /\ resource' = [resource EXCEPT ![e.ext] = "freed"]
      /\ Seen(o, "err")
      /\ UNCHANGED <<cap, driver, op, id, result, lastWaker, woken>>

\* The entry goes, and the resources it held until now with it.
CompleteCancelled(o) ==
  LET e == slab[id[o]]
  IN  /\ Idle /\ request[o] = "answered" /\ e.state = "Cancelled"
      /\ Set(id[o], Vacant)
      /\ resource' = [resource EXCEPT ![e.ext] = "freed"]
      /\ Seen(o, "err")
      /\ UNCHANGED <<cap, driver, op, id, result, lastWaker, woken>>

CompletePanics(o) ==
  Idle /\ request[o] = "answered" /\ slab[id[o]].state \in {"Vacant", "Completed"}

-----------------------------------------------------------------------------
(* Op::drop. *)

Dropping(o) == /\ driver = "alive" /\ op[o] \in {"held", "ready"}
               /\ Idle \/ op[o] = "ready"

Drop(o) == /\ op' = [op EXCEPT ![o] = "dropped"]
           /\ lastWaker' = [lastWaker EXCEPT ![o] = None]
           /\ UNCHANGED <<cap, driver, id, result, request, verdict, woken>>

\* "The operation may have been removed inside `poll`."
DropRemoved(o) ==
  /\ Dropping(o) /\ slab[id[o]] = Vacant
  /\ Drop(o) /\ UNCHANGED <<slab, resource>>

\* Mutant: the resources are not handed over to the entry.
DropUnfinishedFreed(o) ==
  /\ Dropping(o) /\ slab[id[o]].state \in {"Submitted", "Waiting"} /\ op[o] = "held"
  /\ Become(o, "Cancelled", None, None)
  /\ resource' = [resource EXCEPT ![o] = "freed"]
  /\ Drop(o)

\* Mutant: the entry goes at once, though its answer is still to come.
DropUnfinishedRemoved(o) ==
  /\ Dropping(o) /\ slab[id[o]].state \in {"Submitted", "Waiting"} /\ op[o] = "held"
  /\ Set(id[o], Vacant)
  /\ resource' = [resource EXCEPT ![o] = "entry"]
  /\ Drop(o)

\* The callback cancels the operation; the entry keeps its resources.
DropUnfinished(o) ==
  /\ Dropping(o) /\ slab[id[o]].state \in {"Submitted", "Waiting"} /\ op[o] = "held"
  /\ Become(o, "Cancelled", None, None)
  /\ resource' = [resource EXCEPT ![o] = "entry"]
  /\ Drop(o)

\* The answer is there, but nobody has asked for it.
DropCompleted(o) ==
  /\ Dropping(o) /\ slab[id[o]].state = "Completed"
  /\ Set(id[o], Vacant)
  /\ resource' = [resource EXCEPT ![o] = IF op[o] = "held" THEN "freed" ELSE @]
  /\ Drop(o)

\* The callback finds no data to cancel, or the entry is already cancelled.
DropPanics(o) ==
  /\ Dropping(o)
  /\ \/ op[o] = "ready" /\ slab[id[o]].state \in {"Submitted", "Waiting"}
     \/ slab[id[o]].state = "Cancelled"

-----------------------------------------------------------------------------
(* The end of the driver, in the runtimes that own one (Runtime::drop). *)

HasNoOps == \A o \in Ops : op[o] \notin {"submitted", "held", "ready"}
NeverLeaks == FALSE          \* mutant: the driver is dropped in any case
IsBusy == Occupied # {}

\* Ops are not kept across it.  A driver that is not empty is leaked, "so that no
\* pending resources will expire"; the drop of one that is asserts that it is done.
Retire ==
  /\ Idle /\ HasNoOps
  /\ IF IsBusy
     THEN driver' = "leaked" /\ UNCHANGED resource
     ELSE /\ driver' = "dropped"
          /\ resource' = [o \in Ops |-> IF resource[o] = "entry" THEN "freed" ELSE resource[o]]
  /\ UNCHANGED <<slab, cap, op, id, result, request, verdict, lastWaker, woken>>

-----------------------------------------------------------------------------
Next ==
  \/ \E o \in Ops :
       \/ \E k \in Keys : TrySubmit(o, k) \/ Submit(o, k)
       \/ NewOp(o)
       \/ \E w \in Wakers : PollPending(o, w)
       \/ PollReady(o)
       \/ PeerAnswers(o) \/ CompleteLive(o) \/ CompleteCancelled(o)
       \/ DropRemoved(o) \/ DropUnfinished(o) \/ DropCompleted(o)
  \/ Retire

Spec == Init /\ [][Next]_vars

-----------------------------------------------------------------------------
(* Properties. *)

TypeOK ==
  /\ slab \in [Keys -> Entry \cup {Vacant}] /\ cap \in Capacity .. MaxKeys
  /\ driver \in {"alive", "dropped", "leaked"}
  /\ op \in [Ops -> {"new", "submitted", "held", "ready", "dropped"}]
  /\ id \in [Ops -> Keys \cup {0}]
  /\ result \in [Ops -> Output \cup {None}]
  /\ request \in [Ops -> {"none", "sent", "answered", "seen"}]
  /\ verdict \in [Ops -> {"none", "ok", "err"}]
  /\ resource \in [Ops -> {"caller", "op", "entry", "freed"}]
  /\ lastWaker \in [Ops -> Wakers \cup {None}] /\ woken \in [Ops -> SUBSET Wakers]

\* No sequence of calls makes the driver meet an id it does not know or an entry in a
\* state it does not expect: the expect and unreachable! of poll, complete and remove,
\* and the assertion of DriverInner::drop, never fire.
NeverPanics ==
  /\ \A o \in Ops : ~PollPanics(o) /\ ~CompletePanics(o) /\ ~DropPanics(o)
  /\ driver = "dropped" => \A k \in Occupied : slab[k].state = "Completed"

\* An operation has an entry exactly as long as it needs one: until its answer was
\* fetched by poll, or it was both dropped and answered.  So no slot leaks, no slot
\* is reused too early, and two requests at the peer never carry one OpId.
Needs(o) ==
  \/ op[o] \in {"submitted", "held"}
  \/ op[o] = "dropped" /\ result[o] = None /\ request[o] # "seen"
EntryExact ==
  /\ \A o \in Ops : Needs(o) => slab[id[o]] # Vacant /\ slab[id[o]].ext = o
  /\ \A k \in Occupied : id[slab[k].ext] = k /\ Needs(slab[k].ext)

\* While the peer may still access what an operation lent it, this is not given back
\* and not freed: neither by a drop of the Op nor by the end of the driver.
ResourcesHeld ==
  \A o \in Ops : request[o] = "sent" /\ op[o] \notin {"new", "submitted"} =>
    resource[o] \in {"op", "entry"}

\* complete returns an error exactly for the operations that were cancelled before,
\* which the owner can therefore never be given an answer for.
VerdictExact ==
  \A o \in Ops : /\ verdict[o] = "err" => op[o] = "dropped" /\ result[o] = None
                 /\ verdict[o] = "ok" => resource[o] # "entry"

\* Once the answer is in, the waker of the latest poll has been called, not one that
\* an earlier poll left behind.
LatestWoken ==
  \A o \in Ops : op[o] = "held" /\ verdict[o] = "ok" /\ lastWaker[o] # None =>
    lastWaker[o] \in woken[o]

\* Every operation keeps its promise (module Promise), as seen through its OpId.
Stage(o) ==
  CASE op[o] = "new" -> "idle"
    [] op[o] \in {"submitted", "held"} ->
         (CASE slab[id[o]].state \in {"Submitted", "Waiting"} -> "pending"
            [] slab[id[o]].state = "Completed" -> "answered"
            [] OTHER -> "lost")
    [] op[o] \in {"ready", "dropped"} /\ result[o] # None -> "delivered"
    [] op[o] = "dropped" /\ result[o] = None ->
         IF slab[id[o]].state = "Cancelled" /\ slab[id[o]].ext = o THEN "cancelled" ELSE "over"
    [] OTHER -> "lost"
Got(o) == IF result[o] = None THEN {} ELSE {result[o].payload, result[o].ext}

Pr == INSTANCE Promise WITH stage <- [o \in Ops |-> Stage(o)], got <- [o \in Ops |-> Got(o)]
KeepsPromise == Pr!Spec
=============================================================================
