---------------------------- MODULE DriverProofs ----------------------------
(***************************************************************************)
(* The driver keeps its promises for any number of operations, wakers and  *)
(* slots, as long as a finished Op is dropped in the step that finds it    *)
(* finished (Hold = FALSE), as `.await` does.                              *)
(*                                                                         *)
(* That an entry is exactly where its operation expects it (EntryExact) is *)
(* inductive only together with what the state of the entry says of the    *)
(* operation (EntryAgrees), what the operation's own variables say of each *)
(* other (OpAgrees), and with the slot of a finished Op being still vacant *)
(* when the drop looks it up again (ReadyVacant); the last one is what     *)
(* fails when a finished Op is kept.                                       *)
(***************************************************************************)
EXTENDS Driver, TLAPS

OpAgrees(o) ==
  /\ op[o] = "new" <=> request[o] = "none"
  /\ op[o] # "new" => id[o] \in Keys
  /\ verdict[o] = "none" <=> request[o] # "seen"
  /\ op[o] \in {"new", "submitted", "held"} => result[o] = None
  /\ op[o] = "ready" => result[o] # None
  /\ result[o] # None => result[o] = [payload |-> o, ext |-> o] /\ verdict[o] = "ok"
  /\ op[o] = "held" => resource[o] = "op"
  /\ resource[o] = "entry" <=> op[o] = "dropped" /\ result[o] = None /\ request[o] # "seen"
  /\ verdict[o] = "err" => op[o] = "dropped" /\ result[o] = None
  /\ op[o] \in {"new", "submitted"} => lastWaker[o] = None

EntryAgrees(k) ==
  LET e == slab[k]
      o == slab[k].ext
  IN  slab[k] # Vacant =>
        /\ op[o] \in {"submitted", "held"} =>
             IF request[o] = "seen" THEN e.state = "Completed" ELSE e.state \in {"Submitted", "Waiting"}
        /\ op[o] = "dropped" => e.state = "Cancelled"
        /\ e.state = "Completed" =>
             /\ e.payload = o /\ verdict[o] = "ok"
             /\ lastWaker[o] # None => lastWaker[o] \in woken[o]
        /\ e.state = "Submitted" => lastWaker[o] = None
        /\ e.state = "Waiting" => e.waker \in Wakers /\ lastWaker[o] = e.waker

ReadyVacant == \A o \in Ops : op[o] = "ready" => slab[id[o]] = Vacant

DroppedEmpty == driver = "dropped" => Occupied = {}

IInv == /\ TypeOK /\ EntryExact /\ ReadyVacant /\ DroppedEmpty
        /\ \A o \in Ops : OpAgrees(o)
        /\ \A k \in Keys : EntryAgrees(k)

USE DEF Keys, Vacant, Entry

-----------------------------------------------------------------------------
LEMMA Initially == Init => IInv
<1> SUFFICES ASSUME Init PROVE IInv
  OBVIOUS
<1>1. TypeOK
  <2>1. slab \in [Keys -> Entry \cup {Vacant}]
    BY DEF Init
  <2>2. result \in [Ops -> Output \cup {None}]
    BY DEF Init
  <2>3. cap \in Capacity .. MaxKeys
    BY CapacityAssumption DEF Init
  <2>4. lastWaker \in [Ops -> Wakers \cup {None}] /\ woken \in [Ops -> SUBSET Wakers]
    BY DEF Init
  <2>5. /\ op \in [Ops -> {"new", "submitted", "held", "ready", "dropped"}]
        /\ id \in [Ops -> Keys \cup {0}]
        /\ request \in [Ops -> {"none", "sent", "answered", "seen"}]
        /\ verdict \in [Ops -> {"none", "ok", "err"}]
        /\ resource \in [Ops -> {"caller", "op", "entry", "freed"}]
    BY DEF Init
  <2> QED  BY <2>1, <2>2, <2>3, <2>4, <2>5 DEF Init, TypeOK
<1>2. \A k \in Keys : slab[k] = Vacant
  BY DEF Init
<1>3. Occupied = {} /\ \A o \in Ops : op[o] = "new"
  BY <1>2 DEF Init, Occupied
<1>4. EntryExact /\ ReadyVacant /\ DroppedEmpty
  BY <1>3 DEF Init, EntryExact, Needs, ReadyVacant, DroppedEmpty
<1>5. (\A o \in Ops : OpAgrees(o)) /\ (\A k \in Keys : EntryAgrees(k))
  BY <1>2 DEF Init, OpAgrees, EntryAgrees
<1> QED  BY <1>1, <1>4, <1>5 DEF IInv

\* The entry of an Op that is not dropped.
LEMMA Live ==
  ASSUME IInv, NEW o \in Ops, op[o] \in {"submitted", "held"}
  PROVE  /\ id[o] \in Keys /\ slab[id[o]] \in Entry /\ slab[id[o]].ext = o /\ result[o] = None
         /\ IF request[o] = "seen"
            THEN slab[id[o]].state = "Completed" /\ slab[id[o]].payload = o /\ verdict[o] = "ok"
            ELSE slab[id[o]].state \in {"Submitted", "Waiting"} /\ verdict[o] = "none"
<1>1. Needs(o)
  BY DEF Needs
<1>2. slab[id[o]] # Vacant /\ slab[id[o]].ext = o
  BY <1>1 DEF IInv, EntryExact
<1>3. id[o] \in Keys /\ result[o] = None /\ (verdict[o] = "none" <=> request[o] # "seen")
  BY DEF IInv, OpAgrees
<1>4. slab[id[o]] \in Entry
  BY <1>2, <1>3 DEF IInv, TypeOK
<1>5. EntryAgrees(id[o])
  BY <1>3 DEF IInv
<1> QED  BY <1>2, <1>3, <1>4, <1>5 DEF EntryAgrees

\* What an answer finds: the entry of the operation that asked.
LEMMA Awaited ==
  ASSUME IInv, NEW o \in Ops, request[o] \in {"sent", "answered"}
  PROVE  /\ id[o] \in Keys /\ slab[id[o]] # Vacant /\ slab[id[o]].ext = o
         /\ op[o] \in {"submitted", "held", "dropped"} /\ result[o] = None
<1>1. op[o] \in {"submitted", "held", "dropped"} /\ result[o] = None
  BY DEF IInv, TypeOK, OpAgrees
<1>2. Needs(o)
  BY <1>1 DEF Needs
<1>3. slab[id[o]] # Vacant /\ slab[id[o]].ext = o
  BY <1>2 DEF IInv, EntryExact
<1>4. id[o] \in Keys
  BY <1>1 DEF IInv, OpAgrees
<1> QED  BY <1>1, <1>3, <1>4

\* An entry that changes its state and nothing else.
LEMMA Becoming ==
  ASSUME IInv, NEW o \in Ops, id[o] \in Keys, slab[id[o]] \in Entry, slab[id[o]].ext = o,
         NEW s \in {"Submitted", "Waiting", "Completed", "Cancelled"},
         NEW w \in Wakers \cup {None}, NEW p \in Ops \cup {None}, Become(o, s, w, p)
  PROVE  /\ slab' \in [Keys -> Entry \cup {Vacant}]
         /\ slab'[id[o]] = [state |-> s, waker |-> w, payload |-> p, ext |-> o]
         /\ \A k \in Keys : k # id[o] => slab'[k] = slab[k]
         /\ UNCHANGED id /\ (\A q \in Ops : Needs(q)' <=> Needs(q)) => EntryExact'
<1> DEFINE e == [state |-> s, waker |-> w, payload |-> p, ext |-> o]
<1>1. slab' = [slab EXCEPT ![id[o]] = e]
  BY DEF Become, Set
<1>2. e \in Entry /\ e # Vacant /\ e.ext = o
  OBVIOUS
<1> HIDE DEF e
<1>3. slab' \in [Keys -> Entry \cup {Vacant}] /\ slab'[id[o]] = e
      /\ \A k \in Keys : k # id[o] => slab'[k] = slab[k]
  BY <1>1, <1>2 DEF IInv, TypeOK
<1>4. ASSUME UNCHANGED id, \A q \in Ops : Needs(q)' <=> Needs(q)
      PROVE  EntryExact'
  <2>1. slab[id[o]] # Vacant /\ Needs(o)
    BY DEF IInv, EntryExact, Occupied
  <2>2. ASSUME NEW q \in Ops, Needs(q) PROVE slab'[id[q]] # Vacant /\ slab'[id[q]].ext = q
    <3>1. slab[id[q]] # Vacant /\ slab[id[q]].ext = q /\ id[q] \in Keys
      BY <2>2 DEF IInv, TypeOK, EntryExact, Needs, OpAgrees
    <3>2. CASE id[q] = id[o]
      BY <1>2, <1>3, <3>1, <3>2
    <3>3. CASE id[q] # id[o]
      BY <1>3, <3>1, <3>3
    <3> QED  BY <3>2, <3>3
  <2>3. ASSUME NEW k \in Keys, slab'[k] # Vacant
        PROVE  id[slab'[k].ext] = k /\ Needs(slab'[k].ext) /\ slab'[k].ext \in Ops
    <3>1. CASE k = id[o]
      BY <1>2, <1>3, <2>1, <3>1
    <3>2. CASE k # id[o]
      BY <1>3, <2>3, <3>2 DEF IInv, TypeOK, EntryExact, Occupied
    <3> QED  BY <3>1, <3>2
  <2> QED  BY <1>4, <2>2, <2>3 DEF EntryExact, Occupied
<1> QED  BY <1>3, <1>4 DEF e

LEMMA InsertStep ==
  ASSUME ~Hold, IInv, NEW o \in Ops, NEW k \in Keys, Idle, cap' \in Capacity .. MaxKeys, Insert(o, k)
  PROVE  IInv'
<1>1. TypeOK'
  BY NoneAssumption, CapacityAssumption DEF IInv, TypeOK, Insert, Set
<1>2. EntryExact'
  BY NoneAssumption DEF IInv, TypeOK, Insert, Set, EntryExact, Needs, Occupied, OpAgrees
<1>3. ReadyVacant' /\ DroppedEmpty'
  BY DEF IInv, TypeOK, Insert, Set, ReadyVacant, DroppedEmpty, Idle
<1>4. (\A p \in Ops : OpAgrees(p))'
  BY NoneAssumption DEF IInv, TypeOK, Insert, Set, OpAgrees
<1>5. (\A j \in Keys : EntryAgrees(j))'
  BY NoneAssumption DEF IInv, TypeOK, Insert, Set, EntryAgrees, EntryExact, Occupied, OpAgrees, Needs
<1> QED  BY <1>1, <1>2, <1>3, <1>4, <1>5 DEF IInv

LEMMA NewOpStep ==
  ASSUME ~Hold, IInv, NEW o \in Ops, NewOp(o)
  PROVE  IInv'
<1>1. TypeOK'
  BY DEF IInv, TypeOK, NewOp
<1>2. EntryExact' /\ ReadyVacant' /\ DroppedEmpty'
  BY DEF IInv, TypeOK, NewOp, EntryExact, Needs, Occupied, ReadyVacant, DroppedEmpty
<1>3. (\A p \in Ops : OpAgrees(p))'
  BY DEF IInv, TypeOK, NewOp, OpAgrees
<1>4. (\A k \in Keys : EntryAgrees(k))'
  BY DEF IInv, TypeOK, NewOp, EntryAgrees
<1> QED  BY <1>1, <1>2, <1>3, <1>4 DEF IInv

LEMMA PollPendingStep ==
  ASSUME ~Hold, IInv, NEW o \in Ops, NEW w \in Wakers, PollPending(o, w)
  PROVE  IInv'
<1> USE DEF PollPending, NewWaker
<1>1. /\ id[o] \in Keys /\ slab[id[o]] \in Entry /\ slab[id[o]].ext = o
      /\ request[o] # "seen" /\ verdict[o] = "none"
  BY Live
<1>2. /\ slab' \in [Keys -> Entry \cup {Vacant}]
      /\ slab'[id[o]] = [state |-> "Waiting", waker |-> w, payload |-> None, ext |-> o]
      /\ \A k \in Keys : k # id[o] => slab'[k] = slab[k]
      /\ UNCHANGED id /\ (\A q \in Ops : Needs(q)' <=> Needs(q)) => EntryExact'
  BY <1>1, Becoming
<1>3. TypeOK'
  BY <1>2 DEF IInv, TypeOK
<1>4. EntryExact'
  BY <1>2 DEF Needs
<1>5. ReadyVacant' /\ DroppedEmpty'
  BY <1>2 DEF IInv, ReadyVacant, DroppedEmpty, Idle
<1>6. (\A p \in Ops : OpAgrees(p))'
  BY DEF IInv, TypeOK, OpAgrees
<1>7. (\A k \in Keys : EntryAgrees(k))'
  <2>1. EntryAgrees(id[o])'
    BY <1>1, <1>2 DEF IInv, TypeOK, EntryAgrees
  <2>2. ASSUME NEW k \in Keys, k # id[o] PROVE EntryAgrees(k)'
    <3>1. slab[k] # Vacant => slab[k].ext # o /\ slab[k].ext \in Ops
      BY <2>2 DEF IInv, TypeOK, EntryExact, Occupied
    <3> QED  BY <1>2, <2>2, <3>1 DEF IInv, TypeOK, EntryAgrees
  <2> QED  BY <1>2, <2>1, <2>2
<1> QED  BY <1>3, <1>4, <1>5, <1>6, <1>7 DEF IInv

LEMMA PollReadyStep ==
  ASSUME ~Hold, IInv, NEW o \in Ops, PollReady(o)
  PROVE  IInv'
<1> USE DEF PollReady, Set
<1>1. /\ id[o] \in Keys /\ slab[id[o]] \in Entry /\ slab[id[o]].ext = o /\ result[o] = None
      /\ slab[id[o]].payload = o /\ verdict[o] = "ok" /\ request[o] = "seen"
  BY Live
<1>2. TypeOK'
  BY <1>1, NoneAssumption DEF IInv, TypeOK, Output
<1>3. EntryExact'
  BY <1>1, NoneAssumption DEF IInv, TypeOK, EntryExact, Needs, Occupied
<1>4. ReadyVacant' /\ DroppedEmpty'
  BY <1>1 DEF IInv, TypeOK, ReadyVacant, DroppedEmpty, Idle
<1>5. (\A p \in Ops : OpAgrees(p))'
  <2>1. result'[o] = [payload |-> o, ext |-> o] /\ result'[o] # None
    BY <1>1, NoOutputAssumption DEF IInv, TypeOK, Output
  <2>2. OpAgrees(o)'
    BY <1>1, <2>1 DEF IInv, TypeOK, OpAgrees
  <2>3. ASSUME NEW p \in Ops, p # o PROVE OpAgrees(p)'
    BY <2>3 DEF IInv, TypeOK, OpAgrees
  <2> QED  BY <2>2, <2>3
<1>6. (\A k \in Keys : EntryAgrees(k))'
  BY <1>1, NoneAssumption DEF IInv, TypeOK, EntryAgrees, EntryExact, Needs, Occupied
<1> QED  BY <1>2, <1>3, <1>4, <1>5, <1>6 DEF IInv

LEMMA PeerAnswersStep ==
  ASSUME ~Hold, IInv, NEW o \in Ops, PeerAnswers(o)
  PROVE  IInv'
<1> USE DEF PeerAnswers
<1>1. TypeOK'
  BY DEF IInv, TypeOK
<1>2. EntryExact' /\ ReadyVacant' /\ DroppedEmpty'
  BY DEF IInv, TypeOK, EntryExact, Needs, Occupied, ReadyVacant, DroppedEmpty
<1>3. (\A p \in Ops : OpAgrees(p))'
  BY DEF IInv, TypeOK, OpAgrees
<1>4. (\A k \in Keys : EntryAgrees(k))'
  BY DEF IInv, TypeOK, EntryAgrees
<1> QED  BY <1>1, <1>2, <1>3, <1>4 DEF IInv

LEMMA CompleteLiveStep ==
  ASSUME ~Hold, IInv, NEW o \in Ops, CompleteLive(o)
  PROVE  IInv'
<1> USE DEF CompleteLive, Become, Set, Seen, Wake
<1>1. /\ id[o] \in Keys /\ slab[id[o]] \in Entry /\ slab[id[o]].ext = o /\ result[o] = None
      /\ op[o] \in {"submitted", "held"} /\ slab[id[o]] # Vacant
  <2>1. request[o] \in {"sent", "answered"} /\ slab[id[o]].state \in {"Submitted", "Waiting"}
    OBVIOUS
  <2>2. /\ id[o] \in Keys /\ slab[id[o]].ext = o /\ result[o] = None /\ slab[id[o]] # Vacant
        /\ op[o] \in {"submitted", "held", "dropped"}
    BY <2>1, Awaited
  <2>3. slab[id[o]] \in Entry /\ EntryAgrees(id[o])
    BY <2>2 DEF IInv, TypeOK
  <2> QED  BY <2>1, <2>2, <2>3 DEF EntryAgrees
<1>2. TypeOK'
  BY <1>1, NoneAssumption DEF IInv, TypeOK, EntryAgrees
<1>3. EntryExact'
  BY <1>1, NoneAssumption DEF IInv, TypeOK, EntryExact, Needs, Occupied
<1>4. ReadyVacant' /\ DroppedEmpty'
  BY <1>1 DEF IInv, TypeOK, ReadyVacant, DroppedEmpty, Idle
<1>5. (\A p \in Ops : OpAgrees(p))'
  BY <1>1 DEF IInv, TypeOK, OpAgrees
<1>6. (\A k \in Keys : EntryAgrees(k))'
  BY <1>1, NoneAssumption DEF IInv, TypeOK, EntryAgrees, EntryExact, Needs, Occupied
<1> QED  BY <1>2, <1>3, <1>4, <1>5, <1>6 DEF IInv

LEMMA CompleteCancelledStep ==
  ASSUME ~Hold, IInv, NEW o \in Ops, CompleteCancelled(o)
  PROVE  IInv'
<1> USE DEF CompleteCancelled, Set, Seen
<1>1. slab[id[o]].ext = o /\ op[o] = "dropped" /\ result[o] = None
  <2>1. request[o] \in {"sent", "answered"} /\ slab[id[o]].state = "Cancelled"
    OBVIOUS
  <2>2. /\ id[o] \in Keys /\ slab[id[o]].ext = o /\ result[o] = None /\ slab[id[o]] # Vacant
        /\ op[o] \in {"submitted", "held", "dropped"}
    BY <2>1, Awaited
  <2>3. EntryAgrees(id[o])
    BY <2>2 DEF IInv
  <2> QED  BY <2>1, <2>2, <2>3 DEF EntryAgrees
<1>2. TypeOK'
  BY <1>1, NoneAssumption DEF IInv, TypeOK
<1>3. EntryExact'
  BY <1>1, NoneAssumption DEF IInv, TypeOK, EntryExact, Needs, Occupied
<1>4. ReadyVacant' /\ DroppedEmpty'
  BY <1>1 DEF IInv, TypeOK, ReadyVacant, DroppedEmpty, Idle
<1>5. (\A p \in Ops : OpAgrees(p))'
  BY <1>1 DEF IInv, TypeOK, OpAgrees
<1>6. (\A k \in Keys : EntryAgrees(k))'
  BY <1>1, NoneAssumption DEF IInv, TypeOK, EntryAgrees, EntryExact, Needs, Occupied
<1> QED  BY <1>2, <1>3, <1>4, <1>5, <1>6 DEF IInv

-----------------------------------------------------------------------------
(* Op::drop. *)

LEMMA DropRemovedStep ==
  ASSUME ~Hold, IInv, NEW o \in Ops, DropRemoved(o)
  PROVE  IInv'
<1> USE DEF DropRemoved, Drop, Dropping
<1>1. op[o] = "ready"
  BY DEF IInv, EntryExact, Needs
<1>2. TypeOK'
  BY NoneAssumption DEF IInv, TypeOK
<1>3. EntryExact' /\ ReadyVacant' /\ DroppedEmpty'
  BY <1>1 DEF IInv, TypeOK, EntryExact, Needs, Occupied, ReadyVacant, DroppedEmpty, OpAgrees
<1>4. (\A p \in Ops : OpAgrees(p))'
  BY <1>1 DEF IInv, TypeOK, OpAgrees
<1>5. (\A k \in Keys : EntryAgrees(k))'
  BY <1>1 DEF IInv, TypeOK, EntryAgrees, EntryExact, Needs, Occupied, OpAgrees
<1> QED  BY <1>2, <1>3, <1>4, <1>5 DEF IInv

LEMMA DropUnfinishedStep ==
  ASSUME ~Hold, IInv, NEW o \in Ops, DropUnfinished(o)
  PROVE  IInv'
<1> USE DEF DropUnfinished, Drop, Dropping, Become, Set
<1>1. /\ id[o] \in Keys /\ slab[id[o]] \in Entry /\ slab[id[o]].ext = o /\ slab[id[o]] # Vacant
      /\ request[o] # "seen" /\ result[o] = None
  BY Live
<1>2. TypeOK'
  BY <1>1, NoneAssumption DEF IInv, TypeOK
<1>3. EntryExact'
  BY <1>1, NoneAssumption DEF IInv, TypeOK, EntryExact, Needs, Occupied
<1>4. ReadyVacant' /\ DroppedEmpty'
  BY <1>1 DEF IInv, TypeOK, ReadyVacant, DroppedEmpty, Idle
<1>5. (\A p \in Ops : OpAgrees(p))'
  BY <1>1 DEF IInv, TypeOK, OpAgrees
<1>6. (\A k \in Keys : EntryAgrees(k))'
  BY <1>1, NoneAssumption DEF IInv, TypeOK, EntryAgrees, EntryExact, Needs, Occupied
<1> QED  BY <1>2, <1>3, <1>4, <1>5, <1>6 DEF IInv

LEMMA DropCompletedStep ==
  ASSUME ~Hold, IInv, NEW o \in Ops, DropCompleted(o)
  PROVE  IInv'
<1> USE DEF DropCompleted, Drop, Dropping, Set
<1>1. op[o] = "held" /\ id[o] \in Keys
  BY DEF IInv, TypeOK, ReadyVacant, OpAgrees
<1>2. /\ slab[id[o]] \in Entry /\ slab[id[o]].ext = o /\ slab[id[o]] # Vacant
      /\ request[o] = "seen" /\ verdict[o] = "ok" /\ result[o] = None
  BY <1>1, Live
<1>3. TypeOK'
  BY <1>1, <1>2, NoneAssumption DEF IInv, TypeOK
<1>4. EntryExact'
  BY <1>1, <1>2, NoneAssumption DEF IInv, TypeOK, EntryExact, Needs, Occupied
<1>5. ReadyVacant' /\ DroppedEmpty'
  BY <1>1 DEF IInv, TypeOK, ReadyVacant, DroppedEmpty, Idle
<1>6. (\A p \in Ops : OpAgrees(p))'
  BY <1>1, <1>2 DEF IInv, TypeOK, OpAgrees
<1>7. (\A k \in Keys : EntryAgrees(k))'
  BY <1>1, <1>2, NoneAssumption DEF IInv, TypeOK, EntryAgrees, EntryExact, Needs, Occupied
<1> QED  BY <1>3, <1>4, <1>5, <1>6, <1>7 DEF IInv

LEMMA RetireStep ==
  ASSUME ~Hold, IInv, Retire
  PROVE  IInv'
<1> USE DEF Retire
<1>1. \A o \in Ops : ~IsBusy => resource[o] # "entry"
  BY DEF IsBusy, IInv, TypeOK, EntryExact, Needs, Occupied, OpAgrees
<1>2. resource' = resource
  BY <1>1 DEF IInv, TypeOK, IsBusy
<1>3. DroppedEmpty'
  BY DEF IsBusy, DroppedEmpty, Occupied
<1>4. TypeOK'
  BY <1>2 DEF IInv, TypeOK
<1>5. EntryExact' /\ ReadyVacant'
  BY DEF IInv, EntryExact, Needs, Occupied, ReadyVacant
<1>6. (\A o \in Ops : OpAgrees(o))' /\ (\A k \in Keys : EntryAgrees(k))'
  BY <1>2 DEF IInv, OpAgrees, EntryAgrees
<1> QED  BY <1>3, <1>4, <1>5, <1>6 DEF IInv

-----------------------------------------------------------------------------
(* None of the calls that panic is possible. *)

LEMMA PollValid ==
  ASSUME IInv, NEW o \in Ops
  PROVE  ~PollPanics(o)
BY Live DEF PollPanics

LEMMA CompleteValid ==
  ASSUME IInv, NEW o \in Ops
  PROVE  ~CompletePanics(o)
<1> SUFFICES ASSUME CompletePanics(o) PROVE FALSE
  OBVIOUS
<1>1. request[o] = "answered" /\ slab[id[o]].state \in {"Vacant", "Completed"}
  BY DEF CompletePanics
<1>2. /\ id[o] \in Keys /\ slab[id[o]].ext = o /\ slab[id[o]] # Vacant
      /\ op[o] \in {"submitted", "held", "dropped"}
  BY <1>1, Awaited
<1>3. EntryAgrees(id[o])
  BY <1>2 DEF IInv
<1> QED  BY <1>1, <1>2, <1>3 DEF EntryAgrees, IInv, TypeOK

LEMMA DropValid ==
  ASSUME IInv, NEW o \in Ops
  PROVE  ~DropPanics(o)
<1> SUFFICES ASSUME DropPanics(o) PROVE FALSE
  OBVIOUS
<1>1. CASE op[o] = "ready"
  BY <1>1 DEF DropPanics, IInv, ReadyVacant
<1>2. CASE op[o] = "held"
  BY <1>2, Live DEF DropPanics
<1> QED  BY <1>1, <1>2 DEF DropPanics, Dropping

-----------------------------------------------------------------------------
LEMMA Preserved ==
  ASSUME ~Hold, IInv, [Next]_vars
  PROVE  IInv'
<1>1. ASSUME NEW o \in Ops, NEW k \in Keys, TrySubmit(o, k) \/ Submit(o, k)
      PROVE  IInv'
  <2>1. cap' \in Capacity .. MaxKeys
    BY <1>1, CapacityAssumption DEF TrySubmit, Submit, IInv, TypeOK
  <2> QED  BY <1>1, <2>1, InsertStep DEF TrySubmit, Submit
<1>2. CASE UNCHANGED vars
  BY <1>2 DEF vars, IInv, TypeOK, EntryExact, Needs, Occupied, ReadyVacant, DroppedEmpty, OpAgrees,
              EntryAgrees
<1> QED
  BY <1>1, <1>2, NewOpStep, PollPendingStep, PollReadyStep, PeerAnswersStep,
     CompleteLiveStep, CompleteCancelledStep, DropRemovedStep, DropUnfinishedStep,
     DropCompletedStep, RetireStep
  DEF Next

\* Until answered, an operation has what it lent to the peer in the Op or in the entry.
LEMMA HoldsResources == IInv => ResourcesHeld
<1> SUFFICES ASSUME IInv, NEW o \in Ops, request[o] = "sent", op[o] \notin {"new", "submitted"}
             PROVE  resource[o] \in {"op", "entry"}
  BY DEF ResourcesHeld
<1>1. op[o] \in {"held", "dropped"} /\ result[o] = None
  BY Awaited
<1> QED  BY <1>1 DEF IInv, OpAgrees

LEMMA WakesLatest == IInv => LatestWoken
<1> SUFFICES ASSUME IInv, NEW o \in Ops, op[o] = "held", verdict[o] = "ok", lastWaker[o] # None
             PROVE  lastWaker[o] \in woken[o]
  BY DEF LatestWoken
<1>1. id[o] \in Keys /\ slab[id[o]].ext = o /\ slab[id[o]].state = "Completed"
  BY Live
<1> QED  BY <1>1 DEF IInv, EntryAgrees

LEMMA JudgesExactly == IInv => VerdictExact
BY DEF IInv, OpAgrees, VerdictExact

-----------------------------------------------------------------------------
(* The theorems.  All but the last step of each is above. *)

\* IInv holds in every state the driver reaches when finished Ops are not kept.
THEOREM Invariance == ASSUME ~Hold PROVE Spec => []IInv
<1>1. Init => IInv
  BY Initially
<1>2. IInv /\ [Next]_vars => IInv'
  BY Preserved
<1> QED  BY <1>1, <1>2, PTL DEF Spec

\* The driver's variables keep their types.
THEOREM TypeCorrect == ASSUME ~Hold PROVE Spec => []TypeOK
<1>1. IInv => TypeOK
  BY DEF IInv
<1> QED  BY <1>1, Invariance, PTL

\* An operation has an entry, and the entry is its own, exactly while it needs one.
THEOREM EntriesExact == ASSUME ~Hold PROVE Spec => []EntryExact
<1>1. IInv => EntryExact
  BY DEF IInv
<1> QED  BY <1>1, Invariance, PTL

\* poll, complete and remove never meet an id or a state they do not expect.
THEOREM NoPanic == ASSUME ~Hold PROVE Spec => []NeverPanics
<1>1. IInv => NeverPanics
  BY PollValid, CompleteValid, DropValid DEF IInv, DroppedEmpty, NeverPanics
<1> QED  BY <1>1, Invariance, PTL

\* Nothing the peer may still access is given back or freed.
THEOREM Lending == ASSUME ~Hold PROVE Spec => []ResourcesHeld
BY HoldsResources, Invariance, PTL

\* complete fails exactly for cancelled operations.
THEOREM Verdicts == ASSUME ~Hold PROVE Spec => []VerdictExact
BY JudgesExactly, Invariance, PTL

\* An answer wakes whoever polled last.
THEOREM Waking == ASSUME ~Hold PROVE Spec => []LatestWoken
BY WakesLatest, Invariance, PTL

-----------------------------------------------------------------------------
(* Refinement: what the entries show of an operation depends on nothing but *)
(* its handle, its result and whether its answer was seen.                  *)

StageFacts(o) ==
  /\ op[o] = "new" => Stage(o) = "idle"
  /\ op[o] \in {"submitted", "held"} =>
       Stage(o) = IF request[o] = "seen" THEN "answered" ELSE "pending"
  /\ result[o] # None => Stage(o) = "delivered"
  /\ op[o] = "dropped" /\ result[o] = None =>
       Stage(o) = IF request[o] = "seen" THEN "over" ELSE "cancelled"

LEMMA StageIs == IInv => \A o \in Ops : StageFacts(o)
<1> SUFFICES ASSUME IInv, NEW o \in Ops PROVE StageFacts(o)
  OBVIOUS
<1>1. op[o] \in {"submitted", "held"} =>
        Stage(o) = IF request[o] = "seen" THEN "answered" ELSE "pending"
  BY Live DEF Stage
<1>2. result[o] # None => Stage(o) = "delivered"
  BY DEF Stage, IInv, TypeOK, OpAgrees
<1>3. ASSUME op[o] = "dropped", result[o] = None
      PROVE  Stage(o) = IF request[o] = "seen" THEN "over" ELSE "cancelled"
  <2>1. CASE request[o] = "seen"
    <3>1. ~Needs(o) /\ id[o] \in Keys
      BY <1>3, <2>1 DEF Needs, IInv, OpAgrees
    <3>2. ~(slab[id[o]].state = "Cancelled" /\ slab[id[o]].ext = o)
      BY <3>1 DEF IInv, EntryExact, Occupied
    <3> QED  BY <1>3, <2>1, <3>2 DEF Stage
  <2>2. CASE request[o] # "seen"
    <3>1. Needs(o) /\ id[o] \in Keys
      BY <1>3, <2>2 DEF Needs, IInv, OpAgrees
    <3>2. slab[id[o]].ext = o /\ slab[id[o]] # Vacant
      BY <3>1 DEF IInv, EntryExact
    <3>3. slab[id[o]].state = "Cancelled"
      BY <1>3, <3>1, <3>2 DEF IInv, EntryAgrees
    <3> QED  BY <1>3, <2>2, <3>2, <3>3 DEF Stage
  <2> QED  BY <2>1, <2>2
<1>4. op[o] = "new" => Stage(o) = "idle"
  BY DEF Stage
<1> QED  BY <1>1, <1>2, <1>3, <1>4 DEF StageFacts

LEMMA StageIsNext == IInv' => (\A o \in Ops : StageFacts(o))'
BY StageIs, PTL

LEMMA StageSame ==
  ASSUME IInv, IInv', NEW o \in Ops, op'[o] = op[o], result'[o] = result[o],
         request'[o] = "seen" <=> request[o] = "seen"
  PROVE  Stage(o)' = Stage(o) /\ Got(o)' = Got(o)
<1>1. Got(o)' = Got(o)
  BY DEF Got
<1>2. op[o] \in {"new", "submitted", "held", "ready", "dropped"} /\ (op[o] = "ready" => result[o] # None)
  BY DEF IInv, TypeOK, OpAgrees
<1>3. StageFacts(o)
  BY StageIs
<1>5. StageFacts(o)'
  BY StageIsNext
<1>6. Stage(o)' = Stage(o)
  BY <1>2, <1>3, <1>5 DEF StageFacts
<1> QED  BY <1>1, <1>6

\* A step of one operation moves its stage and no other.
LEMMA Moves ==
  ASSUME IInv, IInv', NEW o \in Ops, NEW from, NEW to, Stage(o) = from, Stage(o)' = to,
         \A q \in Ops \ {o} : op'[q] = op[q] /\ result'[q] = result[q] /\ request'[q] = request[q]
  PROVE  /\ Pr!Move(o, from, to)
         /\ [q \in Ops |-> Got(q)]' = [[q \in Ops |-> Got(q)] EXCEPT ![o] = Got(o)']
         /\ Got(o)' = Got(o) => UNCHANGED [q \in Ops |-> Got(q)]
<1>1. ASSUME NEW q \in Ops \ {o} PROVE Stage(q)' = Stage(q) /\ Got(q)' = Got(q)
  BY StageSame
<1> QED  BY <1>1 DEF Pr!Move

LEMMA Stutters ==
  ASSUME IInv, IInv', \A q \in Ops : Stage(q)' = Stage(q) /\ Got(q)' = Got(q)
  PROVE  UNCHANGED Pr!pvars
BY DEF Pr!pvars

\* Every step of the driver is a step of the promises, or none.
LEMMA StepMaps ==
  ASSUME ~Hold, IInv, IInv', [Next]_vars
  PROVE  [Pr!Next]_(Pr!pvars)
<1> USE StageIs, StageIsNext DEF StageFacts
<1>1. ASSUME NEW o \in Ops, NEW k \in Keys, Insert(o, k)
      PROVE  Pr!Submit(o)
  <2>1. Stage(o) = "idle" /\ Stage(o)' = "pending" /\ Got(o)' = Got(o)
    BY <1>1 DEF Insert, IInv, TypeOK, Got
  <2>2. \A q \in Ops \ {o} : op'[q] = op[q] /\ result'[q] = result[q] /\ request'[q] = request[q]
    BY <1>1 DEF Insert, IInv, TypeOK
  <2> QED  BY <2>1, <2>2, Moves DEF Pr!Submit
<1>2. ASSUME NEW o \in Ops, NewOp(o)
      PROVE  UNCHANGED Pr!pvars
  <2>1. Stage(o)' = Stage(o) /\ Got(o)' = Got(o)
    BY <1>2 DEF NewOp, IInv, TypeOK, Got
  <2>2. \A q \in Ops \ {o} : Stage(q)' = Stage(q) /\ Got(q)' = Got(q)
    BY <1>2, StageSame DEF NewOp, IInv, TypeOK
  <2> QED  BY <2>1, <2>2, Stutters
<1>3. ASSUME NEW o \in Ops, PollReady(o)
      PROVE  Pr!Deliver(o)
  <2>1. request[o] = "seen" /\ result[o] = None /\ result'[o] # None
    BY <1>3, Live DEF PollReady, IInv, TypeOK, OpAgrees
  <2>2. result'[o] = [payload |-> o, ext |-> o]
    BY <2>1 DEF IInv, OpAgrees
  <2>3. Stage(o) = "answered" /\ Stage(o)' = "delivered"
    BY <1>3, <2>1 DEF PollReady
  <2>4. Got(o)' = {o}
    BY <2>1, <2>2 DEF Got
  <2>5. \A q \in Ops \ {o} : op'[q] = op[q] /\ result'[q] = result[q] /\ request'[q] = request[q]
    BY <1>3 DEF PollReady, IInv, TypeOK
  <2> QED  BY <2>3, <2>4, <2>5, Moves DEF Pr!Deliver
<1>4. ASSUME NEW o \in Ops, PeerAnswers(o)
      PROVE  UNCHANGED Pr!pvars
  <2>1. \A q \in Ops : Stage(q)' = Stage(q) /\ Got(q)' = Got(q)
    BY <1>4, StageSame DEF PeerAnswers, IInv, TypeOK
  <2> QED  BY <2>1, Stutters
<1>5. ASSUME NEW o \in Ops, CompleteLive(o) \/ CompleteCancelled(o)
      PROVE  Pr!Answer(o)
  <2>1. op[o] \in {"submitted", "held", "dropped"} /\ result[o] = None /\ request[o] # "seen"
    BY <1>5, Awaited DEF CompleteLive, CompleteCancelled
  <2>2. request'[o] = "seen" /\ UNCHANGED <<op, result>>
    BY <1>5 DEF CompleteLive, CompleteCancelled, Seen, IInv, TypeOK
  <2>3. Got(o)' = Got(o)
    BY <2>2 DEF Got
  <2>4. \A q \in Ops \ {o} : op'[q] = op[q] /\ result'[q] = result[q] /\ request'[q] = request[q]
    BY <1>5 DEF CompleteLive, CompleteCancelled, Seen, IInv, TypeOK
  <2>5. CASE op[o] = "dropped"
    <3>1. Stage(o) = "cancelled" /\ Stage(o)' = "over"
      BY <2>1, <2>2, <2>5
    <3> QED  BY <2>3, <2>4, <3>1, Moves DEF Pr!Answer
  <2>6. CASE op[o] # "dropped"
    <3>1. Stage(o) = "pending" /\ Stage(o)' = "answered"
      BY <2>1, <2>2, <2>6
    <3> QED  BY <2>3, <2>4, <3>1, Moves DEF Pr!Answer
  <2> QED  BY <2>5, <2>6
<1>6. ASSUME NEW o \in Ops, DropRemoved(o)
      PROVE  UNCHANGED Pr!pvars
  <2>1. op[o] = "ready"
    BY <1>6, Live DEF DropRemoved, Dropping
  <2>2. result[o] # None /\ UNCHANGED result
    BY <1>6, <2>1 DEF DropRemoved, Drop, IInv, OpAgrees
  <2>3. Stage(o)' = Stage(o) /\ Got(o)' = Got(o)
    BY <2>2 DEF Got
  <2>4. \A q \in Ops \ {o} : Stage(q)' = Stage(q) /\ Got(q)' = Got(q)
    BY <1>6, StageSame DEF DropRemoved, Drop, IInv, TypeOK
  <2> QED  BY <2>3, <2>4, Stutters
<1>7. ASSUME NEW o \in Ops, DropUnfinished(o) \/ DropCompleted(o)
      PROVE  Pr!GiveUp(o)
  <2>1. op[o] = "held"
    BY <1>7 DEF DropUnfinished, DropCompleted, Dropping, IInv, ReadyVacant
  <2>2. result[o] = None /\ UNCHANGED <<result, request>> /\ op'[o] = "dropped"
    BY <1>7, <2>1, Live DEF DropUnfinished, DropCompleted, Drop, IInv, TypeOK
  <2>3. Got(o)' = Got(o)
    BY <2>2 DEF Got
  <2>4. \A q \in Ops \ {o} : op'[q] = op[q] /\ result'[q] = result[q] /\ request'[q] = request[q]
    BY <1>7 DEF DropUnfinished, DropCompleted, Drop, IInv, TypeOK
  <2>5. CASE request[o] = "seen"
    <3>1. Stage(o) = "answered" /\ Stage(o)' = "over"
      BY <2>1, <2>2, <2>5
    <3> QED  BY <2>3, <2>4, <3>1, Moves DEF Pr!GiveUp
  <2>6. CASE request[o] # "seen"
    <3>1. Stage(o) = "pending" /\ Stage(o)' = "cancelled"
      BY <2>1, <2>2, <2>6
    <3> QED  BY <2>3, <2>4, <3>1, Moves DEF Pr!GiveUp
  <2> QED  BY <2>5, <2>6
<1>8. ASSUME UNCHANGED <<op, result, request>>
      PROVE  UNCHANGED Pr!pvars
  <2>1. \A q \in Ops : Stage(q)' = Stage(q) /\ Got(q)' = Got(q)
    BY <1>8, StageSame
  <2> QED  BY <2>1, Stutters
<1>9. CASE UNCHANGED vars
  BY <1>8, <1>9 DEF vars
<1>10. CASE Retire
  BY <1>8, <1>10 DEF Retire
<1>11. ASSUME NEW o \in Ops, NEW w \in Wakers, PollPending(o, w)
       PROVE  UNCHANGED Pr!pvars
  BY <1>8, <1>11 DEF PollPending
<1>12. ASSUME NEW o \in Ops, NEW k \in Keys, TrySubmit(o, k) \/ Submit(o, k)
       PROVE  Pr!Submit(o)
  BY <1>1, <1>12 DEF TrySubmit, Submit
<1> HIDE StageIs, StageIsNext
<1> QED
  BY <1>2, <1>3, <1>4, <1>5, <1>6, <1>7, <1>9, <1>10, <1>11, <1>12
  DEF Next, Pr!Next

\* Each operation is answered once and its own answer delivered once or discarded,
\* whatever the number of slots and the order of calls.
THEOREM Refinement == ASSUME ~Hold PROVE Spec => KeepsPromise
<1>1. Init => Pr!Init
  <2>1. Init => \A o \in Ops : Stage(o) = "idle" /\ Got(o) = {}
    BY DEF Init, Stage, Got
  <2> QED  BY <2>1 DEF Pr!Init
<1>2. IInv /\ IInv' /\ [Next]_vars => [Pr!Next]_(Pr!pvars)
  BY StepMaps
<1> QED  BY <1>1, <1>2, Invariance, PTL DEF Spec, KeepsPromise, Pr!Spec
=============================================================================
