-------------------------------- MODULE Uring --------------------------------
(***************************************************************************)
(* The two halves of a uring and its end of life: UringA, UringB,          *)
(* RawUring, Header::rc and DisposeError of evering/src/uring.rs.          *)
(*                                                                         *)
(* Each half sends on one queue and receives on the other; the queues are  *)
(* channels here (module SpscQueue shows that they are).  What this module *)
(* adds is ownership: the halves share one allocation and a reference      *)
(* count, a half may be dropped, taken apart (into_raw), put together      *)
(* again (from_raw) or disposed of (dispose_raw) at any moment, on its own *)
(* thread, and the last one to go drops what is still queued.              *)
(*                                                                         *)
(* Memory.  The count is an atomic, its modification order rcLog.  A half  *)
(* counts its accesses to the shared memory; what the other half's fence   *)
(* orders before itself of these accesses is `ordered`.                    *)
(***************************************************************************)
EXTENDS Naturals, Sequences, FiniteSets, SequencesExt

CONSTANTS CapA, CapB,   \* capacities of the two queues
          MaxSend       \* bound on the values sent by each half

ASSUME CapAssumption == CapA \in Nat /\ CapB \in Nat
ASSUME MaxSendAssumption == MaxSend \in Nat

Halves == {"A", "B"}
Peer(h) == IF h = "A" THEN "B" ELSE "A"

\* The k-th value sent on a queue is k.
Values == 1 .. MaxSend

VARIABLES
  chanA, rcvdA,    \* queue a: A sends, B receives
  chanB, rcvdB,    \* queue b: B sends, A receives
  sentA, sentB,    \* how many values were sent on either
  droppedA, droppedB,   \* the values dropped in place
  half,            \* what has become of each half
  keep,            \* the half is being disposed of by dispose_raw, not by drop
  todo,            \* entries the disposing half has still to drop of a queue
  rcLog, rcSeen,   \* modification order of the count; the entry a half last saw
  told,            \* the last answer of is_connected
  accesses,        \* accesses of each half to the shared memory
  released,        \* accesses of each half before its release of the count
  ordered,         \* accesses of the peer ordered before what a half does now
  frees            \* how often the memory was given back

chans == <<chanA, rcvdA, chanB, rcvdB, sentA, sentB>>
drops == <<droppedA, droppedB, todo>>
count == <<rcLog, rcSeen, released>>
vars == <<chans, drops, half, keep, count, told, accesses, ordered, frees>>

QueueA == INSTANCE Channel WITH chan <- chanA, rcvd <- rcvdA, Cap <- CapA
QueueB == INSTANCE Channel WITH chan <- chanB, rcvd <- rcvdB, Cap <- CapB

Status == {"live",      \* a UringA or UringB
           "raw",       \* a RawUring that into_raw returned
           "gone",      \* dropped while the peer was there: nothing left to do
           "last",      \* its fetch_sub returned 1
           "fenced", "dropA", "dropB", "freeing",   \* dispose, drop_in_place
           "kept",      \* the RawUring that dispose_raw returned
           "done"}

Init ==
  /\ QueueA!Init /\ QueueB!Init
  /\ sentA = 0 /\ sentB = 0 /\ droppedA = <<>> /\ droppedB = <<>>
  /\ half = [h \in Halves |-> "live"] /\ keep = [h \in Halves |-> FALSE]
  /\ todo = <<>>
  /\ rcLog = <<2>> /\ rcSeen = [h \in Halves |-> 1]
  /\ told = [h \in Halves |-> "nothing"]
  /\ accesses = [h \in Halves |-> 0] /\ released = [h \in Halves |-> 0]
  /\ ordered = [h \in Halves |-> 0]
  /\ frees = 0

-----------------------------------------------------------------------------
(* Messages. *)

Access(h) == /\ half[h] = "live"
             /\ accesses' = [accesses EXCEPT ![h] = @ + 1]
             /\ UNCHANGED <<drops, half, keep, count, told, ordered, frees>>

Send(h) ==
  /\ Access(h)
  /\ \/ /\ h = "A" /\ sentA < MaxSend
        /\ QueueA!Send(sentA + 1) /\ sentA' = sentA + 1
        /\ UNCHANGED <<chanB, rcvdB, sentB>>
     \/ /\ h = "B" /\ sentB < MaxSend
        /\ QueueB!Send(sentB + 1) /\ sentB' = sentB + 1
        /\ UNCHANGED <<chanA, rcvdA, sentA>>

Recv(h) ==
  /\ Access(h)
  /\ \/ h = "A" /\ QueueB!Recv /\ UNCHANGED <<chanA, rcvdA, sentA, sentB>>
     \/ h = "B" /\ QueueA!Recv /\ UNCHANGED <<chanB, rcvdB, sentA, sentB>>

ConnectedAboveTwo(n) == n > 2            \* mutant: the half counts itself twice
Connected(n) == n > 1

\* rc.load(Relaxed) > 1: any entry not older than one seen before.
IsConnected(h, i) ==
  /\ half[h] = "live"
  /\ i \in rcSeen[h] .. Len(rcLog)
  /\ rcSeen' = [rcSeen EXCEPT ![h] = i]
  /\ told' = [told EXCEPT ![h] = IF Connected(rcLog[i]) THEN "connected" ELSE "disconnected"]
  /\ UNCHANGED <<chans, drops, half, keep, rcLog, released, accesses, ordered, frees>>

-----------------------------------------------------------------------------
(* Ownership. *)

\* Mutant: into_raw lets self drop.
IntoRawDropped(h) ==
  /\ half[h] = "live" /\ half' = [half EXCEPT ![h] = "raw"]
  /\ rcLog' = Append(rcLog, Last(rcLog) - 1)
  /\ UNCHANGED <<chans, drops, keep, rcSeen, released, told, accesses, ordered, frees>>

IntoRaw(h) ==
  /\ half[h] = "live" /\ half' = [half EXCEPT ![h] = "raw"]
  /\ UNCHANGED <<chans, drops, keep, count, told, accesses, ordered, frees>>

FromRaw(h) ==
  /\ half[h] = "raw" /\ half' = [half EXCEPT ![h] = "live"]
  /\ UNCHANGED <<chans, drops, keep, count, told, accesses, ordered, frees>>

\* Which accesses a release of the count publishes, and which an acquire obtains.
NothingReleased(h) == 0                  \* mutants: a relaxed fetch_sub,
NothingAcquired(h) == ordered[h]         \* no fence
Released(h) == accesses[h]
Acquired(h) == released[Peer(h)]

\* Whether dispose goes on to drop the queues, by what fetch_sub returned.
NotChecked(old) == old >= 1              \* mutants: the result is ignored,
WrongCount(old) == old = 0               \* or compared with the new value
IsLast(old) == old = 1

\* rc.fetch_sub(1, Release) of drop (k = FALSE) and dispose_raw (k = TRUE).
Dispose(h, k) ==
  LET old == Last(rcLog)
  IN  /\ half[h] = "live"
      /\ keep' = [keep EXCEPT ![h] = k]
      /\ rcLog' = Append(rcLog, old - 1)
      /\ rcSeen' = [rcSeen EXCEPT ![h] = Len(rcLog) + 1]
      /\ released' = [released EXCEPT ![h] = Released(h)]
      /\ half' = [half EXCEPT ![h] = IF IsLast(old) THEN "last" ELSE "gone"]
      /\ UNCHANGED <<chans, drops, told, accesses, ordered, frees>>

\* fence(Acquire)
Fence(h) ==
  /\ half[h] = "last" /\ half' = [half EXCEPT ![h] = "fenced"]
  /\ ordered' = [ordered EXCEPT ![h] = Acquired(h)]
  /\ UNCHANGED <<chans, drops, keep, count, told, accesses, frees>>

\* Queue::drop_in_place reads head and tail once and walks from one to the other.
WalkA(h) ==
  /\ half[h] = "fenced" /\ half' = [half EXCEPT ![h] = "dropA"]
  /\ todo' = chanA
  /\ UNCHANGED <<chans, droppedA, droppedB, keep, count, told, accesses, ordered, frees>>

DropA(h) ==
  /\ half[h] = "dropA" /\ todo # <<>>
  /\ droppedA' = Append(droppedA, Head(todo)) /\ todo' = Tail(todo)
  /\ UNCHANGED <<chans, droppedB, half, keep, count, told, accesses, ordered, frees>>

\* Mutant: queue b is forgotten.
WalkBNothing(h) ==
  /\ half[h] = "dropA" /\ todo = <<>> /\ half' = [half EXCEPT ![h] = "dropB"]
  /\ UNCHANGED <<chans, drops, keep, count, told, accesses, ordered, frees>>

WalkB(h) ==
  /\ half[h] = "dropA" /\ todo = <<>> /\ half' = [half EXCEPT ![h] = "dropB"]
  /\ todo' = chanB
  /\ UNCHANGED <<chans, droppedA, droppedB, keep, count, told, accesses, ordered, frees>>

DropB(h) ==
  /\ half[h] = "dropB" /\ todo # <<>>
  /\ droppedB' = Append(droppedB, Head(todo)) /\ todo' = Tail(todo)
  /\ UNCHANGED <<chans, droppedA, half, keep, count, told, accesses, ordered, frees>>

\* drop goes on to free the memory; dispose_raw returns the RawUring.
Disposed(h) ==
  /\ half[h] = "dropB" /\ todo = <<>>
  /\ half' = [half EXCEPT ![h] = IF keep[h] THEN "kept" ELSE "freeing"]
  /\ UNCHANGED <<chans, drops, keep, count, told, accesses, ordered, frees>>

\* dealloc_buffer twice and dealloc; or what the caller of dispose_raw does.
Free(h) ==
  /\ half[h] \in {"freeing", "kept"} /\ half' = [half EXCEPT ![h] = "done"]
  /\ frees' = frees + 1
  /\ UNCHANGED <<chans, drops, keep, count, told, accesses, ordered>>

-----------------------------------------------------------------------------
Teardown(h) == \/ Fence(h) \/ WalkA(h) \/ DropA(h) \/ WalkB(h) \/ DropB(h)
               \/ Disposed(h) \/ Free(h)

Next == \E h \in Halves :
          \/ Send(h) \/ Recv(h) \/ \E i \in 1 .. Len(rcLog) : IsConnected(h, i)
          \/ IntoRaw(h) \/ FromRaw(h) \/ \E k \in BOOLEAN : Dispose(h, k)
          \/ Teardown(h)

Spec == Init /\ [][Next]_vars

(***************************************************************************)
(* Fairness.  The language drops a half at the end of its scope, so an     *)
(* owner neither keeps a half for ever nor leaves it in pieces; a drop     *)
(* that has begun runs to its end.                                         *)
(***************************************************************************)
Fairness ==
  \A h \in Halves : /\ SF_vars(\E k \in BOOLEAN : Dispose(h, k))
                    /\ WF_vars(FromRaw(h)) /\ WF_vars(Teardown(h))

FairSpec == Spec /\ Fairness

-----------------------------------------------------------------------------
(* Properties. *)

TypeOK ==
  /\ chanA \in Seq(Values) /\ chanB \in Seq(Values)
  /\ rcvdA \in Seq(Values) /\ rcvdB \in Seq(Values)
  /\ droppedA \in Seq(Values) /\ droppedB \in Seq(Values) /\ todo \in Seq(Values)
  /\ sentA \in 0 .. MaxSend /\ sentB \in 0 .. MaxSend
  /\ half \in [Halves -> Status] /\ keep \in [Halves -> BOOLEAN]
  /\ rcLog \in Seq(0 .. 2) /\ rcSeen \in [Halves -> 1 .. 3]
  /\ told \in [Halves -> {"nothing", "connected", "disconnected"}]
  /\ accesses \in [Halves -> Nat] /\ released \in [Halves -> Nat]
  /\ ordered \in [Halves -> Nat]
  /\ frees \in Nat

Upto(n) == [k \in 1 .. n |-> k]

\* The debug_assert of dispose: the count is at least 1 whenever a half is dropped,
\* because it counts the halves that are still there.
CountExact ==
  Last(rcLog) = Cardinality({h \in Halves : half[h] \in {"live", "raw"}})

\* A value that was sent is received or dropped in place, at most once and in order,
\* whichever half goes first, and neither when the memory goes (test uring_drop).
ExactlyOnce ==
  /\ IsPrefix(rcvdA \o droppedA, Upto(sentA))
  /\ IsPrefix(rcvdB \o droppedB, Upto(sentB))
  /\ frees > 0 => rcvdA \o droppedA = Upto(sentA) /\ rcvdB \o droppedB = Upto(sentB)

\* From the moment a half reads the queues without atomics, every access the other
\* half ever made to the shared memory is ordered before it: this takes the Release
\* of fetch_sub and the Acquire fence ("enforces the deletion of the data to happen
\* after here").
TeardownOrdered ==
  \A h \in Halves : half[h] \in {"fenced", "dropA", "dropB", "freeing", "kept"} =>
     ordered[h] = accesses[Peer(h)]

\* The memory is given back at most once, and then neither half can reach it: what
\* dispose_raw returns "is safe to deallocate without synchronization".
FreedOnce ==
  /\ frees <= 1
  /\ \A h \in Halves : half[h] \in {"freeing", "kept", "done"} => half[Peer(h)] = "gone"

\* is_connected reads the count without ordering.  If it says that the peer is gone,
\* the peer is, and it goes on saying so.
DisconnectedIsFinal ==
  [][\A h \in Halves :
       told[h] = "disconnected" =>
         half[Peer(h)] \notin {"live", "raw"} /\ told'[h] = "disconnected"]_vars

\* In the end everything is reclaimed, even if the two halves are dropped at the same
\* time: some half sees that it is the last.
Reclaimed == <>(frees = 1 /\ half \in [Halves -> {"gone", "done"}])
=============================================================================
