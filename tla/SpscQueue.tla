------------------------------ MODULE SpscQueue ------------------------------
(***************************************************************************)
(* One direction of a uring: `Queue` of evering/src/uring.rs, a lock-free  *)
(* ring shared by one producer and one consumer that run on two threads.   *)
(*                                                                         *)
(* The two indices are atomics and the slots are plain memory, so what a   *)
(* thread may see is not simply the last value written.  Memory is         *)
(* modelled after the C11 rules the code relies on:                        *)
(*   - an atomic is its modification order, the log of the values stored;  *)
(*   - a load returns any entry of the log that is not older than one the  *)
(*     thread has already seen (an old entry is a stale read);             *)
(*   - a thread always sees its own stores;                                *)
(*   - a load that acquires an entry which was stored with release orders  *)
(*     everything its writer did before the store ahead of what the reader *)
(*     does next; the *Sync variables hold how far that order reaches;     *)
(*   - two accesses to one slot that this order does not order are a data  *)
(*     race.                                                               *)
(***************************************************************************)
EXTENDS Integers, Sequences

CONSTANTS Size,      \* slots of the ring (ring_mask + 1)
          Values,    \* what is sent
          Uninit,    \* content of a slot nobody has written
          MaxSend    \* bound on the number of values sent

ASSUME SizeAssumption == Size \in Nat \ {0}
ASSUME UninitAssumption == Uninit \notin Values
ASSUME MaxSendAssumption == MaxSend \in Nat

VARIABLES
  headLog, tailLog,    \* modification orders of Offsets::head and Offsets::tail
  buf,                 \* the slots
  wroteAt, readAt,     \* Len(tailLog) / Len(headLog) at a slot's last write / read
  ppc, pTail, pHead, pVal, pBulk,    \* locals of enqueue and enqueue_bulk
  pSeen, pSync,        \* entry of headLog last seen / last acquired by the producer
  cpc, cHead, cTail, cVal, cBulk,    \* locals of dequeue and of Drain
  cSeen, cSync,        \* entry of tailLog last seen / last acquired by the consumer
  sent, rcvd           \* histories: values published / values handed to the caller

prodVars == <<ppc, pTail, pHead, pVal, pBulk, pSeen, pSync>>
consVars == <<cpc, cHead, cTail, cVal, cBulk, cSeen, cSync>>
vars == <<headLog, tailLog, buf, wroteAt, readAt, prodVars, consVars, sent, rcvd>>

Index == 0 .. Size - 1

-----------------------------------------------------------------------------
(* The memory orderings of the code, and what they give. *)

Relaxed == "Relaxed"   \* mutant of each of the four

TailStore == "Release"
TailLoad  == "Acquire"
HeadStore == "Release"
HeadLoad  == "Acquire"

Synchronizes(store, load) == store = "Release" /\ load = "Acquire"

\* The entry of a log that a thread is ordered after, once it has loaded entry i.
SyncedTo(i, old, store, load) == IF Synchronizes(store, load) THEN i ELSE old

\* A thread's own index: it is the only writer, so it loads its last store.
OwnTail == tailLog[Len(tailLog)]
OwnHead == headLog[Len(headLog)]

\* Offsets::inc, and the distance that Queue::len computes from two loads.
IncNoMask(n) == n + 1   \* mutant: the mask is forgotten
Inc(n) == (n + 1) % Size
Distance(head, tail) == (tail - head) % Size

IsFull(head, tail) == Inc(tail) = head
IsEmpty(head, tail) == head = tail

-----------------------------------------------------------------------------
Init ==
  /\ headLog = <<0>> /\ tailLog = <<0>>
  /\ buf = [s \in Index |-> Uninit]
  /\ wroteAt = [s \in Index |-> 0] /\ readAt = [s \in Index |-> 0]
  /\ ppc = "idle" /\ pTail = 0 /\ pHead = 0 /\ pVal = Uninit /\ pBulk = FALSE
  /\ cpc = "idle" /\ cHead = 0 /\ cTail = 0 /\ cVal = Uninit /\ cBulk = FALSE
  /\ pSeen = 1 /\ pSync = 1 /\ cSeen = 1 /\ cSync = 1
  /\ sent = <<>> /\ rcvd = <<>>

-----------------------------------------------------------------------------
(* The producer. *)

\* The two loads at the top of enqueue and enqueue_bulk, which set pTail, pHead.
ProducerLoads(i) ==
  /\ i \in pSeen .. Len(headLog)
  /\ pSeen' = i
  /\ pSync' = SyncedTo(i, pSync, HeadStore, HeadLoad)
  /\ pTail' = OwnTail
  /\ pHead' = headLog[i]

\* enqueue finds the ring full and gives the value back.
EnqueueFull(i) ==
  /\ ppc = "idle"
  /\ ProducerLoads(i)
  /\ IsFull(headLog[i], OwnTail)
  /\ UNCHANGED <<headLog, tailLog, buf, wroteAt, readAt, ppc, pVal, pBulk,
                 consVars, sent, rcvd>>

\* enqueue goes on to write v.
Enqueue(i, v) ==
  /\ ppc = "idle" /\ Len(sent) < MaxSend
  /\ ProducerLoads(i)
  /\ ~IsFull(headLog[i], OwnTail)
  /\ ppc' = "write" /\ pVal' = v /\ pBulk' = FALSE
  /\ UNCHANGED <<headLog, tailLog, buf, wroteAt, readAt, consVars, sent, rcvd>>

\* enqueue_bulk loads the indices once, for the whole batch.
EnqueueBulk(i) ==
  /\ ppc = "idle"
  /\ ProducerLoads(i)
  /\ ppc' = "loop" /\ pBulk' = TRUE
  /\ UNCHANGED <<headLog, tailLog, buf, wroteAt, readAt, pVal, consVars, sent, rcvd>>

\* Mutant: the loop does not compare with the loaded head again.
BulkTakeUnchecked(v) ==
  /\ ppc = "loop" /\ Len(sent) < MaxSend
  /\ ppc' = "write" /\ pVal' = v
  /\ UNCHANGED <<headLog, tailLog, buf, wroteAt, readAt, pTail, pHead, pBulk,
                 pSeen, pSync, consVars, sent, rcvd>>

\* One turn of its loop: there is room by the loaded head, the iterator yields v.
BulkTake(v) ==
  /\ ppc = "loop" /\ Len(sent) < MaxSend
  /\ ~IsFull(pHead, pTail)
  /\ ppc' = "write" /\ pVal' = v
  /\ UNCHANGED <<headLog, tailLog, buf, wroteAt, readAt, pTail, pHead, pBulk,
                 pSeen, pSync, consVars, sent, rcvd>>

\* The loop ends: no room left, or the iterator is exhausted (at any point).
BulkEnd ==
  /\ ppc = "loop" /\ ppc' = "idle"
  /\ UNCHANGED <<headLog, tailLog, buf, wroteAt, readAt, pTail, pHead, pVal, pBulk,
                 pSeen, pSync, consVars, sent, rcvd>>

\* buf.add(tail).write(val)
WriteSlot ==
  /\ ppc = "write" /\ ppc' = "publish"
  /\ buf' = [buf EXCEPT ![pTail] = pVal]
  /\ wroteAt' = [wroteAt EXCEPT ![pTail] = Len(tailLog)]
  /\ UNCHANGED <<headLog, tailLog, readAt, pTail, pHead, pVal, pBulk, pSeen, pSync,
                 consVars, sent, rcvd>>

\* Mutant: a batch keeps its tail to itself.
PublishTailNoStore ==
  /\ ppc = "publish"
  /\ tailLog' = IF pBulk THEN tailLog ELSE Append(tailLog, Inc(pTail))
  /\ pTail' = Inc(pTail)
  /\ sent' = Append(sent, pVal)
  /\ ppc' = IF pBulk THEN "loop" ELSE "idle"
  /\ UNCHANGED <<headLog, buf, wroteAt, readAt, pHead, pVal, pBulk, pSeen, pSync,
                 consVars, rcvd>>

\* off.tail.store(next_tail); a batch loops with tail = next_tail.
PublishTail ==
  /\ ppc = "publish"
  /\ tailLog' = Append(tailLog, Inc(pTail))
  /\ pTail' = Inc(pTail)
  /\ sent' = Append(sent, pVal)
  /\ ppc' = IF pBulk THEN "loop" ELSE "idle"
  /\ UNCHANGED <<headLog, buf, wroteAt, readAt, pHead, pVal, pBulk, pSeen, pSync,
                 consVars, rcvd>>

\* len() on the producer's side: a relaxed load, which sees and orders nothing.
ProducerLen(i) ==
  /\ ppc = "idle" /\ i \in pSeen .. Len(headLog)
  /\ pSeen' = i
  /\ UNCHANGED <<headLog, tailLog, buf, wroteAt, readAt, ppc, pTail, pHead, pVal,
                 pBulk, pSync, consVars, sent, rcvd>>

-----------------------------------------------------------------------------
(* The consumer. *)

\* The two loads at the top of dequeue and dequeue_bulk, which set cHead, cTail.
ConsumerLoads(j) ==
  /\ j \in cSeen .. Len(tailLog)
  /\ cSeen' = j
  /\ cSync' = SyncedTo(j, cSync, TailStore, TailLoad)
  /\ cHead' = OwnHead
  /\ cTail' = tailLog[j]

\* dequeue finds the ring empty and returns None.
DequeueEmpty(j) ==
  /\ cpc = "idle"
  /\ ConsumerLoads(j)
  /\ IsEmpty(OwnHead, tailLog[j])
  /\ UNCHANGED <<headLog, tailLog, buf, wroteAt, readAt, prodVars, cpc, cVal, cBulk,
                 sent, rcvd>>

Dequeue(j) ==
  /\ cpc = "idle"
  /\ ConsumerLoads(j)
  /\ ~IsEmpty(OwnHead, tailLog[j])
  /\ cpc' = "read" /\ cBulk' = FALSE
  /\ UNCHANGED <<headLog, tailLog, buf, wroteAt, readAt, prodVars, cVal, sent, rcvd>>

\* dequeue_bulk loads the indices into a Drain.
DequeueBulk(j) ==
  /\ cpc = "idle"
  /\ ConsumerLoads(j)
  /\ cpc' = "drain" /\ cBulk' = TRUE
  /\ UNCHANGED <<headLog, tailLog, buf, wroteAt, readAt, prodVars, cVal, sent, rcvd>>

\* Mutant: the snapshot of the tail is not consulted.
DrainNextUnchecked ==
  /\ cpc = "drain" /\ Len(rcvd) < MaxSend
  /\ cpc' = "read"
  /\ UNCHANGED <<headLog, tailLog, buf, wroteAt, readAt, prodVars, cHead, cTail, cVal,
                 cBulk, cSeen, cSync, sent, rcvd>>

\* Drain::next finds a value between its own head and its snapshot of the tail.
DrainNext ==
  /\ cpc = "drain" /\ ~IsEmpty(cHead, cTail)
  /\ cpc' = "read"
  /\ UNCHANGED <<headLog, tailLog, buf, wroteAt, readAt, prodVars, cHead, cTail, cVal,
                 cBulk, cSeen, cSync, sent, rcvd>>

\* The Drain is exhausted, or its owner drops it before that.
DrainEnd ==
  /\ cpc = "drain" /\ cpc' = "idle"
  /\ UNCHANGED <<headLog, tailLog, buf, wroteAt, readAt, prodVars, cHead, cTail, cVal,
                 cBulk, cSeen, cSync, sent, rcvd>>

\* buf.add(head).read()
ReadSlot ==
  /\ cpc = "read" /\ cpc' = "publish"
  /\ cVal' = buf[cHead]
  /\ readAt' = [readAt EXCEPT ![cHead] = Len(headLog)]
  /\ UNCHANGED <<headLog, tailLog, buf, wroteAt, prodVars, cHead, cTail, cBulk, cSeen,
                 cSync, sent, rcvd>>

\* off.head.store(next_head), and the value goes to the caller.
PublishHead ==
  /\ cpc = "publish"
  /\ headLog' = Append(headLog, Inc(cHead))
  /\ cHead' = Inc(cHead)
  /\ rcvd' = Append(rcvd, cVal)
  /\ cpc' = IF cBulk THEN "drain" ELSE "idle"
  /\ UNCHANGED <<tailLog, buf, wroteAt, readAt, prodVars, cTail, cVal, cBulk, cSeen,
                 cSync, sent>>

ConsumerLen(j) ==
  /\ cpc = "idle" /\ j \in cSeen .. Len(tailLog)
  /\ cSeen' = j
  /\ UNCHANGED <<headLog, tailLog, buf, wroteAt, readAt, prodVars, cpc, cHead, cTail,
                 cVal, cBulk, cSync, sent, rcvd>>

-----------------------------------------------------------------------------
Producer ==
  \/ \E i \in 1 .. Len(headLog) :
       \/ EnqueueFull(i) \/ EnqueueBulk(i) \/ ProducerLen(i)
       \/ \E v \in Values : Enqueue(i, v)
  \/ \E v \in Values : BulkTake(v)
  \/ BulkEnd \/ WriteSlot \/ PublishTail

Consumer ==
  \/ \E j \in 1 .. Len(tailLog) :
       DequeueEmpty(j) \/ Dequeue(j) \/ DequeueBulk(j) \/ ConsumerLen(j)
  \/ DrainNext \/ DrainEnd \/ ReadSlot \/ PublishHead

Next == Producer \/ Consumer

Spec == Init /\ [][Next]_vars

(***************************************************************************)
(* Fairness.  Every user of the library polls its receiving end in a loop  *)
(* (RunOn::poll once per turn of the executor, the servers in a `loop`),   *)
(* and the language guarantees that a store becomes visible in finite      *)
(* time: the consumer, when idle, sooner or later starts a receive that    *)
(* loads the latest tail.  An operation that has begun is carried on by    *)
(* its thread.  Nothing is assumed of how often the producer sends.        *)
(***************************************************************************)
FreshDequeue == Dequeue(Len(tailLog))

Fairness ==
  /\ WF_vars(WriteSlot) /\ WF_vars(PublishTail) /\ WF_vars(BulkEnd)
  /\ SF_vars(FreshDequeue)
  /\ WF_vars(DrainNext) /\ WF_vars(DrainEnd)
  /\ WF_vars(ReadSlot) /\ WF_vars(PublishHead)

FairSpec == Spec /\ Fairness

-----------------------------------------------------------------------------
(* Properties. *)

\* Every variable has its type; in particular an index never leaves the ring.
TypeOK ==
  /\ headLog \in Seq(Index) /\ tailLog \in Seq(Index)
  /\ buf \in [Index -> Values \cup {Uninit}]
  /\ wroteAt \in [Index -> Nat] /\ readAt \in [Index -> Nat]
  /\ ppc \in {"idle", "loop", "write", "publish"}
  /\ cpc \in {"idle", "drain", "read", "publish"}
  /\ pTail \in Index /\ pHead \in Index /\ cHead \in Index /\ cTail \in Index
  /\ pVal \in Values \cup {Uninit} /\ cVal \in Values \cup {Uninit}
  /\ pBulk \in BOOLEAN /\ cBulk \in BOOLEAN
  /\ pSeen \in 1 .. Len(headLog) /\ pSync \in 1 .. Len(headLog)
  /\ cSeen \in 1 .. Len(tailLog) /\ cSync \in 1 .. Len(tailLog)
  /\ sent \in Seq(Values) /\ rcvd \in Seq(Values \cup {Uninit})

\* Before the producer writes a slot, the memory order puts the consumer's last
\* read of it first; before the consumer reads one, the producer's last write of
\* it.  This is what the Release stores and Acquire loads of enqueue, dequeue and
\* Drain::next are for, also when one load serves a whole batch.
NoDataRace ==
  /\ ppc = "write" => readAt[pTail] < pSync
  /\ cpc = "read" => wroteAt[cHead] < cSync

\* The tests `next_tail == head` and `head == tail` compare wrapped indices, one of
\* which may be stale.  Whatever entry the load returns, the producer finds the ring
\* full exactly when all its Size - 1 usable slots are taken as far as that entry
\* tells, and the consumer finds it empty exactly when it has read all that the
\* entry it loads published: no staleness makes a full ring look empty.
FullEmptyExact ==
  /\ \A i \in pSeen .. Len(headLog) :
       IsFull(headLog[i], OwnTail) <=> Len(tailLog) - i = Size - 1
  /\ \A j \in cSeen .. Len(tailLog) :
       IsEmpty(OwnHead, tailLog[j]) <=> j = Len(headLog)

\* Queue::len from a stale load errs on the safe side: on the producer's side it is
\* never below the number of values in the ring, on the consumer's never above,
\* and it never exceeds the capacity.
LenBounds ==
  LET len == Len(tailLog) - Len(headLog)
  IN  /\ \A i \in pSeen .. Len(headLog) :
           Distance(headLog[i], OwnTail) \in len .. Size - 1
      /\ \A j \in cSeen .. Len(tailLog) :
           Distance(OwnHead, tailLog[j]) \in 0 .. len

\* The ring is a bounded FIFO channel: a value is on the channel from the store of
\* the tail to the store of the head, and the caller gets the values unchanged, each
\* once, in the order sent (the Drain and the batch included).
InFlight == SubSeq(sent, Len(rcvd) + 1, Len(sent))
Ch == INSTANCE Channel WITH chan <- InFlight, Cap <- Size - 1
RefinesChannel == Ch!Spec

\* Every value sent is received in the end, if the consumer keeps polling, whatever
\* mixture of dequeue, Drain and abandoned Drain it polls with.
EverythingArrives ==
  \A n \in 1 .. MaxSend : (Len(sent) >= n) ~> (Len(rcvd) >= n)
=============================================================================
