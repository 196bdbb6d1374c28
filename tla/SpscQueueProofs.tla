-------------------------- MODULE SpscQueueProofs --------------------------
(***************************************************************************)
(* Proofs about SpscQueue, for a ring of any size and any set of values.   *)
(*                                                                         *)
(* The argument.  Number the stores: the k-th entry of a log is the index  *)
(* of slot Slot(k).  With H = Len(headLog) and T = Len(tailLog), the ring  *)
(* holds the values number H .. T-1, and the order                         *)
(*     pSync <= pSeen <= H <= cSync <= cSeen <= T <= pSync + Size - 1      *)
(* between what has happened and what each side has acquired of it is      *)
(* inductive.  Any two numbers in play are less than Size apart, so their  *)
(* slots differ unless they are equal: comparing wrapped indices is        *)
(* comparing numbers, and two accesses to one slot are either ordered or   *)
(* a whole lap apart.                                                      *)
(***************************************************************************)
EXTENDS SpscQueue, Facts

\* The slot that the k-th store of an index names.
Slot(k) == (k - 1) % Size

LogInv ==
  /\ \A k \in 1 .. Len(headLog) : headLog[k] = Slot(k)
  /\ \A k \in 1 .. Len(tailLog) : tailLog[k] = Slot(k)

\* What has happened and what each side knows of it.
OrderInv ==
  /\ pSync <= pSeen /\ Len(headLog) <= cSync /\ cSync <= cSeen
  /\ Len(tailLog) - pSync <= Size - 1

ProducerInv ==
  /\ ppc # "idle" => pTail = Slot(Len(tailLog)) /\ pHead = Slot(pSync)
  /\ ppc \in {"write", "publish"} => Len(tailLog) - pSync <= Size - 2 /\ pVal \in Values

ConsumerInv ==
  /\ cpc # "idle" => cHead = Slot(Len(headLog)) /\ cTail = Slot(cSync)
  /\ cpc \in {"read", "publish"} => Len(headLog) < cSync

\* The last access to a slot carries a number of that slot, and is at the current
\* number only between the access and the store that publishes it.
AccessInv ==
  \A s \in Index :
    /\ readAt[s] # 0 => /\ readAt[s] <= Len(headLog) /\ Slot(readAt[s]) = s
                        /\ readAt[s] = Len(headLog) => cpc = "publish"
    /\ wroteAt[s] # 0 => /\ wroteAt[s] <= Len(tailLog) /\ Slot(wroteAt[s]) = s
                         /\ wroteAt[s] = Len(tailLog) => ppc = "publish"

\* The slots between head and tail hold what was sent and not yet received.
DataInv ==
  /\ Len(sent) = Len(tailLog) - 1 /\ Len(rcvd) = Len(headLog) - 1
  /\ \A k \in Len(headLog) .. Len(tailLog) - 1 : buf[Slot(k)] = sent[k]
  /\ ppc = "publish" => buf[pTail] = pVal
  /\ cpc = "publish" => cVal = sent[Len(headLog)]
  /\ \A k \in 1 .. Len(rcvd) : rcvd[k] = sent[k]

IInv == /\ TypeOK /\ LogInv /\ OrderInv /\ ProducerInv
        /\ ConsumerInv /\ AccessInv /\ DataInv

-----------------------------------------------------------------------------
(* Slots. *)

LEMMA SlotType == ASSUME NEW k \in Int PROVE Slot(k) \in Index
  BY SizeAssumption, DivMod DEF Slot, Index

LEMMA SlotOne == Slot(1) = 0
  BY SizeAssumption, ModSmall DEF Slot

LEMMA IncSlot == ASSUME NEW k \in Int PROVE Inc(Slot(k)) = Slot(k + 1)
<1> DEFINE n == k - 1
<1>1. n \in Int /\ n + 1 = (k + 1) - 1
  OBVIOUS
<1> HIDE DEF n
<1>2. ((n % Size) + 1) % Size = (n + 1) % Size
  BY <1>1, SizeAssumption, ModInc
<1> QED
  BY <1>1, <1>2 DEF Slot, Inc, n

LEMMA SlotApart ==
  ASSUME NEW a \in Int, NEW b \in Int, a < b, b - a < Size
  PROVE  Slot(a) # Slot(b)
<1> DEFINE m == a - 1
           n == b - 1
<1>1. m \in Int /\ n \in Int /\ m < n /\ n - m < Size
  BY SizeAssumption
<1> HIDE DEF m, n
<1>2. m % Size # n % Size
  BY <1>1, SizeAssumption, ModApart
<1> QED
  BY <1>2 DEF Slot, m, n

\* The two tests of the code, on indices that are less than a lap apart.
LEMMA FullSlot ==
  ASSUME NEW i \in Int, NEW t \in Int, i <= t, t - i <= Size - 1
  PROVE  IsFull(Slot(i), Slot(t)) <=> t - i = Size - 1
<1>1. CASE t - i = Size - 1
  <2> DEFINE n == i - 1
  <2>1. n \in Int /\ (t + 1) - 1 = n + Size
    BY <1>1, SizeAssumption
  <2> HIDE DEF n
  <2>2. Slot(t + 1) = n % Size
    BY <2>1, SizeAssumption, ModAdd DEF Slot
  <2>3. Slot(i) = n % Size
    BY DEF Slot, n
  <2> QED
    BY <1>1, <2>2, <2>3, IncSlot DEF IsFull
<1>2. CASE t - i < Size - 1
  BY <1>2, IncSlot, SlotApart, SizeAssumption DEF IsFull
<1> QED
  BY <1>1, <1>2, SizeAssumption

LEMMA EmptySlot ==
  ASSUME NEW h \in Int, NEW j \in Int, h <= j, j - h <= Size - 1
  PROVE  IsEmpty(Slot(h), Slot(j)) <=> j = h
  BY SlotApart, SizeAssumption DEF IsEmpty

LEMMA DistanceSlot ==
  ASSUME NEW h \in Int, NEW t \in Int, h <= t, t - h <= Size - 1
  PROVE  Distance(Slot(h), Slot(t)) = t - h
<1> DEFINE m == h - 1
           n == t - 1
<1>1. m \in Int /\ n \in Int /\ m <= n /\ n - m < Size /\ n - m = t - h
  BY SizeAssumption
<1> HIDE DEF m, n
<1>2. ((n % Size) - (m % Size)) % Size = n - m
  BY <1>1, SizeAssumption, ModDiff
<1> QED
  BY <1>1, <1>2 DEF Distance, Slot, m, n

-----------------------------------------------------------------------------
(* The invariant. *)

LEMMA InitInv == Init => IInv
<1> SUFFICES ASSUME Init PROVE IInv
  OBVIOUS
<1> USE SizeAssumption, UninitAssumption DEF Init
<1>1. TypeOK
  BY DEF TypeOK, Index
<1>2. LogInv
  BY SlotOne DEF LogInv
<1>3. OrderInv /\ ProducerInv /\ ConsumerInv
  BY DEF OrderInv, ProducerInv, ConsumerInv
<1>4. AccessInv
  BY DEF AccessInv
<1>5. DataInv
  BY DEF DataInv
<1> QED
  BY <1>1, <1>2, <1>3, <1>4, <1>5 DEF IInv

\* The order of the numbers, as numbers.
LEMMA Order ==
  ASSUME TypeOK, OrderInv
  PROVE  /\ pSync \in Nat /\ pSeen \in Nat /\ cSync \in Nat /\ cSeen \in Nat
         /\ Len(headLog) \in Nat /\ Len(tailLog) \in Nat
         /\ 1 <= pSync /\ pSync <= pSeen /\ pSeen <= Len(headLog)
         /\ Len(headLog) <= cSync /\ cSync <= cSeen /\ cSeen <= Len(tailLog)
         /\ Len(tailLog) - pSync <= Size - 1
<1>1. /\ headLog \in Seq(Index) /\ tailLog \in Seq(Index)
      /\ pSeen \in 1 .. Len(headLog) /\ pSync \in 1 .. Len(headLog)
      /\ cSeen \in 1 .. Len(tailLog) /\ cSync \in 1 .. Len(tailLog)
  BY DEF TypeOK
<1>2. Len(headLog) \in Nat /\ Len(tailLog) \in Nat
  BY <1>1
<1>3. pSync <= pSeen /\ Len(headLog) <= cSync /\ cSync <= cSeen
  BY DEF OrderInv
<1>4. Len(tailLog) - pSync <= Size - 1
  BY DEF OrderInv
<1> QED
  BY <1>1, <1>2, <1>3, <1>4

\* The producer's loads.
LEMMA ProducerLoadsInv ==
  ASSUME IInv, NEW i \in 1 .. Len(headLog), ProducerLoads(i),
         UNCHANGED <<headLog, tailLog, cSeen, cSync>>
  PROVE  /\ pSeen' = i /\ pSync' = i /\ i \in pSeen .. Len(headLog)
         /\ pTail' = Slot(Len(tailLog)) /\ pHead' = Slot(i)
         /\ pTail' \in Index /\ pHead' \in Index
         /\ OrderInv' /\ Len(tailLog) - i <= Size - 1
         /\ IsFull(headLog[i], OwnTail) <=> Len(tailLog) - i = Size - 1
<1>1. /\ pSeen' = i /\ pSync' = i /\ i \in pSeen .. Len(headLog)
      /\ pTail' = tailLog[Len(tailLog)] /\ pHead' = headLog[i]
  BY DEF ProducerLoads, SyncedTo, Synchronizes, HeadStore, HeadLoad, OwnTail
<1>2. /\ tailLog[Len(tailLog)] = Slot(Len(tailLog)) /\ headLog[i] = Slot(i)
      /\ Len(tailLog) \in Int /\ i \in Int
  <2>1. LogInv
    BY DEF IInv
  <2>2. Len(tailLog) \in Nat /\ 1 <= Len(tailLog) /\ Len(headLog) \in Nat
    BY Order DEF IInv
  <2>3. Len(tailLog) \in 1 .. Len(tailLog) /\ i \in Int
    BY <2>2
  <2> QED
    BY <2>1, <2>2, <2>3 DEF LogInv
<1>3. OrderInv' /\ Len(tailLog) - i <= Size - 1 /\ i <= Len(tailLog)
  BY <1>1, Order, SizeAssumption DEF IInv, OrderInv
<1>4. IsFull(headLog[i], OwnTail) <=> Len(tailLog) - i = Size - 1
  BY <1>2, <1>3, FullSlot DEF OwnTail
<1> QED
  BY <1>1, <1>2, <1>3, <1>4, SlotType

\* The consumer's loads.
LEMMA ConsumerLoadsInv ==
  ASSUME IInv, NEW j \in 1 .. Len(tailLog), ConsumerLoads(j),
         UNCHANGED <<headLog, tailLog, pSeen, pSync>>
  PROVE  /\ cSeen' = j /\ cSync' = j /\ j \in cSeen .. Len(tailLog)
         /\ cHead' = Slot(Len(headLog)) /\ cTail' = Slot(j)
         /\ cHead' \in Index /\ cTail' \in Index
         /\ OrderInv' /\ Len(headLog) <= j
         /\ IsEmpty(OwnHead, tailLog[j]) <=> j = Len(headLog)
<1>1. /\ cSeen' = j /\ cSync' = j /\ j \in cSeen .. Len(tailLog)
      /\ cHead' = headLog[Len(headLog)] /\ cTail' = tailLog[j]
  BY DEF ConsumerLoads, SyncedTo, Synchronizes, TailStore, TailLoad, OwnHead
<1>2. /\ headLog[Len(headLog)] = Slot(Len(headLog)) /\ tailLog[j] = Slot(j)
      /\ Len(headLog) \in Int /\ j \in Int
  <2>1. LogInv
    BY DEF IInv
  <2>2. Len(headLog) \in Nat /\ 1 <= Len(headLog) /\ Len(tailLog) \in Nat
    BY Order DEF IInv
  <2>3. Len(headLog) \in 1 .. Len(headLog) /\ j \in Int
    BY <2>2
  <2> QED
    BY <2>1, <2>2, <2>3 DEF LogInv
<1>3. OrderInv' /\ Len(headLog) <= j /\ j - Len(headLog) <= Size - 1
  BY <1>1, Order, SizeAssumption DEF IInv, OrderInv
<1>4. IsEmpty(OwnHead, tailLog[j]) <=> j = Len(headLog)
  BY <1>2, <1>3, EmptySlot DEF OwnHead
<1> QED
  BY <1>1, <1>2, <1>3, <1>4, SlotType

-----------------------------------------------------------------------------
(* One lemma per kind of step. *)

\* Loading and looking, and the moves that leave the memory alone: the producer.
LEMMA ProducerLoadStep ==
  ASSUME IInv, NEW i \in 1 .. Len(headLog),
         \/ EnqueueFull(i) \/ EnqueueBulk(i) \/ ProducerLen(i)
         \/ \E v \in Values : Enqueue(i, v)
  PROVE  IInv'
<1>1. /\ UNCHANGED <<headLog, tailLog, buf, wroteAt, readAt, sent, rcvd>>
      /\ UNCHANGED <<cpc, cHead, cTail, cVal, cBulk, cSeen, cSync>>
      /\ ppc = "idle" /\ ppc' \in {"idle", "loop", "write"} /\ pBulk' \in BOOLEAN
      /\ ppc' = "write" => pVal' \in Values
      /\ pVal' \in Values \cup {Uninit}
  BY DEF IInv, TypeOK, EnqueueFull, EnqueueBulk, ProducerLen, Enqueue, consVars
<1>2. CASE ProducerLen(i)
  <2>1. /\ pSeen' = i /\ i \in pSeen .. Len(headLog)
        /\ UNCHANGED <<ppc, pTail, pHead, pVal, pBulk, pSync>>
    BY <1>2 DEF ProducerLen
  <2>2. i \in Nat /\ pSync <= i
    BY <2>1, Order DEF IInv
  <2>3. TypeOK'
    BY <1>1, <2>1 DEF IInv, TypeOK
  <2>4. OrderInv'
    BY <1>1, <2>1, <2>2 DEF IInv, OrderInv
  <2>5. LogInv' /\ ProducerInv' /\ ConsumerInv'
    BY <1>1, <2>1 DEF IInv, LogInv, ProducerInv, ConsumerInv
  <2>6. AccessInv'
    BY <1>1, <2>1 DEF IInv, AccessInv
  <2>7. DataInv'
    BY <1>1, <2>1 DEF IInv, DataInv
  <2> QED
    BY <2>3, <2>4, <2>5, <2>6, <2>7 DEF IInv
<1>3. CASE EnqueueFull(i) \/ EnqueueBulk(i) \/ \E v \in Values : Enqueue(i, v)
  <2>1. ProducerLoads(i) /\ UNCHANGED <<headLog, tailLog, cSeen, cSync>>
    BY <1>3 DEF EnqueueFull, EnqueueBulk, Enqueue, consVars
  <2>2. /\ pSeen' = i /\ pSync' = i /\ i \in pSeen .. Len(headLog)
        /\ pTail' = Slot(Len(tailLog)) /\ pHead' = Slot(i)
        /\ pTail' \in Index /\ pHead' \in Index
        /\ OrderInv' /\ Len(tailLog) - i <= Size - 1
        /\ IsFull(headLog[i], OwnTail) <=> Len(tailLog) - i = Size - 1
    BY <2>1, ProducerLoadsInv
  <2>3. ppc' = "write" => Len(tailLog) - i <= Size - 2
    <3>1. ppc' = "write" => ~IsFull(headLog[i], OwnTail)
      BY <1>1, <1>3 DEF EnqueueFull, EnqueueBulk, Enqueue
    <3>2. /\ i \in Int /\ Len(tailLog) \in Int /\ Len(tailLog) - i <= Size - 1
          /\ IsFull(headLog[i], OwnTail) <=> Len(tailLog) - i = Size - 1
      BY <2>2, Order DEF IInv
    <3> QED
      BY <3>1, <3>2, SizeAssumption
  <2>4. TypeOK'
    BY <1>1, <2>2, Order DEF IInv, TypeOK
  <2>5. ProducerInv'
    BY <1>1, <2>2, <2>3 DEF ProducerInv
  <2>6. LogInv' /\ ConsumerInv'
    BY <1>1 DEF IInv, LogInv, ConsumerInv
  <2>7. AccessInv'
    BY <1>1 DEF IInv, AccessInv
  <2>8. DataInv'
    BY <1>1 DEF IInv, DataInv
  <2> QED
    BY <2>2, <2>4, <2>5, <2>6, <2>7, <2>8 DEF IInv
<1> QED
  BY <1>2, <1>3

\* One more value of a batch, and its end.
LEMMA BulkStep ==
  ASSUME IInv, BulkEnd \/ \E v \in Values : BulkTake(v)
  PROVE  IInv'
<1>1. /\ UNCHANGED <<headLog, tailLog, buf, wroteAt, readAt, consVars, sent, rcvd>>
      /\ UNCHANGED <<pTail, pHead, pBulk, pSeen, pSync>>
      /\ ppc = "loop" /\ ppc' \in {"idle", "write"}
  BY DEF BulkEnd, BulkTake
<1>2. /\ ppc' = "write" => ~IsFull(pHead, pTail) /\ pVal' \in Values
      /\ pVal' \in Values \cup {Uninit}
  BY DEF BulkEnd, BulkTake, IInv, TypeOK
<1>3. pTail = Slot(Len(tailLog)) /\ pHead = Slot(pSync)
  BY <1>1 DEF IInv, ProducerInv
<1>4. IsFull(pHead, pTail) <=> Len(tailLog) - pSync = Size - 1
  BY <1>3, Order, FullSlot DEF IInv
<1>5. ppc' = "write" => Len(tailLog) - pSync <= Size - 2
  BY <1>2, <1>4, Order, SizeAssumption DEF IInv
<1>6. TypeOK'
  BY <1>1, <1>2 DEF IInv, TypeOK, consVars
<1>7. ProducerInv'
  BY <1>1, <1>2, <1>3, <1>5 DEF ProducerInv
<1>8. LogInv' /\ OrderInv' /\ ConsumerInv'
  BY <1>1 DEF IInv, LogInv, OrderInv, ConsumerInv, consVars
<1>9. AccessInv' /\ DataInv'
  BY <1>1 DEF IInv, AccessInv, DataInv, consVars
<1> QED
  BY <1>6, <1>7, <1>8, <1>9 DEF IInv

\* Writing the slot at the tail overwrites nothing that was sent and not received.
LEMMA WriteSlotStep == ASSUME IInv, WriteSlot PROVE IInv'
<1>1. /\ UNCHANGED <<headLog, tailLog, readAt, consVars, sent, rcvd>>
      /\ UNCHANGED <<pTail, pHead, pVal, pBulk, pSeen, pSync>>
      /\ ppc = "write" /\ ppc' = "publish"
      /\ buf' = [buf EXCEPT ![pTail] = pVal]
      /\ wroteAt' = [wroteAt EXCEPT ![pTail] = Len(tailLog)]
  BY DEF WriteSlot
<1>2. /\ pTail = Slot(Len(tailLog)) /\ pTail \in Index
      /\ Len(tailLog) - pSync <= Size - 2 /\ pVal \in Values
      /\ pHead = Slot(pSync)
  BY <1>1 DEF IInv, ProducerInv, TypeOK
<1>3. TypeOK'
  BY <1>1, <1>2, Order DEF IInv, TypeOK, consVars
<1>4. LogInv' /\ OrderInv' /\ ConsumerInv'
  BY <1>1 DEF IInv, LogInv, OrderInv, ConsumerInv, consVars
<1>5. ProducerInv'
  BY <1>1, <1>2 DEF ProducerInv
<1>6. AccessInv'
  <2> SUFFICES ASSUME NEW s \in Index
      PROVE  /\ readAt'[s] # 0 => /\ readAt'[s] <= Len(headLog') /\ Slot(readAt'[s]) = s
                                  /\ readAt'[s] = Len(headLog') => cpc' = "publish"
             /\ wroteAt'[s] # 0 => /\ wroteAt'[s] <= Len(tailLog') /\ Slot(wroteAt'[s]) = s
                                   /\ wroteAt'[s] = Len(tailLog') => ppc' = "publish"
    BY DEF AccessInv
  <2>1. wroteAt'[s] = IF s = pTail THEN Len(tailLog) ELSE wroteAt[s]
    BY <1>1, <1>2 DEF IInv, TypeOK
  <2> QED
    BY <1>1, <1>2, <2>1, Order DEF IInv, AccessInv, consVars
<1>7. DataInv'
  <2>1. \A k \in Len(headLog) .. Len(tailLog) - 1 : buf'[Slot(k)] = sent[k]
    <3> SUFFICES ASSUME NEW k \in Len(headLog) .. Len(tailLog) - 1
                 PROVE  buf'[Slot(k)] = sent[k]
      OBVIOUS
    <3>1. k \in Int /\ Len(tailLog) \in Int /\ k < Len(tailLog) /\ Len(tailLog) - k < Size
      BY <1>2, Order, SizeAssumption DEF IInv
    <3>2. Slot(k) # pTail /\ Slot(k) \in Index
      BY <1>2, <3>1, SlotApart, SlotType
    <3> QED
      BY <1>1, <3>2 DEF IInv, DataInv, TypeOK
  <2>2. buf'[pTail] = pVal
    BY <1>1, <1>2 DEF IInv, TypeOK
  <2> QED
    BY <1>1, <2>1, <2>2 DEF IInv, DataInv, consVars
<1> QED
  BY <1>3, <1>4, <1>5, <1>6, <1>7 DEF IInv

\* Publishing the written slot.
LEMMA PublishTailStep == ASSUME IInv, PublishTail PROVE IInv'
<1> DEFINE T == Len(tailLog)
<1>1. /\ UNCHANGED <<headLog, buf, wroteAt, readAt, rcvd>>
      /\ UNCHANGED <<cpc, cHead, cTail, cVal, cBulk, cSeen, cSync>>
      /\ UNCHANGED <<pHead, pVal, pBulk, pSeen, pSync>>
      /\ ppc = "publish" /\ ppc' \in {"loop", "idle"}
      /\ tailLog' = Append(tailLog, Inc(pTail)) /\ pTail' = Inc(pTail)
      /\ sent' = Append(sent, pVal)
  BY DEF PublishTail, consVars
<1>2. /\ pTail = Slot(T) /\ T - pSync <= Size - 2 /\ pVal \in Values
      /\ pHead = Slot(pSync) /\ buf[pTail] = pVal
  BY <1>1 DEF IInv, ProducerInv, DataInv
<1>3. /\ T \in Nat /\ T >= 1 /\ tailLog \in Seq(Index) /\ sent \in Seq(Values)
      /\ Len(sent) = T - 1
  <2>1. T \in Nat /\ T >= 1
    BY Order DEF IInv
  <2>2. tailLog \in Seq(Index) /\ sent \in Seq(Values) /\ Len(sent) = T - 1
    BY DEF IInv, TypeOK, DataInv
  <2> QED
    BY <2>1, <2>2
<1>4. Inc(pTail) = Slot(T + 1) /\ Slot(T + 1) \in Index
  BY <1>2, <1>3, IncSlot, SlotType
<1>5. /\ tailLog' \in Seq(Index) /\ Len(tailLog') = T + 1
      /\ tailLog'[T + 1] = Slot(T + 1)
      /\ \A k \in 1 .. T : tailLog'[k] = tailLog[k]
  BY <1>1, <1>3, <1>4
<1>6. /\ sent' \in Seq(Values) /\ Len(sent') = T /\ sent'[T] = pVal
      /\ \A k \in 1 .. T - 1 : sent'[k] = sent[k]
  BY <1>1, <1>2, <1>3
<1>7. TypeOK'
  <2>1. cSeen \in 1 .. Len(tailLog') /\ cSync \in 1 .. Len(tailLog')
    BY <1>3, <1>5, Order DEF IInv
  <2> QED
    BY <1>1, <1>4, <1>5, <1>6, <2>1 DEF IInv, TypeOK
<1>8. LogInv'
  BY <1>1, <1>3, <1>5 DEF IInv, LogInv
<1>9. OrderInv'
  BY <1>1, <1>2, <1>3, <1>5, Order, SizeAssumption DEF IInv, OrderInv
<1>10. ProducerInv' /\ ConsumerInv'
  BY <1>1, <1>2, <1>4, <1>5 DEF IInv, ProducerInv, ConsumerInv
<1>11. AccessInv'
  <2>1. \A s \in Index : wroteAt[s] \in Nat
    BY DEF IInv, TypeOK
  <2> QED
    BY <1>1, <1>3, <1>5, <2>1 DEF IInv, AccessInv
<1>12. DataInv'
  <2>1. \A k \in Len(headLog) .. T : buf[Slot(k)] = sent'[k]
    <3> SUFFICES ASSUME NEW k \in Len(headLog) .. T PROVE buf[Slot(k)] = sent'[k]
      OBVIOUS
    <3>1. CASE k = T
      BY <1>2, <1>6, <3>1
    <3>2. CASE k # T
      <4>1. k \in Len(headLog) .. T - 1 /\ k \in 1 .. T - 1
        BY <1>3, <3>2, Order DEF IInv
      <4> QED
        BY <1>6, <4>1 DEF IInv, DataInv
    <3> QED
      BY <3>1, <3>2
  <2>2. cpc = "publish" => cVal = sent'[Len(headLog)]
    <3>1. cpc = "publish" => Len(headLog) \in 1 .. T - 1
      BY <1>3, Order DEF IInv, ConsumerInv
    <3> QED
      BY <1>6, <3>1 DEF IInv, DataInv
  <2>3. \A k \in 1 .. Len(rcvd) : rcvd[k] = sent'[k]
    <3> SUFFICES ASSUME NEW k \in 1 .. Len(rcvd) PROVE rcvd[k] = sent'[k]
      OBVIOUS
    <3>1. Len(rcvd) = Len(headLog) - 1 /\ rcvd[k] = sent[k]
      BY DEF IInv, DataInv
    <3>2. Len(headLog) \in Nat /\ Len(headLog) <= T
      BY Order DEF IInv
    <3>3. k \in 1 .. T - 1
      BY <1>3, <3>1, <3>2
    <3> QED
      BY <1>6, <3>1, <3>3
  <2>4. Len(sent') = Len(tailLog') - 1 /\ Len(tailLog') - 1 = T
    BY <1>3, <1>5, <1>6
  <2>5. ppc' # "publish" /\ Len(rcvd) = Len(headLog) - 1
    BY <1>1 DEF IInv, DataInv
  <2> QED
    BY <1>1, <2>1, <2>2, <2>3, <2>4, <2>5 DEF DataInv
<1> QED
  BY <1>7, <1>8, <1>9, <1>10, <1>11, <1>12 DEF IInv

\* Loading and looking: the consumer.
LEMMA ConsumerLoadStep ==
  ASSUME IInv, NEW j \in 1 .. Len(tailLog),
         DequeueEmpty(j) \/ Dequeue(j) \/ DequeueBulk(j) \/ ConsumerLen(j)
  PROVE  IInv'
<1>1. /\ UNCHANGED <<headLog, tailLog, buf, wroteAt, readAt, sent, rcvd, cVal>>
      /\ UNCHANGED <<ppc, pTail, pHead, pVal, pBulk, pSeen, pSync>>
      /\ cpc = "idle" /\ cpc' \in {"idle", "drain", "read"} /\ cBulk' \in BOOLEAN
  BY DEF IInv, TypeOK, DequeueEmpty, Dequeue, DequeueBulk, ConsumerLen, prodVars
<1>2. AccessInv'
  BY <1>1 DEF IInv, AccessInv
<1>3. DataInv'
  BY <1>1 DEF IInv, DataInv
<1>4. LogInv' /\ ProducerInv'
  BY <1>1 DEF IInv, LogInv, ProducerInv
<1>5. CASE ConsumerLen(j)
  <2>1. /\ cSeen' = j /\ j \in cSeen .. Len(tailLog)
        /\ UNCHANGED <<cpc, cHead, cTail, cBulk, cSync>>
    BY <1>5 DEF ConsumerLen
  <2>2. j \in Nat /\ cSync <= j
    BY <2>1, Order DEF IInv
  <2>3. TypeOK'
    BY <1>1, <2>1 DEF IInv, TypeOK
  <2>4. OrderInv'
    BY <1>1, <2>1, <2>2 DEF IInv, OrderInv
  <2>5. ConsumerInv'
    BY <1>1, <2>1 DEF IInv, ConsumerInv
  <2> QED
    BY <1>2, <1>3, <1>4, <2>3, <2>4, <2>5 DEF IInv
<1>6. CASE DequeueEmpty(j) \/ Dequeue(j) \/ DequeueBulk(j)
  <2>1. ConsumerLoads(j) /\ UNCHANGED <<headLog, tailLog, pSeen, pSync>>
    BY <1>1, <1>6 DEF DequeueEmpty, Dequeue, DequeueBulk
  <2>2. /\ cSeen' = j /\ cSync' = j /\ j \in cSeen .. Len(tailLog)
        /\ cHead' = Slot(Len(headLog)) /\ cTail' = Slot(j)
        /\ cHead' \in Index /\ cTail' \in Index
        /\ OrderInv' /\ Len(headLog) <= j
        /\ IsEmpty(OwnHead, tailLog[j]) <=> j = Len(headLog)
    BY <2>1, ConsumerLoadsInv
  <2>3. cpc' = "read" => Len(headLog) < j
    <3>1. cpc' = "read" => ~IsEmpty(OwnHead, tailLog[j])
      BY <1>1, <1>6 DEF DequeueEmpty, Dequeue, DequeueBulk
    <3>2. /\ j \in Int /\ Len(headLog) \in Int /\ Len(headLog) <= j
          /\ IsEmpty(OwnHead, tailLog[j]) <=> j = Len(headLog)
      BY <2>2, Order DEF IInv
    <3> QED
      BY <3>1, <3>2
  <2>4. TypeOK'
    BY <1>1, <2>2 DEF IInv, TypeOK
  <2>5. ConsumerInv'
    BY <1>1, <2>2, <2>3 DEF ConsumerInv
  <2> QED
    BY <1>2, <1>3, <1>4, <2>2, <2>4, <2>5 DEF IInv
<1> QED
  BY <1>5, <1>6

\* One more value of a Drain, and its end.
LEMMA DrainStep == ASSUME IInv, DrainNext \/ DrainEnd PROVE IInv'
<1>1. /\ UNCHANGED <<headLog, tailLog, buf, wroteAt, readAt, sent, rcvd>>
      /\ UNCHANGED <<ppc, pTail, pHead, pVal, pBulk, pSeen, pSync>>
      /\ UNCHANGED <<cHead, cTail, cVal, cBulk, cSeen, cSync>>
      /\ cpc = "drain" /\ cpc' \in {"idle", "read"}
      /\ cpc' = "read" => ~IsEmpty(cHead, cTail)
  BY DEF DrainNext, DrainEnd, prodVars
<1>2. cHead = Slot(Len(headLog)) /\ cTail = Slot(cSync)
  BY <1>1 DEF IInv, ConsumerInv
<1>3. IsEmpty(cHead, cTail) <=> cSync = Len(headLog)
  BY <1>2, Order, EmptySlot, SizeAssumption DEF IInv
<1>4. cpc' = "read" => Len(headLog) < cSync
  BY <1>1, <1>3, Order DEF IInv
<1>5. TypeOK'
  BY <1>1 DEF IInv, TypeOK
<1>6. LogInv' /\ OrderInv' /\ ProducerInv'
  BY <1>1 DEF IInv, LogInv, OrderInv, ProducerInv
<1>7. ConsumerInv'
  BY <1>1, <1>2, <1>4 DEF ConsumerInv
<1>8. AccessInv'
  BY <1>1 DEF IInv, AccessInv
<1>9. DataInv'
  BY <1>1 DEF IInv, DataInv
<1> QED
  BY <1>5, <1>6, <1>7, <1>8, <1>9 DEF IInv

\* Reading the slot at the head yields the oldest value sent and not received.
LEMMA ReadSlotStep == ASSUME IInv, ReadSlot PROVE IInv'
<1>1. /\ UNCHANGED <<headLog, tailLog, buf, wroteAt, sent, rcvd>>
      /\ UNCHANGED <<ppc, pTail, pHead, pVal, pBulk, pSeen, pSync>>
      /\ UNCHANGED <<cHead, cTail, cBulk, cSeen, cSync>>
      /\ cpc = "read" /\ cpc' = "publish"
      /\ cVal' = buf[cHead]
      /\ readAt' = [readAt EXCEPT ![cHead] = Len(headLog)]
  BY DEF ReadSlot, prodVars
<1>2. /\ cHead = Slot(Len(headLog)) /\ cHead \in Index /\ cTail = Slot(cSync)
      /\ Len(headLog) < cSync
  BY <1>1 DEF IInv, ConsumerInv, TypeOK
<1>3. /\ Len(headLog) \in Nat /\ Len(headLog) \in Len(headLog) .. Len(tailLog) - 1
  BY <1>2, Order DEF IInv
<1>4. TypeOK'
  BY <1>1, <1>2, <1>3 DEF IInv, TypeOK
<1>5. LogInv' /\ OrderInv' /\ ProducerInv' /\ ConsumerInv'
  BY <1>1, <1>2 DEF IInv, LogInv, OrderInv, ProducerInv, ConsumerInv
<1>6. AccessInv'
  <2> SUFFICES ASSUME NEW s \in Index
      PROVE  /\ readAt'[s] # 0 => /\ readAt'[s] <= Len(headLog') /\ Slot(readAt'[s]) = s
                                  /\ readAt'[s] = Len(headLog') => cpc' = "publish"
             /\ wroteAt'[s] # 0 => /\ wroteAt'[s] <= Len(tailLog') /\ Slot(wroteAt'[s]) = s
                                   /\ wroteAt'[s] = Len(tailLog') => ppc' = "publish"
    BY DEF AccessInv
  <2>1. readAt'[s] = IF s = cHead THEN Len(headLog) ELSE readAt[s]
    BY <1>1, <1>2 DEF IInv, TypeOK
  <2> QED
    BY <1>1, <1>2, <1>3, <2>1 DEF IInv, AccessInv
<1>7. DataInv'
  BY <1>1, <1>2, <1>3 DEF IInv, DataInv
<1> QED
  BY <1>4, <1>5, <1>6, <1>7 DEF IInv

\* Giving the slot back.
LEMMA PublishHeadStep == ASSUME IInv, PublishHead PROVE IInv'
<1> DEFINE H == Len(headLog)
<1>1. /\ UNCHANGED <<tailLog, buf, wroteAt, readAt, sent>>
      /\ UNCHANGED <<ppc, pTail, pHead, pVal, pBulk, pSeen, pSync>>
      /\ UNCHANGED <<cTail, cVal, cBulk, cSeen, cSync>>
      /\ cpc = "publish" /\ cpc' \in {"drain", "idle"}
      /\ headLog' = Append(headLog, Inc(cHead)) /\ cHead' = Inc(cHead)
      /\ rcvd' = Append(rcvd, cVal)
  BY DEF PublishHead, prodVars
<1>2. /\ cHead = Slot(H) /\ H < cSync /\ cTail = Slot(cSync) /\ cVal = sent[H]
  BY <1>1 DEF IInv, ConsumerInv, DataInv
<1>3. /\ H \in Nat /\ H >= 1 /\ headLog \in Seq(Index)
      /\ rcvd \in Seq(Values \cup {Uninit}) /\ cVal \in Values \cup {Uninit}
      /\ Len(rcvd) = H - 1
  <2>1. H \in Nat /\ H >= 1
    BY Order DEF IInv
  <2>2. /\ headLog \in Seq(Index) /\ rcvd \in Seq(Values \cup {Uninit})
        /\ cVal \in Values \cup {Uninit} /\ Len(rcvd) = H - 1
    BY DEF IInv, TypeOK, DataInv
  <2> QED
    BY <2>1, <2>2
<1>4. Inc(cHead) = Slot(H + 1) /\ Slot(H + 1) \in Index
  BY <1>2, <1>3, IncSlot, SlotType
<1>5. /\ headLog' \in Seq(Index) /\ Len(headLog') = H + 1
      /\ headLog'[H + 1] = Slot(H + 1)
      /\ \A k \in 1 .. H : headLog'[k] = headLog[k]
  BY <1>1, <1>3, <1>4
<1>6. /\ rcvd' \in Seq(Values \cup {Uninit}) /\ Len(rcvd') = H /\ rcvd'[H] = cVal
      /\ \A k \in 1 .. H - 1 : rcvd'[k] = rcvd[k]
  BY <1>1, <1>3
<1>7. TypeOK'
  <2>1. pSeen \in 1 .. Len(headLog') /\ pSync \in 1 .. Len(headLog')
    BY <1>3, <1>5, Order DEF IInv
  <2> QED
    BY <1>1, <1>4, <1>5, <1>6, <2>1 DEF IInv, TypeOK
<1>8. LogInv'
  BY <1>1, <1>3, <1>5 DEF IInv, LogInv
<1>9. OrderInv'
  BY <1>1, <1>2, <1>3, <1>5, Order DEF IInv, OrderInv
<1>10. ProducerInv' /\ ConsumerInv'
  BY <1>1, <1>2, <1>4, <1>5 DEF IInv, ProducerInv, ConsumerInv
<1>11. AccessInv'
  <2>1. \A s \in Index : readAt[s] \in Nat
    BY DEF IInv, TypeOK
  <2> QED
    BY <1>1, <1>3, <1>5, <2>1 DEF IInv, AccessInv
<1>12. DataInv'
  <2>1. \A k \in H + 1 .. Len(tailLog) - 1 : buf[Slot(k)] = sent[k]
    BY <1>3, Order DEF IInv, DataInv
  <2>2. \A k \in 1 .. H : rcvd'[k] = sent[k]
    BY <1>2, <1>3, <1>6 DEF IInv, DataInv
  <2> QED
    BY <1>1, <1>3, <1>5, <1>6, <2>1, <2>2 DEF IInv, DataInv
<1> QED
  BY <1>7, <1>8, <1>9, <1>10, <1>11, <1>12 DEF IInv

LEMMA StutterStep == ASSUME IInv, UNCHANGED vars PROVE IInv'
<1>1. /\ UNCHANGED <<headLog, tailLog, buf, wroteAt, readAt, sent, rcvd>>
      /\ UNCHANGED <<ppc, pTail, pHead, pVal, pBulk, pSeen, pSync>>
      /\ UNCHANGED <<cpc, cHead, cTail, cVal, cBulk, cSeen, cSync>>
  BY DEF vars, prodVars, consVars
<1>2. TypeOK'
  BY <1>1 DEF IInv, TypeOK
<1>3. LogInv' /\ OrderInv' /\ ProducerInv' /\ ConsumerInv'
  BY <1>1 DEF IInv, LogInv, OrderInv, ProducerInv, ConsumerInv
<1>4. AccessInv' /\ DataInv'
  BY <1>1 DEF IInv, AccessInv, DataInv
<1> QED
  BY <1>2, <1>3, <1>4 DEF IInv

\* The invariant is inductive.
LEMMA NextInv == IInv /\ [Next]_vars => IInv'
<1> SUFFICES ASSUME IInv, [Next]_vars PROVE IInv'
  OBVIOUS
<1>1. CASE \E i \in 1 .. Len(headLog) :
             \/ EnqueueFull(i) \/ EnqueueBulk(i) \/ ProducerLen(i)
             \/ \E v \in Values : Enqueue(i, v)
  BY <1>1, ProducerLoadStep
<1>2. CASE BulkEnd \/ \E v \in Values : BulkTake(v)
  BY <1>2, BulkStep
<1>3. CASE WriteSlot
  BY <1>3, WriteSlotStep
<1>4. CASE PublishTail
  BY <1>4, PublishTailStep
<1>5. CASE \E j \in 1 .. Len(tailLog) :
             DequeueEmpty(j) \/ Dequeue(j) \/ DequeueBulk(j) \/ ConsumerLen(j)
  BY <1>5, ConsumerLoadStep
<1>6. CASE DrainNext \/ DrainEnd
  BY <1>6, DrainStep
<1>7. CASE ReadSlot
  BY <1>7, ReadSlotStep
<1>8. CASE PublishHead
  BY <1>8, PublishHeadStep
<1>9. CASE UNCHANGED vars
  BY <1>9, StutterStep
<1> QED
  BY <1>1, <1>2, <1>3, <1>4, <1>5, <1>6, <1>7, <1>8, <1>9 DEF Next, Producer, Consumer

\* Every reachable state, for every Size, Values and MaxSend, satisfies IInv.
THEOREM Invariance == Spec => []IInv
<1>1. Init => IInv
  BY InitInv
<1>2. IInv /\ [Next]_vars => IInv'
  BY NextInv
<1> QED
  BY <1>1, <1>2, PTL DEF Spec

-----------------------------------------------------------------------------
(* What follows. *)

\* The indices held by enqueue, dequeue and Drain never leave the ring's buffer.
THEOREM TypeCorrect == Spec => []TypeOK
<1>1. IInv => TypeOK
  BY DEF IInv
<1> QED
  BY <1>1, Invariance, PTL

\* The Release/Acquire pairs of enqueue, enqueue_bulk, dequeue and Drain::next order
\* every two conflicting accesses to a slot.
THEOREM RaceFree == Spec => []NoDataRace
<1>1. IInv => NoDataRace
  <2> SUFFICES ASSUME IInv PROVE NoDataRace
    OBVIOUS
  <2>1. ASSUME ppc = "write" PROVE readAt[pTail] < pSync
    <3>1. /\ pTail = Slot(Len(tailLog)) /\ pTail \in Index
          /\ Len(tailLog) - pSync <= Size - 2
      BY <2>1 DEF IInv, ProducerInv, TypeOK
    <3> DEFINE k == readAt[pTail]
    <3>2. k \in Nat
      BY <3>1 DEF IInv, TypeOK
    <3>3. k # 0 => /\ k <= Len(headLog) /\ Slot(k) = pTail
                   /\ k = Len(headLog) => cpc = "publish"
      BY <3>1 DEF IInv, AccessInv
    <3>4. cpc = "publish" => Len(headLog) < cSync
      BY DEF IInv, ConsumerInv
    <3> HIDE DEF k
    <3>5. k < Len(tailLog)
      BY <3>2, <3>3, <3>4, Order DEF IInv
    <3>6. k # 0 => ~(Len(tailLog) - k < Size)
      BY <3>1, <3>2, <3>3, <3>5, Order, SlotApart DEF IInv
    <3> QED
      BY <3>1, <3>2, <3>5, <3>6, Order, SizeAssumption DEF IInv, k
  <2>2. ASSUME cpc = "read" PROVE wroteAt[cHead] < cSync
    <3>1. cHead = Slot(Len(headLog)) /\ cHead \in Index /\ Len(headLog) < cSync
      BY <2>2 DEF IInv, ConsumerInv, TypeOK
    <3> DEFINE k == wroteAt[cHead]
    <3>2. k \in Nat
      BY <3>1 DEF IInv, TypeOK
    <3>3. k # 0 => k <= Len(tailLog) /\ Slot(k) = cHead
      BY <3>1 DEF IInv, AccessInv
    <3> HIDE DEF k
    <3>4. k > Len(headLog) => k - Len(headLog) < Size
      BY <3>2, <3>3, Order, SizeAssumption DEF IInv
    <3>5. k # 0 => ~(k > Len(headLog))
      BY <3>1, <3>2, <3>3, <3>4, Order, SlotApart DEF IInv
    <3> QED
      BY <3>1, <3>2, <3>5, Order DEF IInv, k
  <2> QED
    BY <2>1, <2>2 DEF NoDataRace
<1> QED
  BY <1>1, Invariance, PTL

\* The wrapped comparisons of enqueue and dequeue are exact, however stale the load.
THEOREM TestsExact == Spec => []FullEmptyExact
<1>1. IInv => FullEmptyExact
  <2> SUFFICES ASSUME IInv PROVE FullEmptyExact
    OBVIOUS
  <2>1. ASSUME NEW i \in pSeen .. Len(headLog)
        PROVE  IsFull(headLog[i], OwnTail) <=> Len(tailLog) - i = Size - 1
    <3>1. i \in Int /\ Len(tailLog) \in Int /\ i <= Len(tailLog) /\ Len(tailLog) - i <= Size - 1
      BY Order, SizeAssumption DEF IInv
    <3>2. headLog[i] = Slot(i) /\ OwnTail = Slot(Len(tailLog))
      BY Order DEF IInv, LogInv, OwnTail
    <3> QED
      BY <3>1, <3>2, FullSlot
  <2>2. ASSUME NEW j \in cSeen .. Len(tailLog)
        PROVE  IsEmpty(OwnHead, tailLog[j]) <=> j = Len(headLog)
    <3>1. j \in Int /\ Len(headLog) \in Int /\ Len(headLog) <= j /\ j - Len(headLog) <= Size - 1
      BY Order, SizeAssumption DEF IInv
    <3>2. tailLog[j] = Slot(j) /\ OwnHead = Slot(Len(headLog))
      BY Order DEF IInv, LogInv, OwnHead
    <3> QED
      BY <3>1, <3>2, EmptySlot
  <2> QED
    BY <2>1, <2>2 DEF FullEmptyExact
<1> QED
  BY <1>1, Invariance, PTL

\* Queue::len errs on the safe side on either end.
THEOREM LenSafe == Spec => []LenBounds
<1>1. IInv => LenBounds
  <2> SUFFICES ASSUME IInv PROVE LenBounds
    OBVIOUS
  <2> DEFINE len == Len(tailLog) - Len(headLog)
  <2>1. ASSUME NEW i \in pSeen .. Len(headLog)
        PROVE  Distance(headLog[i], OwnTail) \in len .. Size - 1
    <3>1. /\ i \in Int /\ Len(tailLog) \in Int /\ i <= Len(tailLog)
          /\ Len(tailLog) - i <= Size - 1 /\ Len(tailLog) - i >= len
      BY Order, SizeAssumption DEF IInv
    <3>2. headLog[i] = Slot(i) /\ OwnTail = Slot(Len(tailLog))
      BY Order DEF IInv, LogInv, OwnTail
    <3>3. Distance(headLog[i], OwnTail) = Len(tailLog) - i
      BY <3>1, <3>2, DistanceSlot
    <3> QED
      BY <3>1, <3>3, Order, SizeAssumption DEF IInv
  <2>2. ASSUME NEW j \in cSeen .. Len(tailLog)
        PROVE  Distance(OwnHead, tailLog[j]) \in 0 .. len
    <3>1. /\ j \in Int /\ Len(headLog) \in Int /\ Len(headLog) <= j
          /\ j - Len(headLog) <= Size - 1 /\ j <= Len(tailLog)
      BY Order, SizeAssumption DEF IInv
    <3>2. tailLog[j] = Slot(j) /\ OwnHead = Slot(Len(headLog))
      BY Order DEF IInv, LogInv, OwnHead
    <3>3. Distance(OwnHead, tailLog[j]) = j - Len(headLog)
      BY <3>1, <3>2, DistanceSlot
    <3> QED
      BY <3>1, <3>3, Order DEF IInv
  <2> QED
    BY <2>1, <2>2 DEF LenBounds
<1> QED
  BY <1>1, Invariance, PTL

-----------------------------------------------------------------------------
(* The ring implements the channel. *)

\* The two stores are the channel's two steps.
LEMMA PublishTailIsSend == ASSUME IInv, PublishTail PROVE Ch!Send(pVal) /\ pVal \in Values
<1>1. /\ sent' = Append(sent, pVal) /\ UNCHANGED rcvd /\ ppc = "publish"
  BY DEF PublishTail
<1>2. pVal \in Values /\ Len(tailLog) - pSync <= Size - 2
  BY <1>1 DEF IInv, ProducerInv
<1>3. sent \in Seq(Values) /\ Len(sent) = Len(tailLog) - 1 /\ Len(rcvd) = Len(headLog) - 1
  BY DEF IInv, TypeOK, DataInv
<1> DEFINE m == Len(rcvd) + 1
           n == Len(sent)
<1>4. m \in 1 .. n + 1 /\ n \in Nat /\ n + 1 - m < Size - 1
  BY <1>2, <1>3, Order, SizeAssumption DEF IInv
<1>5. \A i \in m .. n : sent[i] \in Values
  BY <1>3, <1>4
<1>6. Len(InFlight) < Size - 1 /\ InFlight \in Seq(Values)
  BY <1>3, <1>4, <1>5, SubSeqProperties DEF InFlight
<1>7. /\ sent' \in Seq(Values) /\ Len(sent') = n + 1 /\ sent'[n + 1] = pVal
      /\ \A i \in 1 .. n : sent'[i] = sent[i]
  BY <1>1, <1>2, <1>3
<1>8. InFlight' = Append(InFlight, pVal)
  <2>1. SubSeq(sent', m, n + 1) = SubSeq(sent', m, n) \o <<sent'[n + 1]>>
    <3> DEFINE l == n + 1
    <3>1. sent' \in Seq(Values) /\ m \in 1 .. Len(sent') /\ l \in m .. Len(sent') /\ l - 1 = n
      BY <1>4, <1>7
    <3> HIDE DEF l
    <3>2. SubSeq(sent', m, l) = SubSeq(sent', m, l - 1) \o <<sent'[l]>>
      BY <3>1, SubSeqRecursiveSecond
    <3> QED
      BY <3>1, <3>2 DEF l
  <2>2. SubSeq(sent', m, n) = SubSeq(sent, m, n)
    <3>1. m \in Int /\ n \in Int /\ \A i \in m .. n : sent'[i] = sent[i] /\ sent[i] \in Values
      BY <1>4, <1>5, <1>7
    <3> DEFINE s == SubSeq(sent', m, n)
               t == SubSeq(sent, m, n)
    <3>2. /\ s \in Seq(Values) /\ t \in Seq(Values) /\ Len(s) = Len(t)
          /\ \A i \in 1 .. n - m + 1 : s[i] = sent'[m + i - 1] /\ t[i] = sent[m + i - 1]
      BY <3>1, SubSeqProperties
    <3>3. Len(s) = IF m <= n THEN n - m + 1 ELSE 0
      BY <3>1, SubSeqProperties
    <3> HIDE DEF s, t
    <3>4. \A i \in 1 .. Len(s) : s[i] = t[i]
      BY <3>1, <3>2, <3>3
    <3>5. s = t
      BY <3>2, <3>4, SeqEqual
    <3> QED
      BY <3>5 DEF s, t
  <2>3. InFlight' = SubSeq(sent', m, n + 1) /\ InFlight = SubSeq(sent, m, n)
    BY <1>1, <1>7 DEF InFlight
  <2>4. InFlight' = InFlight \o <<pVal>>
    BY <1>7, <2>1, <2>2, <2>3
  <2>5. InFlight \o <<pVal>> = Append(InFlight, pVal)
    BY <1>2, <1>6
  <2> QED
    BY <2>4, <2>5
<1> QED
  BY <1>1, <1>2, <1>6, <1>8 DEF Ch!Send

LEMMA PublishHeadIsRecv == ASSUME IInv, PublishHead PROVE Ch!Recv
<1>1. /\ rcvd' = Append(rcvd, cVal) /\ UNCHANGED sent /\ cpc = "publish"
  BY DEF PublishHead
<1>2. cVal = sent[Len(headLog)] /\ Len(headLog) < cSync
  BY <1>1 DEF IInv, ConsumerInv, DataInv
<1>3. /\ sent \in Seq(Values) /\ rcvd \in Seq(Values \cup {Uninit})
      /\ Len(sent) = Len(tailLog) - 1 /\ Len(rcvd) = Len(headLog) - 1
      /\ cVal \in Values \cup {Uninit}
  BY DEF IInv, TypeOK, DataInv
<1> DEFINE m == Len(rcvd) + 1
           n == Len(sent)
<1>4. m \in 1 .. n /\ n \in m .. n /\ m = Len(headLog) /\ n \in Nat
  BY <1>2, <1>3, Order DEF IInv
<1>5. Len(rcvd') = m
  BY <1>1, <1>3
<1>6. Head(InFlight) = cVal /\ Tail(InFlight) = SubSeq(sent, m + 1, n)
  BY <1>2, <1>3, <1>4, HeadTailOfSubSeq DEF InFlight
<1>7. InFlight' = Tail(InFlight)
  BY <1>1, <1>5, <1>6 DEF InFlight
<1>8. InFlight # <<>>
  <2>1. \A i \in m .. n : sent[i] \in Values
    BY <1>3, <1>4
  <2>2. Len(InFlight) = n - m + 1
    BY <1>4, <2>1, SubSeqProperties DEF InFlight
  <2> QED
    BY <1>4, <2>2
<1> QED
  BY <1>1, <1>6, <1>7, <1>8 DEF Ch!Recv

\* A ring of Size slots is a FIFO channel of capacity Size - 1: nothing is lost,
\* duplicated or reordered by any interleaving of single and bulk operations.
THEOREM Refinement == Spec => RefinesChannel
<1>1. Init => Ch!Init
  <2> SUFFICES ASSUME Init PROVE Ch!Init
    OBVIOUS
  <2>1. InFlight = <<>>
    BY SubSeqEmpty DEF Init, InFlight
  <2> QED
    BY <2>1 DEF Init, Ch!Init
<1>2. IInv /\ [Next]_vars => [Ch!Next]_(Ch!cvars)
  <2> SUFFICES ASSUME IInv, [Next]_vars PROVE [Ch!Next]_(Ch!cvars)
    OBVIOUS
  <2>1. CASE PublishTail
    BY <2>1, PublishTailIsSend DEF Ch!Next
  <2>2. CASE PublishHead
    BY <2>2, PublishHeadIsRecv DEF Ch!Next
  <2>3. CASE UNCHANGED <<sent, rcvd>>
    BY <2>3 DEF Ch!cvars, InFlight
  <2>4. PublishTail \/ PublishHead \/ UNCHANGED <<sent, rcvd>>
    BY DEF Next, Producer, Consumer, EnqueueFull, EnqueueBulk, ProducerLen, Enqueue,
           BulkTake, BulkEnd, WriteSlot, DequeueEmpty, Dequeue, DequeueBulk, ConsumerLen,
           DrainNext, DrainEnd, ReadSlot, vars
  <2> QED
    BY <2>1, <2>2, <2>3, <2>4
<1> QED
  BY <1>1, <1>2, Invariance, PTL DEF Spec, RefinesChannel, Ch!Spec
=============================================================================
