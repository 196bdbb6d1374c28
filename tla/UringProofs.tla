----------------------------- MODULE UringProofs -----------------------------
(***************************************************************************)
(* A uring keeps its promises for queues of any capacity and any number of *)
(* values sent.                                                            *)
(*                                                                         *)
(* At any moment both halves are there, or one is and the other is gone,   *)
(* or one is gone and the other tears the uring down (OneEnds); the count  *)
(* is what is left of two (CountsDown).  From this follows who may read    *)
(* without atomics and who frees.  What the values have become is told by  *)
(* three pieces of each queue that are continued one by the other: what    *)
(* was received, what was dropped in place, and what is left (Delivered).  *)
(***************************************************************************)
EXTENDS Uring, TLAPS, FiniteSetTheorems, SequenceTheorems

Here(h) == half[h] \in {"live", "raw"}
Ends(h) == half[h] \in Status \ {"live", "raw", "gone"}

\* Some half is in one of these states.
Some(S) == \E h \in Halves : half[h] \in S

OneEnds ==
  \/ Len(rcLog) = 1 /\ \A h \in Halves : Here(h)
  \/ Len(rcLog) = 2 /\ \E h \in Halves : Here(h) /\ half[Peer(h)] = "gone"
  \/ Len(rcLog) = 3 /\ \E h \in Halves : Ends(h) /\ half[Peer(h)] = "gone"

CountsDown == \A i \in 1 .. Len(rcLog) : rcLog[i] = 3 - i

\* What a half did before it released the count is all it ever does, and the other has it.
AllReleased ==
  \A h \in Halves :
    /\ ~Here(h) => released[h] = accesses[h]
    /\ Ends(h) /\ half[h] # "last" => ordered[h] = accesses[Peer(h)]

FreedAtEnd == frees = IF Some({"done"}) THEN 1 ELSE 0

\* is_connected reads no entry older than one it has read, so "no" stays "no".
ToldTrue ==
  \A h \in Halves : /\ rcSeen[h] <= Len(rcLog)
                    /\ told[h] = "disconnected" => rcSeen[h] >= 2 /\ ~Here(Peer(h))

\* The sequence that goes on after k.
Follows(s, k) == \A i \in 1 .. Len(s) : s[i] = k + i

Delivered(rcvd, dropped, left, sent) ==
  /\ Follows(rcvd, 0) /\ Follows(dropped, Len(rcvd)) /\ Follows(left, Len(rcvd) + Len(dropped))
  /\ Len(rcvd) + Len(dropped) + Len(left) = sent

AfterA == {"dropB", "freeing", "kept", "done"}
AfterB == {"freeing", "kept", "done"}

LeftA == IF Some(AfterA) THEN <<>> ELSE IF Some({"dropA"}) THEN todo ELSE chanA
LeftB == IF Some(AfterB) THEN <<>> ELSE IF Some({"dropB"}) THEN todo ELSE chanB

EachOnceA == /\ Delivered(rcvdA, droppedA, LeftA, sentA)
             /\ ~Some(AfterA \cup {"dropA"}) => droppedA = <<>>
EachOnceB == /\ Delivered(rcvdB, droppedB, LeftB, sentB)
             /\ ~Some(AfterB \cup {"dropB"}) => droppedB = <<>>

IInv == /\ TypeOK /\ OneEnds /\ CountsDown /\ AllReleased /\ FreedAtEnd /\ ToldTrue
        /\ EachOnceA /\ EachOnceB


USE DEF Halves, Values

-----------------------------------------------------------------------------
(* Sequences that count. *)

LEMMA FollowsAppend ==
  ASSUME NEW S, NEW s \in Seq(S), NEW k \in Nat, NEW v \in S, Follows(s, k), v = k + Len(s) + 1
  PROVE  /\ Append(s, v) \in Seq(S) /\ Len(Append(s, v)) = Len(s) + 1
         /\ Follows(Append(s, v), k)
<1>1. Len(s) \in Nat
  BY LenProperties
<1>2. /\ Append(s, v) \in Seq(S) /\ Len(Append(s, v)) = Len(s) + 1
      /\ \A i \in 1 .. Len(s) : Append(s, v)[i] = s[i]
      /\ Append(s, v)[Len(s) + 1] = v
  BY AppendProperties
<1> HIDE DEF Values
<1>3. ASSUME NEW i \in 1 .. Len(s) + 1 PROVE Append(s, v)[i] = k + i
  <2>1. CASE i = Len(s) + 1
    BY <1>1, <1>2, <2>1
  <2>2. CASE i # Len(s) + 1
    <3>1. i \in 1 .. Len(s)
      BY <1>1, <2>2
    <3> QED  BY <1>2, <3>1 DEF Follows
  <2> QED  BY <2>1, <2>2
<1> QED  BY <1>2, <1>3 DEF Follows

LEMMA FollowsTail ==
  ASSUME NEW S, NEW s \in Seq(S), NEW k \in Nat, NEW m \in Nat,
         Follows(s, k), m = k + 1, s # <<>>
  PROVE  /\ Head(s) \in S /\ Head(s) = m
         /\ Tail(s) \in Seq(S) /\ Len(Tail(s)) = Len(s) - 1 /\ Len(s) \in Nat
         /\ Follows(Tail(s), m)
<1>1. Len(s) \in Nat \ {0}
  BY EmptySeq, LenProperties
<1>2. /\ Head(s) \in S /\ Tail(s) \in Seq(S) /\ Len(Tail(s)) = Len(s) - 1
      /\ \A i \in 1 .. Len(Tail(s)) : Tail(s)[i] = s[i + 1]
  BY HeadTailProperties
<1>3. Head(s) = s[1]
  BY <1>1
<1>4. s[1] = m
  BY <1>1 DEF Follows
<1>5. ASSUME NEW i \in 1 .. Len(Tail(s)) PROVE Tail(s)[i] = m + i
  <2>1. i + 1 \in 1 .. Len(s)
    BY <1>1, <1>2
  <2> QED  BY <1>2, <2>1 DEF Follows
<1> QED  BY <1>1, <1>2, <1>3, <1>4, <1>5 DEF Follows

-----------------------------------------------------------------------------
(* What the state of one half says of the other. *)
\* The part of the types that the ends of a uring are about.
LEMMA OwnTyped ==
  ASSUME TypeOK
  PROVE  /\ half \in [Halves -> Status] /\ rcSeen \in [Halves -> 1 .. 3]
         /\ told \in [Halves -> {"nothing", "connected", "disconnected"}]
         /\ accesses \in [Halves -> Nat] /\ released \in [Halves -> Nat]
         /\ ordered \in [Halves -> Nat] /\ Len(rcLog) \in Nat
  BY LenProperties DEF TypeOK


LEMMA LastCount == ASSUME IInv PROVE Len(rcLog) \in 1 .. 3 /\ rcLog[Len(rcLog)] = 3 - Len(rcLog)
<1>1. Len(rcLog) \in 1 .. 3
  BY DEF IInv, OneEnds
<1> QED  BY <1>1 DEF IInv, CountsDown

LEMMA LenAppend ==
  ASSUME IInv, NEW h \in Halves, NEW k \in BOOLEAN, Dispose(h, k)
  PROVE  Len(rcLog') = Len(rcLog) + 1
<1>1. Len(rcLog) \in 1 .. 2
  BY LastCount DEF Dispose, IInv, OneEnds, Here, Ends, Peer, Status
<1>2. rcLog[Len(rcLog)] - 1 \in 0 .. 2
  BY <1>1, LastCount
<1>3. rcLog \in Seq(0 .. 2)
  BY DEF IInv, TypeOK
<1> QED  BY <1>2, <1>3, AppendProperties DEF Dispose, Last

LEMMA NoEnd ==
  ASSUME IInv, NEW h \in Halves, Here(h)
  PROVE  /\ \A g \in Halves : half[g] \in {"live", "raw", "gone"}
         /\ LeftA = chanA /\ LeftB = chanB /\ droppedA = <<>> /\ droppedB = <<>>
<1>1. \A g \in Halves : half[g] \in {"live", "raw", "gone"}
  BY DEF IInv, OneEnds, Here, Ends, Peer
<1>2. ~Some(AfterA) /\ ~Some(AfterB) /\ ~Some({"dropA"}) /\ ~Some({"dropB"})
  BY <1>1 DEF Some, AfterA, AfterB
<1>3. ~Some(AfterA \cup {"dropA"}) /\ ~Some(AfterB \cup {"dropB"})
  BY <1>2 DEF Some
<1> QED  BY <1>1, <1>2, <1>3 DEF IInv, EachOnceA, EachOnceB, LeftA, LeftB

LEMMA OneEnd ==
  ASSUME IInv, NEW h \in Halves, Ends(h)
  PROVE  half[Peer(h)] = "gone" /\ \A g \in Halves : g = h \/ half[g] = "gone"
BY DEF IInv, OneEnds, Here, Ends, Peer

LEMMA SendStep ==
  ASSUME IInv, NEW h \in Halves, Send(h)
  PROVE  IInv'
<1>1. TypeOK'
  <2>1. /\ chanA' \in Seq(Values) /\ chanB' \in Seq(Values) /\ rcvdA' \in Seq(Values)
        /\ rcvdB' \in Seq(Values)
        /\ droppedA' \in Seq(Values) /\ droppedB' \in Seq(Values) /\ todo' \in Seq(Values)
    <3>1. CASE h = "A"
      <4>1. /\ chanA' = Append(chanA, sentA + 1) /\ sentA + 1 \in Values
            /\ UNCHANGED <<rcvdA, chanB, rcvdB>>
        BY <3>1, MaxSendAssumption DEF Send, QueueA!Send, IInv, TypeOK
      <4> QED  BY <4>1, AppendProperties DEF IInv, TypeOK, Send, Access, drops
    <3>2. CASE h = "B"
      <4>1. /\ chanB' = Append(chanB, sentB + 1) /\ sentB + 1 \in Values
            /\ UNCHANGED <<rcvdB, chanA, rcvdA>>
        BY <3>2, MaxSendAssumption DEF Send, QueueB!Send, IInv, TypeOK
      <4> QED  BY <4>1, AppendProperties DEF IInv, TypeOK, Send, Access, drops
    <3> QED  BY <3>1, <3>2
  <2>2. sentA' \in 0 .. MaxSend /\ sentB' \in 0 .. MaxSend
    <3>1. \/ sentA' = sentA + 1 /\ sentA < MaxSend /\ sentB' = sentB
          \/ sentB' = sentB + 1 /\ sentB < MaxSend /\ sentA' = sentA
      BY DEF Send
    <3>2. sentA \in 0 .. MaxSend /\ sentB \in 0 .. MaxSend
      BY DEF IInv, TypeOK
    <3> QED  BY <3>1, <3>2, MaxSendAssumption
  <2>3. rcLog' \in Seq(0 .. 2)
    BY DEF IInv, TypeOK, Send, Access, QueueA!Send, QueueB!Send, count
  <2>4. half' \in [Halves -> Status] /\ keep' \in [Halves -> BOOLEAN]
    BY DEF IInv, TypeOK, Status, Send, Access, QueueA!Send, QueueB!Send, count
  <2>5. /\ accesses' \in [Halves -> Nat] /\ released' \in [Halves -> Nat]
        /\ ordered' \in [Halves -> Nat] /\ frees' \in Nat
    <3>1. /\ accesses' = [accesses EXCEPT ![h] = accesses[h] + 1]
          /\ UNCHANGED <<released, ordered, frees>>
      BY DEF Send, Access, count
    <3>2. /\ accesses \in [Halves -> Nat] /\ released \in [Halves -> Nat]
          /\ ordered \in [Halves -> Nat] /\ frees \in Nat
      BY DEF IInv, TypeOK
    <3> QED  BY <3>1, <3>2
  <2>6. /\ rcSeen' \in [Halves -> 1 .. 3]
        /\ told' \in [Halves -> {"nothing", "connected", "disconnected"}]
    BY LastCount DEF IInv, TypeOK, Send, Access, QueueA!Send, QueueB!Send, count
  <2> QED  BY <2>1, <2>2, <2>3, <2>4, <2>5, <2>6 DEF TypeOK
<1>2. OneEnds'
  BY OwnTyped DEF IInv, OneEnds, Here, Ends, Send, Access, count
<1>3. CountsDown'
  BY DEF IInv, TypeOK, CountsDown, Send, Access, count
<1>4. AllReleased'
  BY OwnTyped DEF IInv, AllReleased, OneEnds, Here, Ends, Peer, Status, Send, Access, count
<1>5. FreedAtEnd'
  BY OwnTyped DEF IInv, FreedAtEnd, Some, Send, Access
<1>6. ToldTrue'
  BY OwnTyped DEF IInv, ToldTrue, Here, Send, Access, count
<1>7. EachOnceA'
  <2>1. half[h] = "live" /\ UNCHANGED <<half, droppedA, todo, rcvdA>>
    BY DEF Send, Access, QueueA!Send, drops
  <2>2. LeftA = chanA /\ LeftA' = chanA' /\ droppedA = <<>>
    BY <2>1, NoEnd DEF Here, LeftA, Some, AfterA
  <2>3. CASE h = "A"
    <3>1. chanA' = Append(chanA, sentA + 1) /\ sentA' = sentA + 1 /\ sentA + 1 \in Values
      BY <2>3, MaxSendAssumption DEF Send, QueueA!Send, IInv, TypeOK
    <3>2. /\ Follows(chanA, Len(rcvdA)) /\ sentA = Len(rcvdA) + Len(chanA)
          /\ Len(rcvdA) \in Nat /\ Len(chanA) \in Nat /\ chanA \in Seq(Values)
      BY <2>2, LenProperties DEF IInv, TypeOK, EachOnceA, Delivered
    <3>3. Follows(chanA', Len(rcvdA)) /\ Len(chanA') = Len(chanA) + 1
      BY <3>1, <3>2, FollowsAppend
    <3> QED  BY <2>1, <2>2, <3>1, <3>2, <3>3 DEF IInv, EachOnceA, Delivered
  <2>4. CASE h = "B"
    <3>1. UNCHANGED <<chanA, sentA>>
      BY <2>4 DEF Send
    <3> QED  BY <2>1, <2>2, <3>1 DEF IInv, EachOnceA, Delivered
  <2> QED  BY <2>3, <2>4
<1>8. EachOnceB'
  <2>1. half[h] = "live" /\ UNCHANGED <<half, droppedB, todo, rcvdB>>
    BY DEF Send, Access, QueueB!Send, drops
  <2>2. LeftB = chanB /\ LeftB' = chanB' /\ droppedB = <<>>
    BY <2>1, NoEnd DEF Here, LeftB, Some, AfterB
  <2>3. CASE h = "B"
    <3>1. chanB' = Append(chanB, sentB + 1) /\ sentB' = sentB + 1 /\ sentB + 1 \in Values
      BY <2>3, MaxSendAssumption DEF Send, QueueB!Send, IInv, TypeOK
    <3>2. /\ Follows(chanB, Len(rcvdB)) /\ sentB = Len(rcvdB) + Len(chanB)
          /\ Len(rcvdB) \in Nat /\ Len(chanB) \in Nat /\ chanB \in Seq(Values)
      BY <2>2, LenProperties DEF IInv, TypeOK, EachOnceB, Delivered
    <3>3. Follows(chanB', Len(rcvdB)) /\ Len(chanB') = Len(chanB) + 1
      BY <3>1, <3>2, FollowsAppend
    <3> QED  BY <2>1, <2>2, <3>1, <3>2, <3>3 DEF IInv, EachOnceB, Delivered
  <2>4. CASE h = "A"
    <3>1. UNCHANGED <<chanB, sentB>>
      BY <2>4 DEF Send
    <3> QED  BY <2>1, <2>2, <3>1 DEF IInv, EachOnceB, Delivered
  <2> QED  BY <2>3, <2>4
<1> QED  BY <1>1, <1>2, <1>3, <1>4, <1>5, <1>6, <1>7, <1>8 DEF IInv

LEMMA RecvStep ==
  ASSUME IInv, NEW h \in Halves, Recv(h)
  PROVE  IInv'
<1>1. TypeOK'
  <2>1. /\ chanA' \in Seq(Values) /\ chanB' \in Seq(Values) /\ rcvdA' \in Seq(Values)
        /\ rcvdB' \in Seq(Values)
        /\ droppedA' \in Seq(Values) /\ droppedB' \in Seq(Values) /\ todo' \in Seq(Values)
    <3>1. CASE h = "A"
      <4>1. /\ chanB # <<>> /\ chanB' = Tail(chanB) /\ rcvdB' = Append(rcvdB, Head(chanB))
            /\ UNCHANGED <<chanA, rcvdA>>
        BY <3>1 DEF Recv, QueueB!Recv
      <4>2. chanB' \in Seq(Values) /\ rcvdB' \in Seq(Values)
        BY <4>1, HeadTailProperties, AppendProperties DEF IInv, TypeOK
      <4> QED  BY <4>1, <4>2 DEF IInv, TypeOK, Recv, Access, drops
    <3>2. CASE h = "B"
      <4>1. /\ chanA # <<>> /\ chanA' = Tail(chanA) /\ rcvdA' = Append(rcvdA, Head(chanA))
            /\ UNCHANGED <<chanB, rcvdB>>
        BY <3>2 DEF Recv, QueueA!Recv
      <4>2. chanA' \in Seq(Values) /\ rcvdA' \in Seq(Values)
        BY <4>1, HeadTailProperties, AppendProperties DEF IInv, TypeOK
      <4> QED  BY <4>1, <4>2 DEF IInv, TypeOK, Recv, Access, drops
    <3> QED  BY <3>1, <3>2
  <2>2. sentA' \in 0 .. MaxSend /\ sentB' \in 0 .. MaxSend
    BY MaxSendAssumption DEF IInv, TypeOK, Recv, Access, QueueA!Recv, QueueB!Recv, chans
  <2>3. rcLog' \in Seq(0 .. 2)
    BY DEF IInv, TypeOK, Recv, Access, QueueA!Recv, QueueB!Recv, count
  <2>4. half' \in [Halves -> Status] /\ keep' \in [Halves -> BOOLEAN]
    BY DEF IInv, TypeOK, Status, Recv, Access, QueueA!Recv, QueueB!Recv, count
  <2>5. /\ accesses' \in [Halves -> Nat] /\ released' \in [Halves -> Nat]
        /\ ordered' \in [Halves -> Nat] /\ frees' \in Nat
    <3>1. /\ accesses' = [accesses EXCEPT ![h] = accesses[h] + 1]
          /\ UNCHANGED <<released, ordered, frees>>
      BY DEF Recv, Access, count
    <3>2. /\ accesses \in [Halves -> Nat] /\ released \in [Halves -> Nat]
          /\ ordered \in [Halves -> Nat] /\ frees \in Nat
      BY DEF IInv, TypeOK
    <3> QED  BY <3>1, <3>2
  <2>6. /\ rcSeen' \in [Halves -> 1 .. 3]
        /\ told' \in [Halves -> {"nothing", "connected", "disconnected"}]
    BY LastCount DEF IInv, TypeOK, Recv, Access, QueueA!Recv, QueueB!Recv, count
  <2> QED  BY <2>1, <2>2, <2>3, <2>4, <2>5, <2>6 DEF TypeOK
<1>2. OneEnds'
  BY OwnTyped DEF IInv, OneEnds, Here, Ends, Recv, Access, count
<1>3. CountsDown'
  BY DEF IInv, TypeOK, CountsDown, Recv, Access, count
<1>4. AllReleased'
  BY OwnTyped DEF IInv, AllReleased, OneEnds, Here, Ends, Peer, Status, Recv, Access, count
<1>5. FreedAtEnd'
  BY OwnTyped DEF IInv, FreedAtEnd, Some, Recv, Access
<1>6. ToldTrue'
  BY OwnTyped DEF IInv, ToldTrue, Here, Recv, Access, count
<1>7. EachOnceA'
  <2>1. half[h] = "live" /\ UNCHANGED <<half, droppedA, todo, sentA>>
    BY DEF Recv, Access, drops
  <2>2. LeftA = chanA /\ LeftA' = chanA' /\ droppedA = <<>>
    BY <2>1, NoEnd DEF Here, LeftA, Some, AfterA
  <2>3. CASE h = "B"
    <3>1. chanA # <<>> /\ chanA' = Tail(chanA) /\ rcvdA' = Append(rcvdA, Head(chanA))
      BY <2>3 DEF Recv, QueueA!Recv
    <3>2. /\ Follows(chanA, Len(rcvdA)) /\ sentA = Len(rcvdA) + Len(chanA) /\ Follows(rcvdA, 0)
          /\ Len(rcvdA) \in Nat /\ chanA \in Seq(Values) /\ rcvdA \in Seq(Values)
      BY <2>2, LenProperties DEF IInv, TypeOK, EachOnceA, Delivered
    <3>3. /\ Head(chanA) \in Values /\ Head(chanA) = Len(rcvdA) + 1 /\ Len(chanA) \in Nat
          /\ Follows(chanA', Len(rcvdA) + 1) /\ Len(chanA') = Len(chanA) - 1
      <4> DEFINE k == Len(rcvdA)
                 m == Len(rcvdA) + 1
      <4>1. k \in Nat /\ m \in Nat /\ m = k + 1 /\ Follows(chanA, k)
        BY <3>2
      <4> HIDE DEF k, m, Values
      <4>2. /\ Head(chanA) \in Values /\ Head(chanA) = m /\ Len(chanA) \in Nat
            /\ Follows(Tail(chanA), m) /\ Len(Tail(chanA)) = Len(chanA) - 1
        BY <3>1, <3>2, <4>1, FollowsTail
      <4> QED  BY <3>1, <4>2 DEF m
    <3>4. Follows(rcvdA', 0) /\ Len(rcvdA') = Len(rcvdA) + 1
      BY <3>1, <3>2, <3>3, FollowsAppend
    <3>5. Follows(<<>>, Len(rcvdA'))
      BY DEF Follows
    <3> QED  BY <2>1, <2>2, <3>2, <3>3, <3>4, <3>5 DEF EachOnceA, Delivered
  <2>4. CASE h = "A"
    <3>1. UNCHANGED <<chanA, rcvdA>>
      BY <2>4 DEF Recv
    <3> QED  BY <2>1, <2>2, <3>1 DEF IInv, EachOnceA, Delivered
  <2> QED  BY <2>3, <2>4
<1>8. EachOnceB'
  <2>1. half[h] = "live" /\ UNCHANGED <<half, droppedB, todo, sentB>>
    BY DEF Recv, Access, drops
  <2>2. LeftB = chanB /\ LeftB' = chanB' /\ droppedB = <<>>
    BY <2>1, NoEnd DEF Here, LeftB, Some, AfterB
  <2>3. CASE h = "A"
    <3>1. chanB # <<>> /\ chanB' = Tail(chanB) /\ rcvdB' = Append(rcvdB, Head(chanB))
      BY <2>3 DEF Recv, QueueB!Recv
    <3>2. /\ Follows(chanB, Len(rcvdB)) /\ sentB = Len(rcvdB) + Len(chanB) /\ Follows(rcvdB, 0)
          /\ Len(rcvdB) \in Nat /\ chanB \in Seq(Values) /\ rcvdB \in Seq(Values)
      BY <2>2, LenProperties DEF IInv, TypeOK, EachOnceB, Delivered
    <3>3. /\ Head(chanB) \in Values /\ Head(chanB) = Len(rcvdB) + 1 /\ Len(chanB) \in Nat
          /\ Follows(chanB', Len(rcvdB) + 1) /\ Len(chanB') = Len(chanB) - 1
      <4> DEFINE k == Len(rcvdB)
                 m == Len(rcvdB) + 1
      <4>1. k \in Nat /\ m \in Nat /\ m = k + 1 /\ Follows(chanB, k)
        BY <3>2
      <4> HIDE DEF k, m, Values
      <4>2. /\ Head(chanB) \in Values /\ Head(chanB) = m /\ Len(chanB) \in Nat
            /\ Follows(Tail(chanB), m) /\ Len(Tail(chanB)) = Len(chanB) - 1
        BY <3>1, <3>2, <4>1, FollowsTail
      <4> QED  BY <3>1, <4>2 DEF m
    <3>4. Follows(rcvdB', 0) /\ Len(rcvdB') = Len(rcvdB) + 1
      BY <3>1, <3>2, <3>3, FollowsAppend
    <3>5. Follows(<<>>, Len(rcvdB'))
      BY DEF Follows
    <3> QED  BY <2>1, <2>2, <3>2, <3>3, <3>4, <3>5 DEF EachOnceB, Delivered
  <2>4. CASE h = "B"
    <3>1. UNCHANGED <<chanB, rcvdB>>
      BY <2>4 DEF Recv
    <3> QED  BY <2>1, <2>2, <3>1 DEF IInv, EachOnceB, Delivered
  <2> QED  BY <2>3, <2>4
<1> QED  BY <1>1, <1>2, <1>3, <1>4, <1>5, <1>6, <1>7, <1>8 DEF IInv

LEMMA IsConnectedStep ==
  ASSUME IInv, NEW h \in Halves, NEW i \in 1 .. Len(rcLog), IsConnected(h, i)
  PROVE  IInv'
<1>1. TypeOK'
  <2>1. /\ chanA' \in Seq(Values) /\ chanB' \in Seq(Values) /\ rcvdA' \in Seq(Values)
        /\ rcvdB' \in Seq(Values)
        /\ droppedA' \in Seq(Values) /\ droppedB' \in Seq(Values) /\ todo' \in Seq(Values)
    BY DEF IInv, TypeOK, IsConnected, Connected, chans, drops
  <2>2. sentA' \in 0 .. MaxSend /\ sentB' \in 0 .. MaxSend
    BY MaxSendAssumption DEF IInv, TypeOK, IsConnected, Connected, chans
  <2>3. rcLog' \in Seq(0 .. 2)
    BY DEF IInv, TypeOK, IsConnected, Connected, count
  <2>4. half' \in [Halves -> Status] /\ keep' \in [Halves -> BOOLEAN]
    BY DEF IInv, TypeOK, Status, IsConnected, Connected, count
  <2>5. /\ accesses' \in [Halves -> Nat] /\ released' \in [Halves -> Nat]
        /\ ordered' \in [Halves -> Nat] /\ frees' \in Nat
    BY DEF IInv, TypeOK, Peer, IsConnected, Connected, count
  <2>6. /\ rcSeen' \in [Halves -> 1 .. 3]
        /\ told' \in [Halves -> {"nothing", "connected", "disconnected"}]
    <3>1. i \in rcSeen[h] .. Len(rcLog) /\ rcSeen[h] \in 1 .. 3
      BY DEF IInv, TypeOK, IsConnected
    <3>2. i \in 1 .. 3
      BY <3>1, LastCount
    <3> QED  BY <3>2 DEF IInv, TypeOK, IsConnected
  <2> QED  BY <2>1, <2>2, <2>3, <2>4, <2>5, <2>6 DEF TypeOK
<1>2. OneEnds'
  BY OwnTyped DEF IInv, OneEnds, Here, Ends, IsConnected
<1>3. CountsDown'
  BY DEF IInv, TypeOK, CountsDown, IsConnected
<1>4. AllReleased'
  BY OwnTyped DEF IInv, AllReleased, Here, Ends, IsConnected
<1>5. FreedAtEnd'
  BY OwnTyped DEF IInv, FreedAtEnd, Some, IsConnected
<1>6. ToldTrue'
  <2>1. half[h] = "live" /\ i \in rcSeen[h] .. Len(rcLog) /\ UNCHANGED <<half, rcLog>>
    BY DEF IsConnected
  <2>2. rcSeen' = [rcSeen EXCEPT ![h] = i] /\ rcSeen[h] \in 1 .. 3
    BY DEF IsConnected, IInv, TypeOK
  <2>3. rcLog[i] = 3 - i /\ i \in Nat /\ Len(rcLog) \in Nat
    BY LastCount DEF IInv, CountsDown
  <2>4. told' = [told EXCEPT ![h] = IF i < 2 THEN "connected" ELSE "disconnected"]
    <3>1. rcLog[i] > 1 <=> i < 2
      BY <2>3
    <3> QED  BY <3>1 DEF IsConnected, Connected
  <2>5. i >= 2 => ~Here(Peer(h))
    BY <2>1, <2>3 DEF IInv, OneEnds, Here, Ends, Peer, Status
  <2> QED  BY <2>1, <2>2, <2>3, <2>4, <2>5, OwnTyped DEF IInv, ToldTrue, Here, Peer
<1>7. EachOnceA'
  BY DEF IInv, TypeOK, EachOnceA, LeftA, Some, IsConnected, chans, drops
<1>8. EachOnceB'
  BY DEF IInv, TypeOK, EachOnceB, LeftB, Some, IsConnected, chans, drops
<1> QED  BY <1>1, <1>2, <1>3, <1>4, <1>5, <1>6, <1>7, <1>8 DEF IInv

LEMMA IntoRawStep ==
  ASSUME IInv, NEW h \in Halves, IntoRaw(h)
  PROVE  IInv'
<1>1. TypeOK'
  BY DEF IInv, TypeOK, Status, IntoRaw, chans, drops, count
<1>2. OneEnds'
  BY OwnTyped DEF IInv, OneEnds, Here, Ends, IntoRaw, count
<1>3. CountsDown'
  BY DEF IInv, TypeOK, CountsDown, IntoRaw, count
<1>4. AllReleased'
  BY OwnTyped DEF IInv, AllReleased, Here, Ends, IntoRaw, count
<1>5. FreedAtEnd'
  BY OwnTyped DEF IInv, FreedAtEnd, Some, IntoRaw
<1>6. ToldTrue'
  BY OwnTyped DEF IInv, ToldTrue, Here, IntoRaw, count
<1>7. EachOnceA'
  BY DEF IInv, TypeOK, EachOnceA, AfterA, LeftA, Some, IntoRaw, chans, drops
<1>8. EachOnceB'
  BY DEF IInv, TypeOK, EachOnceB, AfterB, LeftB, Some, IntoRaw, chans, drops
<1> QED  BY <1>1, <1>2, <1>3, <1>4, <1>5, <1>6, <1>7, <1>8 DEF IInv

LEMMA FromRawStep ==
  ASSUME IInv, NEW h \in Halves, FromRaw(h)
  PROVE  IInv'
<1>1. TypeOK'
  BY DEF IInv, TypeOK, Status, FromRaw, chans, drops, count
<1>2. OneEnds'
  BY OwnTyped DEF IInv, OneEnds, Here, Ends, FromRaw, count
<1>3. CountsDown'
  BY DEF IInv, TypeOK, CountsDown, FromRaw, count
<1>4. AllReleased'
  BY OwnTyped DEF IInv, AllReleased, Here, Ends, FromRaw, count
<1>5. FreedAtEnd'
  BY OwnTyped DEF IInv, FreedAtEnd, Some, FromRaw
<1>6. ToldTrue'
  BY OwnTyped DEF IInv, ToldTrue, Here, FromRaw, count
<1>7. EachOnceA'
  BY DEF IInv, TypeOK, EachOnceA, AfterA, LeftA, Some, FromRaw, chans, drops
<1>8. EachOnceB'
  BY DEF IInv, TypeOK, EachOnceB, AfterB, LeftB, Some, FromRaw, chans, drops
<1> QED  BY <1>1, <1>2, <1>3, <1>4, <1>5, <1>6, <1>7, <1>8 DEF IInv

LEMMA DisposeStep ==
  ASSUME IInv, NEW h \in Halves, NEW k \in BOOLEAN, Dispose(h, k)
  PROVE  IInv'
<1>1. TypeOK'
  <2>1. /\ chanA' \in Seq(Values) /\ chanB' \in Seq(Values) /\ rcvdA' \in Seq(Values)
        /\ rcvdB' \in Seq(Values)
        /\ droppedA' \in Seq(Values) /\ droppedB' \in Seq(Values) /\ todo' \in Seq(Values)
    BY DEF IInv, TypeOK, Dispose, chans, drops
  <2>2. sentA' \in 0 .. MaxSend /\ sentB' \in 0 .. MaxSend
    BY MaxSendAssumption DEF IInv, TypeOK, Dispose, IsLast, Released, Last, chans
  <2>3. rcLog' \in Seq(0 .. 2)
    <3>1. rcLog[Len(rcLog)] - 1 \in 0 .. 2
      BY LastCount DEF Dispose, IInv, OneEnds, Here, Ends, Peer, Status
    <3> QED  BY <3>1, AppendProperties DEF IInv, TypeOK, Dispose, Last
  <2>4. half' \in [Halves -> Status] /\ keep' \in [Halves -> BOOLEAN]
    BY DEF IInv, TypeOK, Status, Dispose, IsLast, Released, Last, count
  <2>5. /\ accesses' \in [Halves -> Nat] /\ released' \in [Halves -> Nat]
        /\ ordered' \in [Halves -> Nat] /\ frees' \in Nat
    BY DEF IInv, TypeOK, Peer, Dispose, IsLast, Released, Last, count
  <2>6. /\ rcSeen' \in [Halves -> 1 .. 3]
        /\ told' \in [Halves -> {"nothing", "connected", "disconnected"}]
    <3>1. Len(rcLog) + 1 \in 1 .. 3
      BY LastCount DEF Dispose, IInv, OneEnds, Here, Ends, Peer, Status
    <3> QED  BY <3>1 DEF IInv, TypeOK, Dispose
  <2> QED  BY <2>1, <2>2, <2>3, <2>4, <2>5, <2>6 DEF TypeOK
<1>2. OneEnds'
  <2>1. /\ half[h] = "live" /\ rcLog' = Append(rcLog, rcLog[Len(rcLog)] - 1)
        /\ Len(rcLog') = Len(rcLog) + 1
    BY LenAppend DEF Dispose, Last
  <2>2. /\ half' = [half EXCEPT ![h] = IF rcLog[Len(rcLog)] = 1 THEN "last" ELSE "gone"]
        /\ half \in [Halves -> Status]
    BY DEF Dispose, IsLast, Last, IInv, TypeOK
  <2>3. rcLog[Len(rcLog)] = 3 - Len(rcLog)
    BY LastCount
  <2> QED  BY <2>1, <2>2, <2>3 DEF IInv, OneEnds, Here, Ends, Peer, Status
<1>3. CountsDown'
  <2>1. rcLog' = Append(rcLog, rcLog[Len(rcLog)] - 1) /\ rcLog \in Seq(0 .. 2)
    BY DEF Dispose, Last, IInv, TypeOK
  <2>2. rcLog[Len(rcLog)] = 3 - Len(rcLog) /\ Len(rcLog) \in 1 .. 3
    BY LastCount
  <2>3. CASE h \in Halves
    <3>1. Len(rcLog) \in 1 .. 2
      BY <2>2 DEF Dispose, IInv, OneEnds, Here, Ends, Peer, Status
    <3>2. rcLog[Len(rcLog)] - 1 \in 0 .. 2
      BY <2>2, <3>1
    <3> QED  BY <2>1, <2>2, <3>1, <3>2, AppendProperties DEF IInv, CountsDown
  <2> QED  BY <2>3
<1>4. AllReleased'
  BY OwnTyped DEF IInv, AllReleased, Here, Ends, Dispose, Released, IsLast
<1>5. FreedAtEnd'
  BY OwnTyped DEF IInv, FreedAtEnd, Some, Dispose, IsLast
<1>6. ToldTrue'
  <2>1. half[h] = "live" /\ Len(rcLog') = Len(rcLog) + 1 /\ told' = told
    BY LenAppend DEF Dispose, Last
  <2>2. rcSeen' = [rcSeen EXCEPT ![h] = Len(rcLog) + 1] /\ Len(rcLog) \in 1 .. 3
    BY LastCount DEF Dispose
  <2>3. half'[h] \in {"last", "gone"} /\ \A g \in Halves : g # h => half'[g] = half[g]
    BY DEF Dispose, IInv, TypeOK
  <2>4. rcSeen \in [Halves -> 1 .. 3]
    BY DEF IInv, TypeOK
  <2>5. \A g \in Halves : ~Here(g) => ~Here(g)'
    BY <2>1, <2>3 DEF Here
  <2> QED  BY <2>1, <2>2, <2>4, <2>5 DEF IInv, ToldTrue, Peer
<1>7. EachOnceA'
  BY DEF IInv, TypeOK, EachOnceA, AfterA, LeftA, Some, Dispose, IsLast, chans, drops
<1>8. EachOnceB'
  BY DEF IInv, TypeOK, EachOnceB, AfterB, LeftB, Some, Dispose, IsLast, chans, drops
<1> QED  BY <1>1, <1>2, <1>3, <1>4, <1>5, <1>6, <1>7, <1>8 DEF IInv

LEMMA FenceStep ==
  ASSUME IInv, NEW h \in Halves, Fence(h)
  PROVE  IInv'
<1>1. TypeOK'
  <2>1. /\ chanA' \in Seq(Values) /\ chanB' \in Seq(Values) /\ rcvdA' \in Seq(Values)
        /\ rcvdB' \in Seq(Values)
        /\ droppedA' \in Seq(Values) /\ droppedB' \in Seq(Values) /\ todo' \in Seq(Values)
    BY DEF IInv, TypeOK, Fence, Acquired, chans, drops
  <2>2. sentA' \in 0 .. MaxSend /\ sentB' \in 0 .. MaxSend
    BY MaxSendAssumption DEF IInv, TypeOK, Fence, Acquired, chans
  <2>3. rcLog' \in Seq(0 .. 2)
    BY DEF IInv, TypeOK, Fence, Acquired, count
  <2>4. half' \in [Halves -> Status] /\ keep' \in [Halves -> BOOLEAN]
    BY DEF IInv, TypeOK, Status, Fence, Acquired, count
  <2>5. /\ accesses' \in [Halves -> Nat] /\ released' \in [Halves -> Nat]
        /\ ordered' \in [Halves -> Nat] /\ frees' \in Nat
    BY DEF IInv, TypeOK, Peer, Fence, Acquired, count
  <2>6. /\ rcSeen' \in [Halves -> 1 .. 3]
        /\ told' \in [Halves -> {"nothing", "connected", "disconnected"}]
    BY LastCount DEF IInv, TypeOK, Fence, Acquired, count
  <2> QED  BY <2>1, <2>2, <2>3, <2>4, <2>5, <2>6 DEF TypeOK
<1>2. OneEnds'
  BY OwnTyped DEF IInv, OneEnds, Status, Here, Ends, Fence, count
<1>3. CountsDown'
  BY DEF IInv, TypeOK, CountsDown, Fence, count
<1>4. AllReleased'
  BY OwnTyped DEF IInv, AllReleased, OneEnds, Here, Ends, Peer, Status, Fence, Acquired, count
<1>5. FreedAtEnd'
  BY OwnTyped DEF IInv, FreedAtEnd, Some, Fence
<1>6. ToldTrue'
  BY OwnTyped DEF IInv, ToldTrue, Here, Fence, count
<1>7. EachOnceA'
  BY DEF IInv, TypeOK, EachOnceA, AfterA, LeftA, Some, Fence, chans, drops
<1>8. EachOnceB'
  BY DEF IInv, TypeOK, EachOnceB, AfterB, LeftB, Some, Fence, chans, drops
<1> QED  BY <1>1, <1>2, <1>3, <1>4, <1>5, <1>6, <1>7, <1>8 DEF IInv

LEMMA WalkAStep ==
  ASSUME IInv, NEW h \in Halves, WalkA(h)
  PROVE  IInv'
<1>1. TypeOK'
  BY DEF IInv, TypeOK, Status, WalkA, chans, count
<1>2. OneEnds'
  BY OwnTyped DEF IInv, OneEnds, Status, Here, Ends, WalkA, count
<1>3. CountsDown'
  BY DEF IInv, TypeOK, CountsDown, WalkA, count
<1>4. AllReleased'
  BY OwnTyped DEF IInv, AllReleased, Here, Ends, WalkA, count
<1>5. FreedAtEnd'
  BY OwnTyped DEF IInv, FreedAtEnd, Some, WalkA
<1>6. ToldTrue'
  BY OwnTyped DEF IInv, ToldTrue, Here, WalkA, count
<1>7. EachOnceA'
  <2>1. /\ half[h] = "fenced" /\ half'[h] = "dropA"
        /\ UNCHANGED <<chanA, chanB, rcvdA, rcvdB, sentA, sentB>>
        /\ \A g \in Halves : g = h \/ (half[g] = "gone" /\ half'[g] = "gone")
    <3>1. half[h] = "fenced" /\ half' = [half EXCEPT ![h] = "dropA"]
      BY DEF WalkA, IInv, TypeOK
    <3>2. \A g \in Halves : g = h \/ half[g] = "gone"
      BY <3>1, OneEnd DEF Ends, Status
    <3> QED  BY <3>1, <3>2 DEF WalkA, IInv, TypeOK, chans
  <2>2. LeftA = chanA /\ LeftA' = todo' /\ ~Some(AfterA \cup {"dropA"}) /\ Some({"dropA"})'
    BY <2>1 DEF LeftA, Some, AfterA
  <2>3. todo' = chanA /\ droppedA' = droppedA
    BY DEF WalkA
  <2>4. Some(AfterA \cup {"dropA"})'
    BY <2>2 DEF Some
  <2> QED  BY <2>1, <2>2, <2>3, <2>4 DEF IInv, EachOnceA
<1>8. EachOnceB'
  <2>1. /\ half[h] = "fenced" /\ half'[h] = "dropA"
        /\ UNCHANGED <<chanA, chanB, rcvdA, rcvdB, sentA, sentB>>
        /\ \A g \in Halves : g = h \/ (half[g] = "gone" /\ half'[g] = "gone")
    <3>1. half[h] = "fenced" /\ half' = [half EXCEPT ![h] = "dropA"]
      BY DEF WalkA, IInv, TypeOK
    <3>2. \A g \in Halves : g = h \/ half[g] = "gone"
      BY <3>1, OneEnd DEF Ends, Status
    <3> QED  BY <3>1, <3>2 DEF WalkA, IInv, TypeOK, chans
  <2>2. /\ LeftB = chanB /\ LeftB' = chanB
        /\ ~Some(AfterB \cup {"dropB"})
    BY <2>1 DEF LeftB, Some, AfterB
  <2> QED  BY <2>1, <2>2 DEF IInv, EachOnceB, WalkA
<1> QED  BY <1>1, <1>2, <1>3, <1>4, <1>5, <1>6, <1>7, <1>8 DEF IInv

LEMMA DropAStep ==
  ASSUME IInv, NEW h \in Halves, DropA(h)
  PROVE  IInv'
<1>1. TypeOK'
  <2>1. /\ chanA' \in Seq(Values) /\ chanB' \in Seq(Values) /\ rcvdA' \in Seq(Values)
        /\ rcvdB' \in Seq(Values)
        /\ droppedA' \in Seq(Values) /\ droppedB' \in Seq(Values) /\ todo' \in Seq(Values)
    BY HeadTailProperties, AppendProperties DEF IInv, TypeOK, DropA, chans, drops
  <2>2. sentA' \in 0 .. MaxSend /\ sentB' \in 0 .. MaxSend
    BY MaxSendAssumption DEF IInv, TypeOK, DropA, chans
  <2>3. rcLog' \in Seq(0 .. 2)
    BY DEF IInv, TypeOK, DropA, count
  <2>4. half' \in [Halves -> Status] /\ keep' \in [Halves -> BOOLEAN]
    BY DEF IInv, TypeOK, Status, DropA, count
  <2>5. /\ accesses' \in [Halves -> Nat] /\ released' \in [Halves -> Nat]
        /\ ordered' \in [Halves -> Nat] /\ frees' \in Nat
    BY DEF IInv, TypeOK, Peer, DropA, count
  <2>6. /\ rcSeen' \in [Halves -> 1 .. 3]
        /\ told' \in [Halves -> {"nothing", "connected", "disconnected"}]
    BY LastCount DEF IInv, TypeOK, DropA, count
  <2> QED  BY <2>1, <2>2, <2>3, <2>4, <2>5, <2>6 DEF TypeOK
<1>2. OneEnds'
  BY OwnTyped DEF IInv, OneEnds, Here, Ends, DropA, count
<1>3. CountsDown'
  BY DEF IInv, TypeOK, CountsDown, DropA, count
<1>4. AllReleased'
  BY OwnTyped DEF IInv, AllReleased, Here, Ends, DropA, count
<1>5. FreedAtEnd'
  BY OwnTyped DEF IInv, FreedAtEnd, Some, DropA
<1>6. ToldTrue'
  BY OwnTyped DEF IInv, ToldTrue, Here, DropA, count
<1>7. EachOnceA'
  <2>1. /\ half[h] = "dropA" /\ half'[h] = "dropA"
        /\ UNCHANGED <<chanA, chanB, rcvdA, rcvdB, sentA, sentB>>
        /\ \A g \in Halves : g = h \/ (half[g] = "gone" /\ half'[g] = "gone")
    <3>1. half[h] = "dropA" /\ half' = [half EXCEPT ![h] = "dropA"]
      BY DEF DropA, IInv, TypeOK
    <3>2. \A g \in Halves : g = h \/ half[g] = "gone"
      BY <3>1, OneEnd DEF Ends, Status
    <3> QED  BY <3>1, <3>2 DEF DropA, IInv, TypeOK, chans
  <2>2. LeftA = todo /\ LeftA' = todo' /\ Some(AfterA \cup {"dropA"})'
    BY <2>1 DEF LeftA, Some, AfterA
  <2>3. todo # <<>> /\ droppedA' = Append(droppedA, Head(todo)) /\ todo' = Tail(todo)
    BY DEF DropA
  <2>4. /\ Follows(droppedA, Len(rcvdA)) /\ Follows(todo, Len(rcvdA) + Len(droppedA))
        /\ sentA = Len(rcvdA) + Len(droppedA) + Len(todo) /\ Follows(rcvdA, 0)
        /\ Len(rcvdA) \in Nat /\ Len(droppedA) \in Nat
        /\ todo \in Seq(Values) /\ droppedA \in Seq(Values)
    BY <2>2, LenProperties DEF IInv, TypeOK, EachOnceA, Delivered
  <2>5. /\ Head(todo) \in Values /\ Head(todo) = Len(rcvdA) + Len(droppedA) + 1 /\ Len(todo) \in Nat
        /\ Follows(todo', Len(rcvdA) + Len(droppedA) + 1) /\ Len(todo') = Len(todo) - 1
    <3> DEFINE k == Len(rcvdA) + Len(droppedA)
               m == Len(rcvdA) + Len(droppedA) + 1
    <3>1. k \in Nat /\ m \in Nat /\ m = k + 1 /\ Follows(todo, k)
      BY <2>4
    <3> HIDE DEF k, m, Values
    <3>2. /\ Head(todo) \in Values /\ Head(todo) = m /\ Len(todo) \in Nat
          /\ Follows(Tail(todo), m) /\ Len(Tail(todo)) = Len(todo) - 1
      BY <2>3, <2>4, <3>1, FollowsTail
    <3> QED  BY <2>3, <3>2 DEF m
  <2>6. Follows(droppedA', Len(rcvdA)) /\ Len(droppedA') = Len(droppedA) + 1
    BY <2>3, <2>4, <2>5, FollowsAppend
  <2> QED  BY <2>1, <2>2, <2>4, <2>5, <2>6 DEF EachOnceA, Delivered
<1>8. EachOnceB'
  <2>1. /\ half[h] = "dropA" /\ half'[h] = "dropA"
        /\ UNCHANGED <<chanA, chanB, rcvdA, rcvdB, sentA, sentB>>
        /\ \A g \in Halves : g = h \/ (half[g] = "gone" /\ half'[g] = "gone")
    <3>1. half[h] = "dropA" /\ half' = [half EXCEPT ![h] = "dropA"]
      BY DEF DropA, IInv, TypeOK
    <3>2. \A g \in Halves : g = h \/ half[g] = "gone"
      BY <3>1, OneEnd DEF Ends, Status
    <3> QED  BY <3>1, <3>2 DEF DropA, IInv, TypeOK, chans
  <2>2. LeftB = chanB /\ LeftB' = chanB /\ ~Some(AfterB \cup {"dropB"})
    BY <2>1 DEF LeftB, Some, AfterB
  <2> QED  BY <2>1, <2>2 DEF IInv, EachOnceB, DropA
<1> QED  BY <1>1, <1>2, <1>3, <1>4, <1>5, <1>6, <1>7, <1>8 DEF IInv

LEMMA WalkBStep ==
  ASSUME IInv, NEW h \in Halves, WalkB(h)
  PROVE  IInv'
<1>1. TypeOK'
  BY DEF IInv, TypeOK, Status, WalkB, chans, count
<1>2. OneEnds'
  BY OwnTyped DEF IInv, OneEnds, Status, Here, Ends, WalkB, count
<1>3. CountsDown'
  BY DEF IInv, TypeOK, CountsDown, WalkB, count
<1>4. AllReleased'
  BY OwnTyped DEF IInv, AllReleased, Here, Ends, WalkB, count
<1>5. FreedAtEnd'
  BY OwnTyped DEF IInv, FreedAtEnd, Some, WalkB
<1>6. ToldTrue'
  BY OwnTyped DEF IInv, ToldTrue, Here, WalkB, count
<1>7. EachOnceA'
  <2>1. /\ half[h] = "dropA" /\ half'[h] = "dropB"
        /\ UNCHANGED <<chanA, chanB, rcvdA, rcvdB, sentA, sentB>>
        /\ \A g \in Halves : g = h \/ (half[g] = "gone" /\ half'[g] = "gone")
    <3>1. half[h] = "dropA" /\ half' = [half EXCEPT ![h] = "dropB"]
      BY DEF WalkB, IInv, TypeOK
    <3>2. \A g \in Halves : g = h \/ half[g] = "gone"
      BY <3>1, OneEnd DEF Ends, Status
    <3> QED  BY <3>1, <3>2 DEF WalkB, IInv, TypeOK, chans
  <2>2. LeftA = todo /\ todo = <<>> /\ LeftA' = <<>> /\ Some(AfterA \cup {"dropA"})'
    BY <2>1 DEF LeftA, Some, AfterA, WalkB
  <2> QED  BY <2>1, <2>2 DEF IInv, EachOnceA, WalkB
<1>8. EachOnceB'
  <2>1. /\ half[h] = "dropA" /\ half'[h] = "dropB"
        /\ UNCHANGED <<chanA, chanB, rcvdA, rcvdB, sentA, sentB>>
        /\ \A g \in Halves : g = h \/ (half[g] = "gone" /\ half'[g] = "gone")
    <3>1. half[h] = "dropA" /\ half' = [half EXCEPT ![h] = "dropB"]
      BY DEF WalkB, IInv, TypeOK
    <3>2. \A g \in Halves : g = h \/ half[g] = "gone"
      BY <3>1, OneEnd DEF Ends, Status
    <3> QED  BY <3>1, <3>2 DEF WalkB, IInv, TypeOK, chans
  <2>2. LeftB = chanB /\ LeftB' = todo' /\ Some(AfterB \cup {"dropB"})'
    BY <2>1 DEF LeftB, Some, AfterB
  <2>3. todo' = chanB /\ droppedB' = droppedB
    BY DEF WalkB
  <2> QED  BY <2>1, <2>2, <2>3 DEF IInv, EachOnceB
<1> QED  BY <1>1, <1>2, <1>3, <1>4, <1>5, <1>6, <1>7, <1>8 DEF IInv

LEMMA DropBStep ==
  ASSUME IInv, NEW h \in Halves, DropB(h)
  PROVE  IInv'
<1>1. TypeOK'
  <2>1. /\ chanA' \in Seq(Values) /\ chanB' \in Seq(Values) /\ rcvdA' \in Seq(Values)
        /\ rcvdB' \in Seq(Values)
        /\ droppedA' \in Seq(Values) /\ droppedB' \in Seq(Values) /\ todo' \in Seq(Values)
    BY HeadTailProperties, AppendProperties DEF IInv, TypeOK, DropB, chans, drops
  <2>2. sentA' \in 0 .. MaxSend /\ sentB' \in 0 .. MaxSend
    BY MaxSendAssumption DEF IInv, TypeOK, DropB, chans
  <2>3. rcLog' \in Seq(0 .. 2)
    BY DEF IInv, TypeOK, DropB, count
  <2>4. half' \in [Halves -> Status] /\ keep' \in [Halves -> BOOLEAN]
    BY DEF IInv, TypeOK, Status, DropB, count
  <2>5. /\ accesses' \in [Halves -> Nat] /\ released' \in [Halves -> Nat]
        /\ ordered' \in [Halves -> Nat] /\ frees' \in Nat
    BY DEF IInv, TypeOK, Peer, DropB, count
  <2>6. /\ rcSeen' \in [Halves -> 1 .. 3]
        /\ told' \in [Halves -> {"nothing", "connected", "disconnected"}]
    BY LastCount DEF IInv, TypeOK, DropB, count
  <2> QED  BY <2>1, <2>2, <2>3, <2>4, <2>5, <2>6 DEF TypeOK
<1>2. OneEnds'
  BY OwnTyped DEF IInv, OneEnds, Here, Ends, DropB, count
<1>3. CountsDown'
  BY DEF IInv, TypeOK, CountsDown, DropB, count
<1>4. AllReleased'
  BY OwnTyped DEF IInv, AllReleased, Here, Ends, DropB, count
<1>5. FreedAtEnd'
  BY OwnTyped DEF IInv, FreedAtEnd, Some, DropB
<1>6. ToldTrue'
  BY OwnTyped DEF IInv, ToldTrue, Here, DropB, count
<1>7. EachOnceA'
  BY DEF IInv, TypeOK, EachOnceA, OneEnds, Here, Ends, Peer, Status, LeftA, Some, DropB, chans
<1>8. EachOnceB'
  <2>1. /\ half[h] = "dropB" /\ half'[h] = "dropB"
        /\ UNCHANGED <<chanA, chanB, rcvdA, rcvdB, sentA, sentB>>
        /\ \A g \in Halves : g = h \/ (half[g] = "gone" /\ half'[g] = "gone")
    <3>1. half[h] = "dropB" /\ half' = [half EXCEPT ![h] = "dropB"]
      BY DEF DropB, IInv, TypeOK
    <3>2. \A g \in Halves : g = h \/ half[g] = "gone"
      BY <3>1, OneEnd DEF Ends, Status
    <3> QED  BY <3>1, <3>2 DEF DropB, IInv, TypeOK, chans
  <2>2. LeftB = todo /\ LeftB' = todo' /\ Some(AfterB \cup {"dropB"})'
    BY <2>1 DEF LeftB, Some, AfterB
  <2>3. todo # <<>> /\ droppedB' = Append(droppedB, Head(todo)) /\ todo' = Tail(todo)
    BY DEF DropB
  <2>4. /\ Follows(droppedB, Len(rcvdB)) /\ Follows(todo, Len(rcvdB) + Len(droppedB))
        /\ sentB = Len(rcvdB) + Len(droppedB) + Len(todo) /\ Follows(rcvdB, 0)
        /\ Len(rcvdB) \in Nat /\ Len(droppedB) \in Nat
        /\ todo \in Seq(Values) /\ droppedB \in Seq(Values)
    BY <2>2, LenProperties DEF IInv, TypeOK, EachOnceB, Delivered
  <2>5. /\ Head(todo) \in Values /\ Head(todo) = Len(rcvdB) + Len(droppedB) + 1 /\ Len(todo) \in Nat
        /\ Follows(todo', Len(rcvdB) + Len(droppedB) + 1) /\ Len(todo') = Len(todo) - 1
    <3> DEFINE k == Len(rcvdB) + Len(droppedB)
               m == Len(rcvdB) + Len(droppedB) + 1
    <3>1. k \in Nat /\ m \in Nat /\ m = k + 1 /\ Follows(todo, k)
      BY <2>4
    <3> HIDE DEF k, m, Values
    <3>2. /\ Head(todo) \in Values /\ Head(todo) = m /\ Len(todo) \in Nat
          /\ Follows(Tail(todo), m) /\ Len(Tail(todo)) = Len(todo) - 1
      BY <2>3, <2>4, <3>1, FollowsTail
    <3> QED  BY <2>3, <3>2 DEF m
  <2>6. Follows(droppedB', Len(rcvdB)) /\ Len(droppedB') = Len(droppedB) + 1
    BY <2>3, <2>4, <2>5, FollowsAppend
  <2> QED  BY <2>1, <2>2, <2>4, <2>5, <2>6 DEF EachOnceB, Delivered
<1> QED  BY <1>1, <1>2, <1>3, <1>4, <1>5, <1>6, <1>7, <1>8 DEF IInv

LEMMA DisposedStep ==
  ASSUME IInv, NEW h \in Halves, Disposed(h)
  PROVE  IInv'
<1>1. TypeOK'
  BY DEF IInv, TypeOK, Status, Disposed, chans, drops, count
<1>2. OneEnds'
  BY OwnTyped DEF IInv, OneEnds, Status, Here, Ends, Disposed, count
<1>3. CountsDown'
  BY DEF IInv, TypeOK, CountsDown, Disposed, count
<1>4. AllReleased'
  BY OwnTyped DEF IInv, AllReleased, Here, Ends, Disposed, count
<1>5. FreedAtEnd'
  BY OwnTyped DEF IInv, FreedAtEnd, Some, Disposed
<1>6. ToldTrue'
  BY OwnTyped DEF IInv, ToldTrue, Here, Disposed, count
<1>7. EachOnceA'
  BY DEF IInv, TypeOK, EachOnceA, AfterA, LeftA, Some, Disposed, chans, drops
<1>8. EachOnceB'
  BY DEF IInv, TypeOK, EachOnceB, AfterB, LeftB, Some, Disposed, chans, drops
<1> QED  BY <1>1, <1>2, <1>3, <1>4, <1>5, <1>6, <1>7, <1>8 DEF IInv

LEMMA FreeStep ==
  ASSUME IInv, NEW h \in Halves, Free(h)
  PROVE  IInv'
<1>1. TypeOK'
  <2>1. half' \in [Halves -> Status]
    BY DEF IInv, TypeOK, Status, Free
  <2>2. frees' \in Nat
    BY DEF IInv, TypeOK, Free
  <2>3. UNCHANGED <<chans, drops, keep, count, told, accesses, ordered>> /\ TypeOK
    BY DEF IInv, Free
  <2> QED  BY <2>1, <2>2, <2>3 DEF TypeOK, chans, drops, count
<1>2. OneEnds'
  BY OwnTyped DEF IInv, OneEnds, Status, Here, Ends, Free, count
<1>3. CountsDown'
  BY DEF IInv, TypeOK, CountsDown, Free, count
<1>4. AllReleased'
  BY OwnTyped DEF IInv, AllReleased, Here, Ends, Free, count
<1>5. FreedAtEnd'
  BY OwnTyped DEF IInv, FreedAtEnd, OneEnds, Here, Ends, Peer, Status, Some, Free
<1>6. ToldTrue'
  BY OwnTyped DEF IInv, ToldTrue, Here, Free, count
<1>7. EachOnceA'
  BY DEF IInv, TypeOK, EachOnceA, AfterA, LeftA, Some, Free, chans, drops
<1>8. EachOnceB'
  BY DEF IInv, TypeOK, EachOnceB, AfterB, LeftB, Some, Free, chans, drops
<1> QED  BY <1>1, <1>2, <1>3, <1>4, <1>5, <1>6, <1>7, <1>8 DEF IInv

LEMMA Initially == Init => IInv
<1> SUFFICES ASSUME Init PROVE IInv
  OBVIOUS
<1>1. TypeOK
  BY MaxSendAssumption DEF Init, QueueA!Init, QueueB!Init, TypeOK, Status
<1>2. OneEnds /\ CountsDown /\ AllReleased /\ ToldTrue
  BY DEF Init, OneEnds, CountsDown, AllReleased, ToldTrue, Here, Ends, Peer, Status
<1>3. ~Some({"done"}) /\ ~Some(AfterA) /\ ~Some(AfterB) /\ ~Some({"dropA"}) /\ ~Some({"dropB"})
  BY DEF Init, Some, AfterA, AfterB
<1>4. FreedAtEnd /\ EachOnceA /\ EachOnceB
  BY <1>3 DEF Init, QueueA!Init, QueueB!Init, FreedAtEnd, EachOnceA, EachOnceB, LeftA, LeftB,
         Delivered, Follows
<1> QED  BY <1>1, <1>2, <1>4 DEF IInv

LEMMA Unchanging ==
  ASSUME IInv, UNCHANGED vars
  PROVE  IInv'
<1>1. /\ UNCHANGED <<chanA, rcvdA, chanB, rcvdB, sentA, sentB, droppedA, droppedB, todo>>
      /\ UNCHANGED <<half, keep, rcLog, rcSeen, released, told, accesses, ordered, frees>>
  BY DEF vars, chans, drops, count
<1>2. TypeOK'
  BY <1>1 DEF IInv, TypeOK
<1>3. (OneEnds /\ CountsDown /\ AllReleased /\ ToldTrue)'
  BY <1>1 DEF IInv, OneEnds, CountsDown, AllReleased, ToldTrue, Here, Ends
<1>4. (FreedAtEnd /\ EachOnceA /\ EachOnceB)'
  BY <1>1 DEF IInv, FreedAtEnd, EachOnceA, EachOnceB, LeftA, LeftB, Some
<1> QED  BY <1>2, <1>3, <1>4 DEF IInv

LEMMA Inductive ==
  ASSUME IInv, [Next]_vars
  PROVE  IInv'
<1>1. ASSUME NEW h \in Halves, Send(h) \/ Recv(h) \/ IntoRaw(h) \/ FromRaw(h) PROVE IInv'
  BY <1>1, SendStep, RecvStep, IntoRawStep, FromRawStep
<1>2. ASSUME NEW h \in Halves, NEW i \in 1 .. Len(rcLog), IsConnected(h, i) PROVE IInv'
  BY <1>2, IsConnectedStep
<1>3. ASSUME NEW h \in Halves, NEW k \in BOOLEAN, Dispose(h, k) PROVE IInv'
  BY <1>3, DisposeStep
<1>4. ASSUME NEW h \in Halves, Teardown(h) PROVE IInv'
  BY <1>4, FenceStep, WalkAStep, DropAStep, WalkBStep, DropBStep, DisposedStep,
     FreeStep DEF Teardown
<1> QED  BY <1>1, <1>2, <1>3, <1>4, Unchanging DEF Next

THEOREM Invariance == Spec => []IInv
<1>1. IInv /\ [Next]_vars => IInv'
  BY Inductive
<1> QED  BY <1>1, Initially, PTL DEF Spec

-----------------------------------------------------------------------------
\* Every variable keeps its type.
THEOREM TypeCorrect == Spec => []TypeOK
<1>1. IInv => TypeOK
  BY DEF IInv
<1> QED  BY <1>1, Invariance, PTL

\* The count is the number of halves that are still there, dropped or disposed of in
\* whatever order (fetch_sub in drop and dispose_raw).
THEOREM CountCorrect == Spec => []CountExact
<1>1. IInv => CountExact
  <2> SUFFICES ASSUME IInv PROVE CountExact
    OBVIOUS
  <2> DEFINE S == {h \in Halves : half[h] \in {"live", "raw"}}
  <2>1. rcLog[Len(rcLog)] = 3 - Len(rcLog)
    BY LastCount
  <2>2. CASE Len(rcLog) = 1
    <3>1. S = {"A"} \cup {"B"} /\ "B" \notin {"A"}
      BY <2>2 DEF IInv, OneEnds, Here
    <3>2. IsFiniteSet({"A"}) /\ Cardinality({"A"}) = 1
      BY FS_Singleton
    <3>3. Cardinality(S) = Cardinality({"A"}) + 1
      BY <3>1, <3>2, FS_AddElement, Zenon
    <3> QED  BY <2>1, <2>2, <3>2, <3>3 DEF CountExact, Last
  <2>3. CASE Len(rcLog) = 2
    <3>1. S = {"A"} \/ S = {"B"}
      BY <2>3 DEF IInv, OneEnds, Here, Peer
    <3>2. Cardinality(S) = 1
      BY <3>1, FS_Singleton
    <3> QED  BY <2>1, <2>3, <3>2 DEF CountExact, Last
  <2>4. CASE Len(rcLog) = 3
    <3>1. S = {}
      BY <2>4 DEF IInv, OneEnds, Ends, Peer, Status
    <3>2. Cardinality(S) = 0
      BY <3>1, FS_EmptySet
    <3> QED  BY <2>1, <2>4, <3>2 DEF CountExact, Last
  <2> QED  BY <2>2, <2>3, <2>4 DEF IInv, OneEnds
<1> QED  BY <1>1, Invariance, PTL

\* Whoever reads the queues without atomics has every access of the other half before it.
THEOREM TeardownInOrder == Spec => []TeardownOrdered
<1>1. IInv => TeardownOrdered
  BY DEF IInv, AllReleased, TeardownOrdered, Ends, Status
<1> QED  BY <1>1, Invariance, PTL

\* The memory is given back once at most, and then nobody can reach it.
THEOREM FreedAtMostOnce == Spec => []FreedOnce
<1>1. IInv => FreedOnce
  <2> SUFFICES ASSUME IInv PROVE FreedOnce
    OBVIOUS
  <2>1. frees <= 1
    BY DEF IInv, FreedAtEnd
  <2>2. \A h \in Halves : half[h] \in {"freeing", "kept", "done"} => half[Peer(h)] = "gone"
    BY OneEnd DEF Ends, Status
  <2> QED  BY <2>1, <2>2 DEF FreedOnce
<1> QED  BY <1>1, Invariance, PTL

\* Two sequences that go on one after the other, put together.
LEMMA PutTogether ==
  ASSUME NEW r \in Seq(Values), NEW d \in Seq(Values), NEW n \in Nat,
         Follows(r, 0), Follows(d, Len(r)), Len(r) + Len(d) <= n
  PROVE  /\ IsPrefix(r \o d, Upto(n))
         /\ Len(r) + Len(d) = n => r \o d = Upto(n)
<1> DEFINE s == r \o d
           t == Upto(n)
           m == Len(r) + Len(d)
<1>1. Len(r) \in Nat /\ Len(d) \in Nat
  BY LenProperties
<1>2. s \in Seq(Values) /\ Len(s) = m
      /\ \A i \in 1 .. m : s[i] = IF i <= Len(r) THEN r[i] ELSE d[i - Len(r)]
  BY ConcatProperties
<1>3. ASSUME NEW i \in 1 .. m PROVE s[i] = i
  <2>1. CASE i <= Len(r)
    <3>1. r[i] = 0 + i
      BY <1>1, <2>1 DEF Follows
    <3> QED  BY <1>2, <2>1, <3>1
  <2>2. CASE ~(i <= Len(r))
    <3>1. i - Len(r) \in 1 .. Len(d)
      BY <1>1, <2>2
    <3>2. d[i - Len(r)] = Len(r) + (i - Len(r))
      BY <3>1 DEF Follows
    <3>3. d[i - Len(r)] = i
      BY <1>1, <3>2
    <3> QED  BY <1>2, <2>2, <3>3
  <2> QED  BY <2>1, <2>2
<1>4. t \in Seq(Nat) /\ Len(t) = n /\ \A i \in 1 .. n : t[i] = i
  BY DEF Upto
<1>5. s \in Seq(Nat)
  BY <1>2, MaxSendAssumption, SeqMonotonic
<1> HIDE DEF s, t
<1>6. /\ SubSeq(s, 1, m) \in Seq(Nat) /\ Len(SubSeq(s, 1, m)) = m
      /\ \A i \in 1 .. m : SubSeq(s, 1, m)[i] = i
  BY <1>1, <1>3, SubSeqProperties
<1>7. /\ SubSeq(t, 1, m) \in Seq(Nat) /\ Len(SubSeq(t, 1, m)) = m
      /\ \A i \in 1 .. m : SubSeq(t, 1, m)[i] = i
  BY <1>1, <1>4, SubSeqProperties
<1>8. SubSeq(s, 1, m) = SubSeq(t, 1, m)
  BY <1>6, <1>7, SeqEqual
<1>9. IsPrefix(s, t)
  BY <1>2, <1>4, <1>8 DEF IsPrefix
<1>10. ASSUME m = n PROVE s = t
  BY <1>2, <1>3, <1>4, <1>5, <1>10, SeqEqual
<1> QED  BY <1>9, <1>10 DEF s, t

\* No value is received or dropped twice, none out of order, and none is left when the
\* memory goes.
THEOREM NothingLostNorDoubled == Spec => []ExactlyOnce
<1>1. IInv => ExactlyOnce
  <2> SUFFICES ASSUME IInv PROVE ExactlyOnce
    OBVIOUS
  <2>1. rcvdA \in Seq(Values) /\ droppedA \in Seq(Values) /\ sentA \in Nat /\ Len(LeftA) \in Nat
    BY LenProperties DEF IInv, TypeOK, LeftA
  <2>2. rcvdB \in Seq(Values) /\ droppedB \in Seq(Values) /\ sentB \in Nat /\ Len(LeftB) \in Nat
    BY LenProperties DEF IInv, TypeOK, LeftB
  <2>3. /\ Follows(rcvdA, 0) /\ Follows(droppedA, Len(rcvdA))
        /\ Len(rcvdA) + Len(droppedA) + Len(LeftA) = sentA
    BY DEF IInv, EachOnceA, Delivered
  <2>4. /\ Follows(rcvdB, 0) /\ Follows(droppedB, Len(rcvdB))
        /\ Len(rcvdB) + Len(droppedB) + Len(LeftB) = sentB
    BY DEF IInv, EachOnceB, Delivered
  <2>5. Len(rcvdA) + Len(droppedA) <= sentA /\ Len(rcvdB) + Len(droppedB) <= sentB
    BY <2>1, <2>2, <2>3, <2>4, LenProperties
  <2>6. ASSUME frees > 0
        PROVE  Len(rcvdA) + Len(droppedA) = sentA /\ Len(rcvdB) + Len(droppedB) = sentB
    <3>1. Some({"done"})
      BY <2>6 DEF IInv, FreedAtEnd
    <3>2. Some(AfterA) /\ Some(AfterB)
      BY <3>1 DEF Some, AfterA, AfterB
    <3>3. LeftA = <<>> /\ LeftB = <<>>
      BY <3>2 DEF LeftA, LeftB
    <3> QED  BY <2>1, <2>2, <2>3, <2>4, <3>3, LenProperties
  <2>7. IsPrefix(rcvdA \o droppedA, Upto(sentA)) /\ IsPrefix(rcvdB \o droppedB, Upto(sentB))
    BY <2>1, <2>2, <2>3, <2>4, <2>5, PutTogether
  <2>8. frees > 0 => rcvdA \o droppedA = Upto(sentA) /\ rcvdB \o droppedB = Upto(sentB)
    <3>1. Len(rcvdA) + Len(droppedA) = sentA => rcvdA \o droppedA = Upto(sentA)
      BY <2>1, <2>3, <2>5, PutTogether
    <3>2. Len(rcvdB) + Len(droppedB) = sentB => rcvdB \o droppedB = Upto(sentB)
      BY <2>2, <2>4, <2>5, PutTogether
    <3> QED  BY <2>6, <3>1, <3>2
  <2> QED  BY <2>7, <2>8 DEF ExactlyOnce
<1> QED  BY <1>1, Invariance, PTL

\* is_connected is right when it says "no", although it reads without ordering, and it
\* never takes it back.
THEOREM DisconnectedStays == Spec => DisconnectedIsFinal
<1> DEFINE Final == \A h \in Halves :
             told[h] = "disconnected" =>
               half[Peer(h)] \notin {"live", "raw"} /\ told'[h] = "disconnected"
<1>1. IInv /\ [Next]_vars => [Final]_vars
  <2> SUFFICES ASSUME IInv, Next, NEW h \in Halves, told[h] = "disconnected"
               PROVE  half[Peer(h)] \notin {"live", "raw"} /\ told'[h] = "disconnected"
    OBVIOUS
  <2>1. half[Peer(h)] \notin {"live", "raw"} /\ rcSeen[h] >= 2
    BY DEF IInv, ToldTrue, Here
  <2>2. ASSUME NEW g \in Halves, NEW i \in 1 .. Len(rcLog), IsConnected(g, i)
        PROVE  told'[h] = "disconnected"
    <3>1. CASE g = h
      <4>1. i \in rcSeen[h] .. Len(rcLog) /\ rcSeen[h] \in 1 .. 3
        BY <2>2, <3>1 DEF IInv, TypeOK, IsConnected
      <4>2. i >= 2 /\ i \in Nat
        BY <2>1, <4>1, LastCount
      <4>3. rcLog[i] = 3 - i
        BY DEF IInv, CountsDown
      <4>4. ~(rcLog[i] > 1)
        BY <4>2, <4>3
      <4> QED  BY <2>2, <3>1, <4>4 DEF IsConnected, Connected, IInv, TypeOK
    <3>2. CASE g # h
      BY <2>2, <3>2 DEF IsConnected, IInv, TypeOK
    <3> QED  BY <3>1, <3>2
  <2>3. ASSUME NEW g \in Halves,
               \/ Send(g) \/ Recv(g) \/ IntoRaw(g) \/ FromRaw(g)
               \/ (\E k \in BOOLEAN : Dispose(g, k)) \/ Teardown(g)
        PROVE  told' = told
    BY <2>3 DEF Send, Recv, Access, IntoRaw, FromRaw, Dispose, Teardown, Fence, WalkA, DropA, WalkB,
                DropB, Disposed, Free
  <2>4. told'[h] = "disconnected"
    BY <2>2, <2>3 DEF Next
  <2> QED  BY <2>1, <2>4
<1> QED  BY <1>1, Invariance, PTL DEF Spec, DisconnectedIsFinal
=============================================================================
