---------------------------- MODULE BuffersProofs ----------------------------
(***************************************************************************)
(* Buffers are lent as the ownership model says, and answers are found in  *)
(* the buffers of the operation they are of, for any number of tasks,      *)
(* operations and blocks.                                                  *)
(*                                                                         *)
(* A block has at most one owner: the future or Op of a task, or the entry *)
(* of a cancelled operation (Owned).  The buffers that a request under way *)
(* names are those of its operation's owner (Named), so two requests never *)
(* name the same block, and what is freed is never named.  Hence what the  *)
(* server wrote for a request stays until its answer is taken (Answered).  *)
(***************************************************************************)
EXTENDS Buffers, RuntimeProofs

Owned ==
  /\ \A t \in Tasks : held[t] \subseteq used
  /\ \A o \in Ops : kept[o] \subseteq used /\ (kept[o] # {} => entry[o] = "cancelled")
  /\ \A t, u \in Tasks : t # u => held[t] \cap held[u] = {}
  /\ \A o, p \in Ops : o # p => kept[o] \cap kept[p] = {}
  /\ \A t \in Tasks, o \in Ops : held[t] \cap kept[o] = {}
  /\ kept[Exit] = {} /\ (PerOp = 0 => used = {})

\* The buffers of an operation: with its entry, once cancelled, or with its task.
Buffer(o) == IF entry[o] = "cancelled" \/ o = Exit THEN kept[o] ELSE held[o[1]]

Named == \A o \in Ops : token[o] = IF o \in InFlight THEN Buffer(o) ELSE {}

Answered == \A o \in (answers \ serving) \cup ToSet(rq) : \A b \in token[o] : contents[b] = o

BInv == IInv /\ BTypeOK /\ Owned /\ Named /\ Answered /\ OwnResponse

-----------------------------------------------------------------------------
(* Who has which blocks. *)

LEMMA BTyped ==
  ASSUME BInv
  PROVE  /\ used \subseteq Blocks /\ held \in [Tasks -> SUBSET Blocks]
         /\ kept \in [Ops -> SUBSET Blocks] /\ token \in [Ops -> SUBSET Blocks]
         /\ contents \in [Blocks -> Ops] /\ serving \subseteq answers
         /\ entry \in [Ops -> {"none", "live", "completed", "cancelled"}]
         /\ stage \in [Actors -> {"join", "slot", "ring", "op", "done", "aborted"}]
         /\ round \in [Actors -> 1 .. Rounds] /\ cur \in Actors /\ Tasks \subseteq Actors
         /\ answers \subseteq InFlight /\ ToSet(rq) \subseteq InFlight
         /\ InFlight \subseteq Ops /\ Exit \in Ops /\ Main \notin Tasks
<1>1. InFlight \subseteq Ops
  BY UnderWay DEF BInv, IInv
<1>2. answers \subseteq InFlight /\ ToSet(rq) \subseteq InFlight
  BY DEF InFlight
<1>3. Exit \in Ops /\ Tasks \subseteq Actors
  BY DEF Ops, Actors
<1> QED  BY <1>1, <1>2, <1>3, Typed, NamesAssumption DEF BInv, IInv, BTypeOK

\* An operation under way is the one its owner is at.
LEMMA OwnerAt ==
  ASSUME BInv, NEW o \in Ops, entry[o] # "none"
  PROVE  /\ o[1] \in Actors /\ o = Op(o[1]) /\ stage[o[1]] \in {"ring", "op", "aborted"}
         /\ o # Exit => o[1] \in Tasks
<1>1. o[1] \in Actors /\ o = <<o[1], o[2]>> /\ (o # Exit => o[1] \in Tasks)
  BY OpsOf DEF BInv, IInv
<1>2. o[2] = round[o[1]] /\ stage[o[1]] \in {"ring", "op", "aborted"}
  BY DEF BInv, IInv, Core, Own
<1> QED  BY <1>1, <1>2 DEF Op

LEMMA OpOf ==
  ASSUME BInv, NEW t \in Tasks
  PROVE  Op(t) \in Ops /\ Op(t)[1] = t /\ Op(t) # Exit
  BY OpsOf, BTyped, NamesAssumption DEF BInv, IInv, Op, Exit

LEMMA Live ==
  ASSUME BInv, NEW o \in InFlight
  PROVE  o \in Ops /\ entry[o] \in {"live", "cancelled"} /\ stage[o[1]] # "ring"
  BY BTyped DEF BInv, IInv, Core, Known

LEMMA HeldApart ==
  ASSUME BInv, NEW t \in Tasks, NEW o \in Ops, o # Op(t) \/ entry[o] # "live"
  PROVE  held[t] \cap token[o] = {}
<1>1. CASE o \notin InFlight
  BY <1>1 DEF BInv, Named
<1>2. CASE o \in InFlight /\ (entry[o] = "cancelled" \/ o = Exit)
  BY <1>2 DEF BInv, Named, Buffer, Owned
<1>3. CASE o \in InFlight /\ ~(entry[o] = "cancelled" \/ o = Exit)
  <2>1. entry[o] = "live"
    BY <1>3, Live
  <2>2. o[1] \in Tasks /\ o[1] # t
    BY <1>3, <2>1, OwnerAt
  <2>3. token[o] = held[o[1]]
    BY <1>3 DEF BInv, Named, Buffer
  <2> QED  BY <2>2, <2>3 DEF BInv, Owned
<1> QED  BY <1>1, <1>2, <1>3

LEMMA KeptApart ==
  ASSUME BInv, NEW p \in Ops, NEW o \in Ops, o # p
  PROVE  kept[p] \cap token[o] = {}
<1>1. CASE o \notin InFlight
  BY <1>1 DEF BInv, Named
<1>2. CASE o \in InFlight /\ (entry[o] = "cancelled" \/ o = Exit)
  BY <1>2 DEF BInv, Named, Buffer, Owned
<1>3. CASE o \in InFlight /\ ~(entry[o] = "cancelled" \/ o = Exit)
  <2>1. o[1] \in Tasks
    BY <1>3, Live, OwnerAt
  <2>2. token[o] = held[o[1]]
    BY <1>3 DEF BInv, Named, Buffer
  <2> QED  BY <2>1, <2>2 DEF BInv, Owned
<1> QED  BY <1>1, <1>2, <1>3

\* What one request names no other does, and it is allocated.
LEMMA TokensApart ==
  ASSUME BInv, NEW o \in Ops
  PROVE  /\ token[o] \subseteq used
         /\ \A p \in Ops : o # p => token[p] \cap token[o] = {}
<1>1. CASE o \notin InFlight
  BY <1>1 DEF BInv, Named
<1>2. CASE o \in InFlight /\ (entry[o] = "cancelled" \/ o = Exit)
  <2>1. token[o] = kept[o]
    BY <1>2 DEF BInv, Named, Buffer
  <2> QED  BY <2>1, KeptApart DEF BInv, Owned
<1>3. CASE o \in InFlight /\ ~(entry[o] = "cancelled" \/ o = Exit)
  <2>1. o[1] \in Tasks /\ o = Op(o[1])
    BY <1>3, Live, OwnerAt
  <2>2. token[o] = held[o[1]]
    BY <1>3 DEF BInv, Named, Buffer
  <2>3. token[o] \subseteq used
    BY <2>1, <2>2 DEF BInv, Owned
  <2> QED  BY <2>1, <2>2, <2>3, HeldApart
<1> QED  BY <1>1, <1>2, <1>3

-----------------------------------------------------------------------------
(* Every step preserves the invariant. *)

LEMMA BInitOK == BInit => BInv
<1> SUFFICES ASSUME BInit PROVE BInv
  OBVIOUS
<1>1. IInv
  BY InitOK DEF BInit
<1>2. Exit \in Ops /\ InFlight = {} /\ answers = {} /\ ToSet(rq) = {}
  BY DEF BInit, Init, InFlight, ToSet, Ops
<1>3. BTypeOK
  <2>1. Cardinality(serving) = 0
    BY FS_EmptySet DEF BInit
  <2> QED  BY <1>1, <1>2, <2>1 DEF BInit, BTypeOK, IInv
<1>4. Owned /\ Named /\ Answered /\ OwnResponse
  <2>1. \A t \in Tasks : held[t] = {}
    BY DEF BInit
  <2>2. \A o \in Ops : kept[o] = {} /\ token[o] = {}
    BY DEF BInit
  <2> QED  BY <1>2, <2>1, <2>2 DEF BInit, Owned, Named, Answered, OwnResponse
<1> QED  BY <1>1, <1>3, <1>4 DEF BInv

LEMMA OpKept ==
  ASSUME UNCHANGED round
  PROVE  \A a : Op(a)' = Op(a)
BY DEF Op

\* Steps that leave entries, requests and buffers alone.
LEMMA Still ==
  ASSUME BInv, IInv', UNCHANGED <<entry, round, sq, rq, answers, buffers>>,
         \A t \in Tasks : stage'[t] = "op" => stage[t] = "op"
  PROVE  BInv'
<1>1. InFlight' = InFlight
  BY DEF InFlight
<1>2. UNCHANGED <<used, held, kept, token, contents, serving, fate>>
  BY DEF buffers, boxes
<1>3. BTypeOK'
  BY <1>2 DEF BInv, IInv, BTypeOK
<1>4. Owned' /\ Named' /\ Answered'
  BY <1>1, <1>2 DEF BInv, Owned, Named, Buffer, Answered
<1>5. OwnResponse'
  BY <1>2, OpKept DEF BInv, OwnResponse
<1> QED  BY <1>3, <1>4, <1>5 DEF BInv

\* A task that has none gets blocks nobody has; it has no operation under way.
LEMMA AllocStep ==
  ASSUME BInv, IInv', Alloc, AllocSubmit \/ AllocWait
  PROVE  BInv'
<1> DEFINE o == Op(cur)
<1>1. /\ UNCHANGED <<kept, token, serving, fate, contents, round, sq, rq, answers>>
      /\ stage[cur] = "slot"
      /\ entry' = entry \/ entry' = [entry EXCEPT ![o] = "live"]
      /\ stage' = stage \/ stage' = [stage EXCEPT ![cur] = "ring"]
  BY DEF AllocSubmit, AllocWait, Submit, WaitForEntry, At, Goto, Alloc
<1>2. InFlight' = InFlight
  BY <1>1 DEF InFlight
<1>3. o \in Ops
  BY BTyped, OpsOf DEF BInv, IInv
<1>4. \A p \in Ops : entry[p] # "none" => p[1] # cur /\ p # o
  <2>1. \A p \in Ops : entry[p] # "none" => p[1] # cur
    BY <1>1, OwnerAt
  <2>2. o[1] = cur
    BY DEF Op
  <2> QED  BY <2>1, <2>2
<1> HIDE DEF o
<1>5. \A p \in Ops : entry[p] # "none" => entry'[p] = entry[p]
  BY <1>1, <1>4, BTyped
<1>6. \A p \in Ops : entry'[p] \in {"cancelled", "completed"} => entry'[p] = entry[p]
  BY <1>1, <1>3, BTyped
<1>7. \A t \in Tasks : stage'[t] = "op" => stage[t] = "op" /\ t # cur
  BY <1>1, BTyped
<1>8. \/ UNCHANGED <<used, held>>
      \/ \E s \in SUBSET (Blocks \ used) :
            /\ cur \in Tasks /\ held[cur] = {} /\ (PerOp = 0 => s = {})
            /\ used' = used \cup s /\ held' = [held EXCEPT ![cur] = s]
  <2>1. \A s \in Available : s \in SUBSET (Blocks \ used) /\ (PerOp = 0 => s = {})
    <3> SUFFICES ASSUME NEW s \in Available
                 PROVE  s \in SUBSET (Blocks \ used) /\ (PerOp = 0 => s = {})
      OBVIOUS
    <3>1. s \in SUBSET (Blocks \ used) /\ Cardinality(s) = PerOp
      BY DEF Available, kSubset
    <3>2. IsFiniteSet(s)
      BY <3>1, BlocksAssumption, FS_Subset
    <3> QED  BY <3>1, <3>2, FS_EmptySet
  <2> QED  BY <2>1 DEF Alloc
<1>9. \A t \in Tasks : t # cur => held'[t] = held[t]
  BY <1>8, BTyped
<1>10. BTypeOK'
  BY <1>1, <1>8, BTyped DEF BInv, IInv, BTypeOK
<1>11. Owned'
  <2>1. \A p \in Ops : kept[p] # {} => entry'[p] = "cancelled"
    BY <1>5 DEF BInv, Owned
  <2>2. CASE UNCHANGED <<used, held>>
    BY <1>1, <2>1, <2>2 DEF BInv, Owned
  <2>3. ASSUME NEW s \in SUBSET (Blocks \ used), cur \in Tasks, PerOp = 0 => s = {},
               used' = used \cup s, held' = [held EXCEPT ![cur] = s]
        PROVE  Owned'
    <3>1. held'[cur] = s /\ s \cap used = {}
      BY <2>3, BTyped
    <3>2. \A t \in Tasks : held[t] \subseteq used /\ (t # cur => held'[t] = held[t])
      BY <1>9 DEF BInv, Owned
    <3>3. \A p \in Ops : kept[p] \subseteq used
      BY DEF BInv, Owned
    <3>4. \A t \in Tasks : held'[t] \subseteq used' /\ \A p \in Ops : held'[t] \cap kept[p] = {}
      BY <2>3, <3>1, <3>2, <3>3 DEF BInv, Owned
    <3>5. \A t, u \in Tasks : t # u => held'[t] \cap held'[u] = {}
      BY <3>1, <3>2 DEF BInv, Owned
    <3>6. \A p \in Ops : kept[p] \subseteq used'
      BY <2>3, <3>3
    <3> QED  BY <1>1, <2>1, <2>3, <3>4, <3>5, <3>6 DEF BInv, Owned
  <2> QED  BY <1>8, <2>2, <2>3
<1>12. Named'
  <2>1. ASSUME NEW p \in InFlight PROVE Buffer(p)' = Buffer(p)
    <3>1. p \in Ops /\ entry[p] # "none"
      BY Live
    <3>2. entry'[p] = entry[p] /\ p[1] # cur /\ (p # Exit => p[1] \in Tasks)
      BY <1>4, <1>5, <3>1, OwnerAt
    <3> QED  BY <1>1, <1>9, <3>2 DEF Buffer
  <2> QED  BY <1>1, <1>2, <2>1 DEF BInv, Named
<1>13. Answered' /\ OwnResponse'
  <2>1. Answered'
    BY <1>1 DEF BInv, Answered
  <2>2. \A t \in Tasks : stage'[t] = "op" /\ entry'[Op(t)] = "completed"
                            => stage[t] = "op" /\ entry[Op(t)] = "completed" /\ held'[t] = held[t]
    BY <1>6, <1>7, <1>9, OpOf
  <2> QED  BY <1>1, <2>1, <2>2, OpKept DEF BInv, OwnResponse
<1> QED  BY <1>10, <1>11, <1>12, <1>13 DEF BInv

LEMMA SendTokenStep ==
  ASSUME BInv, IInv', SendToken
  PROVE  BInv'
<1> DEFINE o == Op(cur)
<1>1. /\ UNCHANGED <<used, held, kept, contents, serving, fate, round, entry, rq, answers>>
      /\ stage[cur] = "ring" /\ stage' = [stage EXCEPT ![cur] = "op"] /\ sq' = Append(sq, o)
      /\ token' = IF cur \in Tasks THEN [token EXCEPT ![o] = held[cur]] ELSE token
  BY DEF SendToken, Send, At, Goto, boxes
<1>2. o \in Ops /\ o[1] = cur /\ (cur \notin Tasks => o = Exit) /\ (cur \in Tasks => o # Exit)
  BY BTyped, OpsOf, OpOf DEF BInv, IInv, Op, Exit, Roles, Actors
<1>3. entry[o] = "live" /\ o \notin InFlight
  BY <1>1, <1>2, BTyped, Live DEF BInv, IInv, Core, Own
<1> HIDE DEF o
<1>4. InFlight' = InFlight \cup {o}
  BY <1>1, <1>2, Typed, SetOfAppend DEF BInv, IInv, InFlight
<1>5. \A p \in Ops : p # o => token'[p] = token[p]
  BY <1>1, BTyped
<1>6. BTypeOK'
  BY <1>1, <1>2, BTyped DEF BInv, IInv, BTypeOK
<1>7. Owned'
  BY <1>1 DEF BInv, Owned
<1>8. Named'
  <2>1. \A p : Buffer(p)' = Buffer(p)
    BY <1>1 DEF Buffer
  <2>2. token'[o] = Buffer(o)
    <3>1. CASE cur \in Tasks
      BY <1>1, <1>2, <1>3, <3>1, BTyped DEF Buffer
    <3>2. CASE cur \notin Tasks
      BY <1>1, <1>2, <1>3, <3>2 DEF Buffer, BInv, Named, Owned
    <3> QED  BY <3>1, <3>2
  <2> QED  BY <1>4, <1>5, <2>1, <2>2 DEF BInv, Named
<1>9. Answered'
  <2>1. \A p \in (answers \ serving) \cup ToSet(rq) : p \in Ops /\ p # o
    BY <1>3, BTyped
  <2> QED  BY <1>1, <1>5, <2>1 DEF BInv, Answered
<1>10. OwnResponse'
  <2>1. ASSUME NEW t \in Tasks, stage'[t] = "op", entry[Op(t)] = "completed"
        PROVE  stage[t] = "op"
    <3>1. t # cur
      BY <1>3, <2>1 DEF o
    <3> QED  BY <1>1, <2>1, <3>1, BTyped
  <2> QED  BY <1>1, <2>1, OpKept DEF BInv, OwnResponse
<1> QED  BY <1>6, <1>7, <1>8, <1>9, <1>10 DEF BInv

\* The answer takes with it what a cancelled operation kept, and the names of its buffers.
LEMMA CompleteStep ==
  ASSUME BInv, IInv', Complete
  PROVE  BInv'
<1> DEFINE o == Head(rq)
<1>1. /\ UNCHANGED <<held, serving, fate, stage, round, sq, answers>>
      /\ rq' = Tail(rq) /\ rq # <<>>
      /\ entry' = [entry EXCEPT ![o] = IF @ = "live" THEN "completed" ELSE "none"]
      /\ kept' = [kept EXCEPT ![o] = {}] /\ token' = [token EXCEPT ![o] = {}]
      /\ used' = used \ kept[o]
      /\ contents' = [b \in Blocks |-> IF b \in kept[o] THEN Exit ELSE contents[b]]
  BY SizesAssumption DEF Complete, Answer, Free, Expired, BInv, IInv, TypeOK, Batched
<1>2. /\ o \in Ops /\ o \in ToSet(rq)
      /\ ToSet(rq) = ToSet(rq') \cup {o} /\ o \notin ToSet(rq')
  BY <1>1, Typed, SetOfTail DEF BInv, IInv, Core, Once
<1> HIDE DEF o
<1>3. o \in InFlight /\ InFlight' = InFlight \ {o} /\ o \notin answers /\ answers \subseteq Ops
  BY <1>1, <1>2, Typed DEF InFlight, BInv, IInv, Core, Once
<1>4. /\ \A p \in Ops : p # o => /\ entry'[p] = entry[p] /\ kept'[p] = kept[p]
                                 /\ token'[p] = token[p]
      /\ kept'[o] = {} /\ token'[o] = {} /\ entry[o] \in {"live", "cancelled"}
      /\ entry'[o] # "cancelled"
  BY <1>1, <1>2, <1>3, BTyped, Live
<1>5. BTypeOK'
  <2>1. contents' \in [Blocks -> Ops]
    BY <1>1, BTyped
  <2> QED  BY <1>1, <1>2, <2>1, BTyped DEF BInv, IInv, BTypeOK
<1>6. Owned'
  <2>1. \A t \in Tasks : held[t] \subseteq used'
    BY <1>1, <1>2 DEF BInv, Owned
  <2>2. \A p \in Ops : kept'[p] \subseteq used' /\ (kept'[p] # {} => entry'[p] = "cancelled")
    BY <1>1, <1>2, <1>4 DEF BInv, Owned
  <2>3. \A p \in Ops : kept'[p] \subseteq kept[p]
    BY <1>4
  <2>4. Exit \in Ops
    BY BTyped
  <2> QED  BY <1>1, <2>1, <2>2, <2>3, <2>4 DEF BInv, Owned
<1>7. Named'
  <2>1. \A p \in Ops : p # o => Buffer(p)' = Buffer(p)
    BY <1>1, <1>4 DEF Buffer
  <2> QED  BY <1>2, <1>3, <1>4, <2>1 DEF BInv, Named
<1>8. Answered'
  <2>1. \A p \in (answers \ serving) \cup ToSet(rq') :
           p \in (answers \ serving) \cup ToSet(rq) /\ p \in Ops /\ p # o
    BY <1>2, <1>3, BTyped
  <2>2. \A p \in Ops : p # o => kept[o] \cap token[p] = {} /\ token[p] \subseteq Blocks
    BY <1>2, KeptApart, BTyped
  <2>3. ASSUME NEW p \in (answers \ serving) \cup ToSet(rq'), NEW b \in token'[p]
        PROVE  contents'[b] = p
    <3>1. b \in token[p] /\ b \notin kept[o] /\ b \in Blocks
      BY <1>4, <2>1, <2>2, <2>3
    <3>2. contents[b] = p
      BY <2>1, <3>1 DEF BInv, Answered
    <3> QED  BY <1>1, <3>1, <3>2
  <2> QED  BY <1>1, <2>3 DEF Answered
<1>9. OwnResponse'
  <2> SUFFICES ASSUME NEW t \in Tasks, stage[t] = "op", entry'[Op(t)] = "completed",
                      NEW b \in held[t]
               PROVE  contents'[b] = Op(t)
    BY <1>1, OpKept DEF OwnResponse
  <2>1. Op(t) \in Ops /\ Op(t) # Exit /\ Op(t)[1] = t
    BY OpOf
  <2>2. b \in Blocks /\ b \notin kept[o]
    BY <1>2, BTyped DEF BInv, Owned
  <2>3. contents[b] = Op(t)
    <3>1. CASE Op(t) = o
      <4>1. entry[o] = "live"
        BY <1>1, <1>2, <1>4, <3>1, BTyped
      <4>2. token[o] = held[t]
        BY <1>2, <1>3, <2>1, <3>1, <4>1 DEF BInv, Named, Buffer
      <4> QED  BY <1>2, <3>1, <4>2 DEF BInv, Answered
    <3>2. CASE Op(t) # o
      BY <1>4, <2>1, <3>2 DEF BInv, OwnResponse
    <3> QED  BY <3>1, <3>2
  <2> QED  BY <1>1, <2>2, <2>3
<1> QED  BY <1>5, <1>6, <1>7, <1>8, <1>9 DEF BInv

\* The task has its output: its operation is not under way any more.
LEMMA TakeBackStep ==
  ASSUME BInv, IInv', TakeBack
  PROVE  BInv'
<1> DEFINE o == Op(cur)
<1>1. /\ UNCHANGED <<kept, token, serving, fate, sq, rq, answers>>
      /\ stage[cur] = "op" /\ entry[o] = "completed" /\ entry' = [entry EXCEPT ![o] = "none"]
      /\ stage' = [stage EXCEPT ![cur] = "slot"] \/ stage' = [stage EXCEPT ![cur] = "done"]
      /\ round' = round \/ round' = [round EXCEPT ![cur] = @ + 1]
      /\ \/ UNCHANGED <<used, held, contents>>
         \/ cur \in Tasks /\ Free(held[cur]) /\ held' = [held EXCEPT ![cur] = {}]
  BY DEF TakeBack, Fetch, At, Goto
<1>2. o \in Ops /\ o[1] = cur /\ o \notin InFlight /\ InFlight' = InFlight
  BY <1>1, BTyped, OpsOf, Live DEF BInv, IInv, Op, InFlight
<1>3. \A p \in Ops : p # o => (entry[p] # "none" => p[1] # cur)
  BY OwnerAt
<1>4. \A t \in Tasks : stage'[t] = "op" => stage[t] = "op" /\ t # cur /\ round'[t] = round[t]
  BY <1>1, BTyped
<1> HIDE DEF o
<1>5. \A p \in Ops : entry'[p] # "none" => entry'[p] = entry[p] /\ p # o
  BY <1>1, <1>2, BTyped
<1>6. \A p \in InFlight : /\ p \in Ops /\ p # o /\ entry'[p] = entry[p] /\ p[1] # cur
                          /\ p # Exit => p[1] \in Tasks
  BY <1>1, <1>2, <1>3, BTyped, Live, OwnerAt
<1>7. /\ \A t \in Tasks : t # cur => held'[t] = held[t]
      /\ \A t \in Tasks : held'[t] \subseteq held[t]
  BY <1>1, BTyped
<1>8. \/ UNCHANGED <<used, held, contents>>
      \/ /\ cur \in Tasks /\ used' = used \ held[cur] /\ held'[cur] = {}
         /\ contents' = [b \in Blocks |-> IF b \in held[cur] THEN Exit ELSE contents[b]]
  BY <1>1, BTyped DEF Free
<1>9. BTypeOK'
  <2>1. contents' \in [Blocks -> Ops] /\ used' \subseteq Blocks
    BY <1>8, BTyped
  <2>2. held' \in [Tasks -> SUBSET Blocks]
    BY <1>1, BTyped
  <2> QED  BY <1>1, <2>1, <2>2 DEF BInv, IInv, BTypeOK
<1>10. Owned'
  <2>1. \A t \in Tasks : held'[t] \subseteq used'
    BY <1>7, <1>8 DEF BInv, Owned
  <2>2. \A p \in Ops : kept[p] \subseteq used' /\ (kept[p] # {} => entry'[p] = "cancelled")
    <3>1. \A p \in Ops : kept[p] \subseteq used'
      BY <1>8 DEF BInv, Owned
    <3>2. \A p \in Ops : kept[p] # {} => entry'[p] = "cancelled"
      BY <1>1, <1>2, BTyped DEF BInv, Owned
    <3> QED  BY <3>1, <3>2
  <2>3. PerOp = 0 => used' = {}
    BY <1>8 DEF BInv, Owned
  <2> QED  BY <1>1, <1>7, <2>1, <2>2, <2>3 DEF BInv, Owned
<1>11. Named'
  <2>1. \A p \in InFlight : Buffer(p)' = Buffer(p)
    BY <1>1, <1>6, <1>7 DEF Buffer
  <2> QED  BY <1>1, <1>2, <2>1 DEF BInv, Named
<1>12. Answered'
  <2> SUFFICES ASSUME NEW p \in (answers \ serving) \cup ToSet(rq), NEW b \in token[p]
               PROVE  contents'[b] = p
    BY <1>1 DEF Answered
  <2>1. p \in InFlight /\ contents[b] = p /\ b \in Blocks
    BY BTyped DEF BInv, Answered
  <2>2. cur \in Tasks => b \notin held[cur]
    BY <1>6, <2>1, HeldApart DEF o
  <2> QED  BY <1>8, <2>1, <2>2
<1>13. OwnResponse'
  <2> SUFFICES ASSUME NEW t \in Tasks, stage'[t] = "op", entry'[Op(t)'] = "completed",
                      NEW b \in held'[t]
               PROVE  contents'[b] = Op(t)'
    BY DEF OwnResponse
  <2>1. stage[t] = "op" /\ t # cur /\ Op(t)' = Op(t) /\ Op(t) \in Ops
    BY <1>4, OpOf DEF Op
  <2>2. entry[Op(t)] = "completed" /\ b \in held[t] /\ b \in Blocks
    BY <1>5, <1>7, <2>1, BTyped
  <2>3. contents[b] = Op(t) /\ (cur \in Tasks => b \notin held[cur])
    BY <2>1, <2>2 DEF BInv, OwnResponse, Owned
  <2> QED  BY <1>8, <2>1, <2>2, <2>3
<1> QED  BY <1>9, <1>10, <1>11, <1>12, <1>13 DEF BInv

\* What an aborted task frees, no request under way names.
LEMMA AbortedApart ==
  ASSUME BInv, NEW t \in Tasks, AbortTask(t), NEW p \in Ops
  PROVE  (held[t] \ Recycle(t)) \cap token[p] = {}
<1>1. CASE p # Op(t) \/ entry[p] # "live"
  BY <1>1, HeldApart
<1>2. CASE p \notin InFlight
  BY <1>2 DEF BInv, Named
<1>3. CASE p = Op(t) /\ entry[p] = "live" /\ p \in InFlight
  <2>1. p[1] = t /\ stage[t] \in {"op", "aborted"}
    BY <1>3, OpOf, OwnerAt, Live
  <2>2. stage[t] = "op"
    BY <2>1 DEF AbortTask, Abort, Ended
  <2>3. Recycle(t) = held[t]
    BY <1>3, <2>2 DEF Recycle
  <2> QED  BY <2>3
<1> QED  BY <1>1, <1>2, <1>3

\* What an unanswered operation has goes to its entry; all else is freed.
LEMMA AbortTaskStep ==
  ASSUME BInv, IInv', NEW t \in Tasks, AbortTask(t)
  PROVE  BInv'
<1> DEFINE o == Op(t)
           R == Recycle(t)
<1>1. /\ UNCHANGED <<token, serving, fate, round, sq, rq, answers>>
      /\ stage' = [stage EXCEPT ![t] = "aborted"] /\ ~Ended(t)
      /\ entry' = IF stage[t] = "op"
                  THEN [entry EXCEPT ![o] = IF @ = "live" THEN "cancelled" ELSE "none"] ELSE entry
      /\ kept' = IF R = {} THEN kept ELSE [kept EXCEPT ![o] = R]
      /\ used' = used \ (held[t] \ R) /\ held' = [held EXCEPT ![t] = {}]
      /\ contents' = [b \in Blocks |-> IF b \in held[t] \ R THEN Exit ELSE contents[b]]
  BY DEF AbortTask, Abort, Dropped, Free
<1>2. o \in Ops /\ o # Exit /\ o[1] = t /\ InFlight' = InFlight
  BY <1>1, OpOf DEF InFlight
<1>3. R = IF stage[t] = "op" /\ entry[o] = "live" THEN held[t] ELSE {}
  BY DEF Recycle
<1>4. stage[t] = "op" => entry[o] \in {"live", "completed"}
  BY BTyped DEF BInv, IInv, Core, Own
<1>5. \A p \in Ops : p # o => p[1] # t \/ entry[p] = "none"
  BY OwnerAt
<1>6. \A u \in Tasks : u # t => Op(u) # o
  BY DEF Op
<1>7. o \in InFlight => stage[t] = "op" /\ entry[o] = "live"
  <2>1. ASSUME o \in InFlight PROVE stage[t] \in {"op", "aborted"}
    BY <1>2, <2>1, Live, OwnerAt
  <2>2. stage[t] # "aborted"
    BY <1>1 DEF Ended
  <2> QED  BY <1>4, <2>1, <2>2, Live
<1> HIDE DEF o, R
<1>8. /\ \A p \in Ops : p # o => entry'[p] = entry[p] /\ kept'[p] = kept[p]
      /\ kept[o] # {} => stage[t] # "op"
      /\ entry[o] = "cancelled" => stage[t] # "op"
  BY <1>1, <1>2, <1>4, BTyped DEF BInv, Owned
<1>9. kept'[o] = (IF R = {} THEN kept[o] ELSE R) /\ R \subseteq held[t]
  BY <1>1, <1>2, <1>3, BTyped
<1>10. held'[t] = {} /\ \A u \in Tasks : u # t => held'[u] = held[u]
  BY <1>1, BTyped
<1>11. \A p \in Ops : (held[t] \ R) \cap token[p] = {}
  BY AbortedApart DEF R
<1>12. BTypeOK'
  <2>1. contents' \in [Blocks -> Ops] /\ used' \subseteq Blocks
    BY <1>1, BTyped
  <2>2. held' \in [Tasks -> SUBSET Blocks] /\ kept' \in [Ops -> SUBSET Blocks]
    BY <1>1, <1>9, BTyped
  <2> QED  BY <1>1, <2>1, <2>2 DEF BInv, IInv, BTypeOK
<1>13. Owned'
  <2>1. \A u \in Tasks : held'[u] \subseteq used'
    BY <1>1, <1>10 DEF BInv, Owned
  <2>2. \A p \in Ops : kept'[p] \subseteq used'
    BY <1>1, <1>8, <1>9 DEF BInv, Owned
  <2>3. \A p \in Ops : kept'[p] # {} => entry'[p] = "cancelled"
    <3>1. \A p \in Ops : p # o /\ kept'[p] # {} => entry'[p] = "cancelled"
      BY <1>8 DEF BInv, Owned
    <3>2. R # {} => entry'[o] = "cancelled"
      BY <1>1, <1>2, <1>3, BTyped
    <3>3. R = {} /\ kept[o] # {} => entry'[o] = "cancelled"
      BY <1>1, <1>2, <1>8 DEF BInv, Owned
    <3> QED  BY <1>9, <3>1, <3>2, <3>3
  <2>4. \A u, v \in Tasks : u # v => held'[u] \cap held'[v] = {}
    BY <1>10 DEF BInv, Owned
  <2>5. \A p, q \in Ops : p # q => kept'[p] \cap kept'[q] = {}
    BY <1>2, <1>8, <1>9 DEF BInv, Owned
  <2>6. \A u \in Tasks, p \in Ops : held'[u] \cap kept'[p] = {}
    BY <1>2, <1>8, <1>9, <1>10 DEF BInv, Owned
  <2>7. kept'[Exit] = {} /\ (PerOp = 0 => used' = {})
    BY <1>1, <1>2, <1>8, BTyped DEF BInv, Owned
  <2> QED  BY <2>1, <2>2, <2>3, <2>4, <2>5, <2>6, <2>7 DEF Owned
<1>14. Named'
  <2>1. ASSUME NEW p \in InFlight PROVE Buffer(p)' = Buffer(p)
    <3>1. p \in Ops /\ entry[p] # "none" /\ (p # Exit => p[1] \in Tasks)
      BY Live, OwnerAt
    <3>2. CASE p = o
      <4>1. R = held[t] /\ entry[o] = "live" /\ entry'[o] = "cancelled"
        BY <1>1, <1>2, <1>3, <1>7, <3>2, BTyped
      <4>2. kept'[o] = held[t]
        BY <1>2, <1>9, <4>1 DEF BInv, Owned
      <4> QED  BY <1>2, <3>2, <4>1, <4>2 DEF Buffer
    <3>3. CASE p # o
      BY <1>5, <1>8, <1>10, <3>1, <3>3 DEF Buffer
    <3> QED  BY <3>2, <3>3
  <2> QED  BY <1>1, <1>2, <2>1 DEF BInv, Named
<1>15. Answered'
  <2> SUFFICES ASSUME NEW p \in (answers \ serving) \cup ToSet(rq), NEW b \in token[p]
               PROVE  contents'[b] = p
    BY <1>1 DEF Answered
  <2>1. p \in Ops /\ contents[b] = p /\ b \in Blocks
    BY BTyped DEF BInv, Answered
  <2> QED  BY <1>1, <1>11, <2>1
<1>16. OwnResponse'
  <2> SUFFICES ASSUME NEW u \in Tasks, stage'[u] = "op", entry'[Op(u)] = "completed",
                      NEW b \in held'[u]
               PROVE  contents'[b] = Op(u)
    BY <1>1, OpKept DEF OwnResponse
  <2>1. u # t
    BY <1>10
  <2>2. /\ stage[u] = "op" /\ entry[Op(u)] = "completed" /\ b \in held[u] /\ b \in Blocks
    BY <1>1, <1>6, <1>8, <1>10, <2>1, OpOf, BTyped
  <2>3. contents[b] = Op(u) /\ b \notin held[t]
    BY <2>1, <2>2 DEF BInv, OwnResponse, Owned
  <2> QED  BY <1>1, <2>2, <2>3
<1> QED  BY <1>12, <1>13, <1>14, <1>15, <1>16 DEF BInv


\* The runtime is dropped, or gives the uring back, when no operation is left: then no
\* request names any of the blocks that are freed.
LEMMA ReleaseStep ==
  ASSUME BInv, Entries = {}, ReleaseAll, UNCHANGED <<vars, token, serving>>,
         fate' \in {"dropped", "taken"}
  PROVE  BInv' /\ InFlight = {}
<1>1. InFlight = {} /\ InFlight' = {}
  <2>1. InFlight \subseteq Entries
    BY Live DEF Entries
  <2> QED  BY <2>1 DEF InFlight, vars
<1>2. IInv'
  BY NextOK DEF BInv
<1>3. /\ \A t \in Tasks : held'[t] = {}
      /\ \A o \in Ops : kept'[o] = {}
      /\ used' \subseteq used /\ answers' = {} /\ ToSet(rq') = {} /\ token' = token
      /\ serving' = serving /\ answers' = answers
  BY <1>1, BTyped DEF ReleaseAll, Free, vars, InFlight
<1>4. BTypeOK'
  <2>1. contents' \in [Blocks -> Ops]
    BY BTyped DEF ReleaseAll, Free
  <2>2. held' \in [Tasks -> SUBSET Blocks] /\ kept' \in [Ops -> SUBSET Blocks]
    BY DEF ReleaseAll
  <2> QED  BY <1>2, <1>3, <2>1, <2>2 DEF BInv, IInv, BTypeOK
<1>5. Owned'
  BY <1>3, BTyped DEF BInv, Owned
<1>6. Named'
  BY <1>1, <1>3 DEF BInv, Named
<1>7. Answered' /\ OwnResponse'
  BY <1>3 DEF Answered, OwnResponse
<1> QED  BY <1>1, <1>2, <1>4, <1>5, <1>6, <1>7 DEF BInv

LEMMA RuntimeDropStep ==
  ASSUME BInv, RuntimeDrop
  PROVE  BInv'
<1>1. CASE Entries = {} /\ ReleaseAll /\ fate' = "dropped"
  BY <1>1, ReleaseStep DEF RuntimeDrop
<1>2. CASE UNCHANGED <<boxes, contents>> /\ fate' = "leaked"
  <2>1. /\ UNCHANGED <<used, held, kept, token, contents, serving>>
        /\ UNCHANGED <<entry, stage, round, answers, rq>>
        /\ InFlight' = InFlight /\ UNCHANGED vars
    BY <1>2 DEF RuntimeDrop, boxes, vars, client, InFlight
  <2>2. IInv'
    BY <2>1, NextOK DEF BInv
  <2>3. BTypeOK'
    BY <1>2, <2>1, <2>2 DEF BInv, IInv, BTypeOK
  <2>4. Owned' /\ Named' /\ Answered' /\ OwnResponse'
    BY <2>1, OpKept DEF BInv, Owned, Named, Buffer, Answered, OwnResponse
  <2> QED  BY <2>2, <2>3, <2>4 DEF BInv
<1> QED  BY <1>1, <1>2 DEF RuntimeDrop

LEMMA IntoUringStep ==
  ASSUME BInv, IntoUring
  PROVE  BInv'
BY ReleaseStep DEF IntoUring, IntoUringPanics

\* A request without buffers needs no serving.
LEMMA ReceiveTokenStep ==
  ASSUME BInv, ReceiveToken
  PROVE  BInv'
<1> DEFINE h == Head(sq)
<1>1. /\ UNCHANGED <<used, held, kept, token, contents, fate, entry, stage, round, rq>>
      /\ serving = {} /\ serving' = (IF h = Exit \/ PerOp = 0 THEN {} ELSE {h})
      /\ sq # <<>> /\ sq' = Tail(sq) /\ answers' = answers \cup {h}
  BY DEF ReceiveToken, ServedFirst, Receive, boxes, client
<1>2. IInv'
  BY NextOK DEF BInv, ReceiveToken, Next, Server
<1>3. h \in Ops /\ ToSet(sq) = ToSet(sq') \cup {h}
  BY <1>1, Typed, SetOfTail DEF BInv, IInv
<1> HIDE DEF h
<1>4. InFlight' = InFlight /\ h \notin answers
  BY <1>1, <1>3 DEF InFlight, BInv, IInv, Core, Once
<1>5. BTypeOK'
  <2>1. Cardinality(serving') <= 1
    <3>1. CASE serving' = {}
      <4>1. Cardinality(serving') = 0
        BY <3>1, FS_EmptySet
      <4> QED  BY <4>1
    <3>2. CASE serving' = {h}
      <4>1. Cardinality(serving') = 1
        BY <3>2, FS_Singleton
      <4> QED  BY <4>1
    <3> QED  BY <1>1, <3>1, <3>2
  <2>2. serving' \subseteq answers'
    BY <1>1
  <2> QED  BY <1>1, <1>2, <2>1, <2>2 DEF BInv, IInv, BTypeOK
<1>6. Owned' /\ Named'
  BY <1>1, <1>4 DEF BInv, Owned, Named, Buffer
<1>7. Answered'
  <2>1. h = Exit => token[h] = {}
    BY <1>3 DEF BInv, Named, Buffer, Owned
  <2>2. PerOp = 0 => token[h] = {}
    BY <1>3, TokensApart DEF BInv, Owned
  <2> QED  BY <1>1, <1>4, <2>1, <2>2 DEF BInv, Answered
<1>8. OwnResponse'
  BY <1>1, OpKept DEF BInv, OwnResponse
<1> QED  BY <1>2, <1>5, <1>6, <1>7, <1>8 DEF BInv

\* What the server writes for a request is in the buffers of no other.
LEMMA ServeStep ==
  ASSUME BInv, NEW o \in Ops, Serve(o)
  PROVE  BInv'
<1>1. /\ UNCHANGED <<used, held, kept, token, fate, entry, stage, round, answers, rq>>
      /\ InFlight' = InFlight /\ UNCHANGED vars /\ o \in serving /\ serving' = {}
      /\ contents' = [b \in Blocks |-> IF b \in token[o] THEN o ELSE contents[b]]
  BY DEF Serve, boxes, vars, client, InFlight
<1>2. IInv'
  BY <1>1, NextOK DEF BInv
<1>3. \A p \in serving : p = o
  <2>1. IsFiniteSet(serving) /\ Cardinality(serving) <= 1
    <3>1. serving \subseteq Ops
      BY BTyped
    <3> QED  BY <3>1, OpsFinite, FS_Subset DEF BInv, BTypeOK
  <2>2. IsFiniteSet(serving \ {o}) /\ Cardinality(serving \ {o}) = Cardinality(serving) - 1
    BY <1>1, <2>1, FS_RemoveElement, Zenon
  <2>3. Cardinality(serving \ {o}) \in Nat /\ Cardinality(serving) \in Nat
    BY <2>1, <2>2, FS_CardinalityType
  <2>4. Cardinality(serving \ {o}) = 0
    BY <2>1, <2>2, <2>3
  <2>5. serving \ {o} = {}
    BY <2>2, <2>4, FS_EmptySet
  <2> QED  BY <2>5
<1>4. BTypeOK'
  <2>1. contents' \in [Blocks -> Ops]
    BY <1>1, BTyped
  <2>2. Cardinality(serving') = 0
    BY <1>1, FS_EmptySet
  <2> QED  BY <1>1, <1>2, <2>1, <2>2 DEF BInv, IInv, BTypeOK
<1>5. Owned' /\ Named'
  BY <1>1 DEF BInv, Owned, Named, Buffer
<1>6. Answered'
  <2> SUFFICES ASSUME NEW p \in answers \cup ToSet(rq), NEW b \in token[p]
               PROVE  contents'[b] = p
    BY <1>1 DEF Answered
  <2>1. p \in Ops /\ b \in Blocks
    BY BTyped
  <2>2. ASSUME p # o PROVE contents[b] = p /\ b \notin token[o]
    BY <1>3, <2>1, <2>2, TokensApart DEF BInv, Answered
  <2> QED  BY <1>1, <2>1, <2>2
<1>7. OwnResponse'
  <2> SUFFICES ASSUME NEW t \in Tasks, stage[t] = "op", entry[Op(t)] = "completed",
                      NEW b \in held[t]
               PROVE  contents'[b] = Op(t)
    BY <1>1, OpKept DEF OwnResponse
  <2>1. b \in Blocks /\ contents[b] = Op(t)
    BY BTyped DEF BInv, OwnResponse
  <2>2. b \notin token[o]
    BY HeldApart
  <2> QED  BY <1>1, <2>1, <2>2
<1> QED  BY <1>2, <1>4, <1>5, <1>6, <1>7 DEF BInv

LEMMA SendAnswerStep ==
  ASSUME BInv, NEW o \in Ops, SendAnswer(o)
  PROVE  BInv'
<1>1. /\ UNCHANGED <<used, held, kept, token, contents, serving, fate, entry, stage, round, sq>>
      /\ serving = {} /\ o \in answers /\ rq' = Append(rq, o) /\ answers' = answers \ {o}
  BY DEF SendAnswer, ServedFirst, Reply, buffers, boxes, client
<1>2. IInv'
  BY NextOK DEF BInv, SendAnswer, Next, Server
<1>3. ToSet(rq') = ToSet(rq) \cup {o}
  BY <1>1, Typed, SetOfAppend DEF BInv, IInv
<1>4. InFlight' = InFlight
  BY <1>1, <1>3 DEF InFlight
<1>5. BTypeOK'
  BY <1>1, <1>2 DEF BInv, IInv, BTypeOK
<1>6. Owned' /\ Named' /\ Answered'
  BY <1>1, <1>3, <1>4 DEF BInv, Owned, Named, Buffer, Answered
<1>7. OwnResponse'
  BY <1>1, OpKept DEF BInv, OwnResponse
<1> QED  BY <1>2, <1>5, <1>6, <1>7 DEF BInv

\* Main returns: it had no operation of its own.
LEMMA LeaveStep ==
  ASSUME BInv, Leave
  PROVE  BInv'
<1>1. /\ UNCHANGED <<batch, cur, left, queue, round, entry, pending, sq, rq, server, answers>>
      /\ UNCHANGED buffers /\ pc = "poll" /\ pc' = "end" /\ stage[cur] = "join"
      /\ stage' = [stage EXCEPT ![cur] = "done"]
  BY DEF Leave, At, Goto
<1>2. cur = Main
  BY <1>1, BTyped DEF BInv, IInv, Roles, Actors
<1>3. /\ stage' \in [Actors -> {"join", "slot", "ring", "op", "done", "aborted"}]
      /\ stage'[Main] = "done" /\ \A a \in Actors : a # Main => stage'[a] = stage[a]
  BY <1>1, <1>2, BTyped
<1>4. TypeOK'
  BY <1>1, <1>3 DEF BInv, IInv, TypeOK
<1>5. Core'
  <2>1. Once' /\ Bounded' /\ InFlight' = InFlight
    BY <1>1 DEF BInv, IInv, Core, Once, Bounded, InFlight, Entries
  <2>2. \A a \in Actors : Op(a)' = Op(a)
    BY <1>1, OpKept
  <2>3. \A o \in Ops : entry[o] # "none" => stage'[o[1]] = stage[o[1]]
    BY <1>1, <1>2, <1>3, OwnerAt
  <2>4. Known'
    BY <1>1, <2>1, <2>3, Live DEF Known
  <2>5. Own'
    <3>1. \A a \in Actors : stage'[a] \in {"ring", "op"} => stage'[a] = stage[a]
      BY <1>3
    <3> QED  BY <1>1, <2>2, <2>3, <3>1 DEF BInv, IInv, Core, Own
  <2> QED  BY <2>1, <2>4, <2>5 DEF Core
<1>6. Batched' /\ ExitLast'
  BY <1>1, <1>3 DEF BInv, IInv, Batched, ExitLast
<1>7. Roles'
  BY <1>1, <1>3, BTyped DEF BInv, IInv, Roles
<1>8. NobodyForgotten'
  <2> SUFFICES ASSUME NEW t \in Tasks PROVE Minded(t)'
    BY Remembered
  <2>1. t # Main /\ t \in Actors
    BY BTyped
  <2> QED  BY <1>1, <1>2, <1>3, <2>1, OpKept, StillMinded DEF BInv, IInv
<1>9. IInv'
  BY <1>4, <1>5, <1>6, <1>7, <1>8 DEF IInv
<1>10. \A t \in Tasks : stage'[t] = "op" => stage[t] = "op"
  BY <1>3, BTyped
<1> QED  BY <1>1, <1>9, <1>10, Still

\* What the other steps do is of module Runtime.
LEMMA ElsewhereStep ==
  ASSUME BInv, Elsewhere \/ SendAll \/ UNCHANGED bvars
  PROVE  BInv'
<1>1. [Next]_vars /\ UNCHANGED buffers
  BY DEF Elsewhere, SendAll, Next, Client, Server, bvars
<1>2. IInv'
  BY <1>1, NextOK DEF BInv
<1>3. UNCHANGED <<entry, round, answers>> /\ InFlight' = InFlight /\ UNCHANGED rq /\ UNCHANGED sq
  BY DEF Elsewhere, SendAll, RecvBulk, PollMain, PollTask, NextRound, WaitForRing, StillAwaiting,
         Join, StartSending, bvars, vars, client, InFlight
<1>4. stage' = stage \/ (Join /\ stage' = [stage EXCEPT ![cur] = "slot"])
  BY DEF Elsewhere, SendAll, RecvBulk, PollMain, PollTask, NextRound, WaitForRing, StillAwaiting,
         Join, Goto, StartSending, bvars, vars, client
<1>5. \A t \in Tasks : stage'[t] = "op" => stage[t] = "op"
  BY <1>4, BTyped
<1> QED  BY <1>1, <1>2, <1>3, <1>5, Still

LEMMA BNextOK == BInv /\ [BNext]_bvars => BInv'
<1> SUFFICES ASSUME BInv, [BNext]_bvars PROVE BInv'
  OBVIOUS
<1>1. CASE AllocSubmit \/ AllocWait
  <2>1. IInv' /\ Alloc
    BY <1>1, NextOK DEF BInv, AllocSubmit, AllocWait, Next, Client
  <2> QED  BY <1>1, <2>1, AllocStep
<1>2. CASE SendToken
  <2>1. IInv'
    BY <1>2, NextOK DEF BInv, SendToken, Next, Client
  <2> QED  BY <1>2, <2>1, SendTokenStep
<1>3. CASE Complete
  <2>1. IInv'
    BY <1>3, NextOK DEF BInv, Complete, Next, Client
  <2> QED  BY <1>3, <2>1, CompleteStep
<1>4. CASE TakeBack
  <2>1. IInv'
    BY <1>4, NextOK DEF BInv, TakeBack, Next, Client
  <2> QED  BY <1>4, <2>1, TakeBackStep
<1>5. ASSUME NEW t \in Tasks, AbortTask(t) PROVE BInv'
  <2>1. IInv'
    BY <1>5, NextOK DEF BInv, AbortTask, Next, Client
  <2> QED  BY <1>5, <2>1, AbortTaskStep
<1>6. CASE Elsewhere \/ SendAll \/ UNCHANGED bvars
  BY <1>6, ElsewhereStep
<1>7. CASE Leave \/ RuntimeDrop \/ IntoUring \/ ReceiveToken
  BY <1>7, LeaveStep, RuntimeDropStep, IntoUringStep, ReceiveTokenStep
<1>8. ASSUME NEW o \in Ops, Serve(o) \/ SendAnswer(o) PROVE BInv'
  BY <1>8, ServeStep, SendAnswerStep
<1> QED  BY <1>1, <1>2, <1>3, <1>4, <1>5, <1>6, <1>7, <1>8 DEF BNext, BClient, BServer

THEOREM BInvariance == BSpec => []BInv
  BY BInitOK, BNextOK, PTL DEF BSpec

\* The allocator's blocks, their owners and what requests name stay in their types, and the
\* server uses the buffers of at most one request, whose answer it has (Buffers, BTypeOK).
THEOREM BTypeCorrect == BSpec => []BTypeOK
<1>1. BInv => BTypeOK
  BY DEF BInv
<1> QED  BY <1>1, BInvariance, PTL

\* A task that is answered finds in its buffers the response to its own operation, however
\* blocks were reused and operations cancelled (ShmBox, ShmToken, Ping::cancel).
THEOREM AnswersFound == BSpec => []OwnResponse
<1>1. BInv => OwnResponse
  BY DEF BInv
<1> QED  BY <1>1, BInvariance, PTL

\* Also when main leaves without awaiting its tasks and the runtime is dropped, leaked or
\* taken apart: requests under way are known, once, and no task is forgotten.
THEOREM RequestsStayKnown == BSpec => [](RequestsKnown /\ NobodyForgotten)
<1>1. BInv => RequestsKnown /\ NobodyForgotten
  BY RequestsAre DEF BInv, IInv
<1> QED  BY <1>1, BInvariance, PTL

\* And the ring of answers has room for every answer when it has more places than the
\* driver has entries: the "out of capacity" of evering-ipc's server does not happen.
THEOREM RoomInAnyCase ==
  ASSUME SizeA < SizeB
  PROVE  BSpec => []NeverOutOfCapacity
<1>1. BInv => NeverOutOfCapacity
  BY AlwaysRoom DEF BInv
<1> QED  BY <1>1, BInvariance, PTL

-----------------------------------------------------------------------------
(* Buffers only add to the runtime. *)

\* When main awaits or aborts its tasks before it returns, every behaviour with buffers is
\* one of module Runtime: what is shown of that one holds here.
THEOREM IsRuntime ==
  ASSUME ~MayLeave
  PROVE  BSpec => Spec
<1>1. BInit => Init
  BY DEF BInit
<1>2. [BNext]_bvars => [Next]_vars
  <2>1. BClient => [Next]_vars
    BY DEF BClient, AllocSubmit, AllocWait, SendToken, Complete, TakeBack, Leave, Elsewhere,
           AbortTask, Next, Client
  <2>2. BServer => [Next]_vars
    BY DEF BServer, ReceiveToken, SendAll, Serve, SendAnswer, Next, Server
  <2>3. RuntimeDrop \/ IntoUring \/ UNCHANGED bvars => [Next]_vars
    BY DEF RuntimeDrop, IntoUring, bvars
  <2> QED  BY <2>1, <2>2, <2>3 DEF BNext
<1> QED  BY <1>1, <1>2, PTL DEF BSpec, Spec

\* So when main awaits all tasks, none is suspended and the driver is empty at its end.
THEOREM BEndsClean ==
  ASSUME ~MayLeave, ~MayAbort
  PROVE  BSpec => []CleanEnd
  BY EndsClean, IsRuntime, PTL

\* The runtime was not leaked by its drop.
NotLeaked == fate # "leaked"

\* Then the drop of the runtime releases everything: it is never leaked (RuntimeInner::drop).
THEOREM NeverLeaked ==
  ASSUME ~MayLeave, ~MayAbort
  PROVE  BSpec => []NotLeaked
<1>1. BInit => NotLeaked
  BY DEF BInit, NotLeaked
<1>2. CleanEnd /\ NotLeaked /\ [BNext]_bvars => NotLeaked'
  <2> SUFFICES ASSUME CleanEnd, fate # "leaked", [BNext]_bvars PROVE fate' # "leaked"
    BY DEF NotLeaked
  <2>1. CASE RuntimeDrop
    <3>1. Entries = {} /\ \A t \in Tasks : ~Suspended(t)
      BY <2>1 DEF RuntimeDrop, CleanEnd, Ended, Suspended
    <3> QED  BY <2>1, <3>1 DEF RuntimeDrop
  <2>2. CASE IntoUring
    BY <2>2 DEF IntoUring
  <2>3. CASE BClient \/ BServer \/ UNCHANGED bvars
    BY <2>3 DEF BClient, AllocSubmit, AllocWait, SendToken, Complete, TakeBack, Leave, Elsewhere,
                AbortTask, BServer, ReceiveToken, SendAll, Serve, SendAnswer, bvars, buffers
  <2> QED  BY <2>1, <2>2, <2>3 DEF BNext
<1> QED  BY <1>1, <1>2, BEndsClean, PTL DEF BSpec

-----------------------------------------------------------------------------
(* The runtime implements the ownership model. *)

\* What requests borrow is what they name.
LEMMA LoansAre ==
  ASSUME BInv, BInv'
  PROVE  /\ Loans = token /\ Loans' = token'
         /\ \A s : s \subseteq used /\ (\A o \in Ops : s \cap token[o] = {})
                      => s \subseteq used \ LendingModel!Lent
<1>1. /\ Loans = [o \in Ops |-> token[o]]
      /\ token \in [Ops -> SUBSET Blocks]
  BY DEF Loans, BInv, BTypeOK, Named
<1>2. /\ Loans' = [o \in Ops |-> token'[o]]
      /\ token' \in [Ops -> SUBSET Blocks]
  BY DEF Loans, BInv, BTypeOK, Named
<1>3. Loans = token /\ Loans' = token'
  BY <1>1, <1>2
<1> QED  BY <1>3 DEF LendingModel!Lent

\* Freeing blocks that no request names is reclaiming them.
LEMMA FreeReclaims ==
  ASSUME BInv, BInv', NEW s, s \subseteq used, \A o \in Ops : s \cap token[o] = {},
         used' = used \ s, token' = token
  PROVE  LendingModel!Next
<1>1. s \in SUBSET Blocks /\ s \subseteq used \ LendingModel!Lent
  BY BTyped, LoansAre
<1>2. UNCHANGED Loans
  BY LoansAre
<1>3. LendingModel!Reclaim(s)
  BY <1>1, <1>2 DEF LendingModel!Reclaim
<1> QED  BY <1>1, <1>3 DEF LendingModel!Next

LEMMA SendTokenLends ==
  ASSUME BInv, BInv', SendToken
  PROVE  LendingModel!Next \/ UNCHANGED <<used, token>>
<1> DEFINE o == Op(cur)
<1> SUFFICES ASSUME cur \in Tasks PROVE LendingModel!Next
  BY DEF SendToken, boxes
<1>1. /\ used' = used /\ token' = [token EXCEPT ![o] = held[cur]] /\ stage[cur] = "ring"
  BY DEF SendToken, Send, At, boxes
<1>2. o \in Ops /\ o[1] = cur /\ o \notin InFlight
  BY <1>1, OpOf, Live
<1>3. token[o] = {}
  BY <1>2 DEF BInv, Named
<1>4. \A p \in Ops : held[cur] \cap token[p] = {}
  BY <1>3, HeldApart
<1>5. held[cur] \subseteq used /\ held[cur] \in SUBSET Blocks
  BY BTyped DEF BInv, Owned
<1> HIDE DEF o
<1>6. LendingModel!Lend(o, held[cur])
  BY <1>1, <1>3, <1>4, <1>5, LoansAre DEF LendingModel!Lend
<1> QED  BY <1>2, <1>5, <1>6 DEF LendingModel!Next

LEMMA CompleteReturns ==
  ASSUME BInv, BInv', Complete
  PROVE  LendingModel!Next
<1> DEFINE o == Head(rq)
<1>1. /\ rq # <<>> /\ token' = [token EXCEPT ![o] = {}] /\ used' = used \ kept[o]
  BY SizesAssumption DEF Complete, Answer, Free, Expired, BInv, IInv, TypeOK, Batched
<1>2. o \in Ops /\ o \in InFlight
  BY <1>1, Typed, SetOfTail DEF BInv, IInv, InFlight
<1>3. kept[o] # {} => token[o] = kept[o]
  BY <1>2 DEF BInv, Owned, Named, Buffer
<1> HIDE DEF o
<1>4. used' \in {used, used \ token[o]}
  BY <1>1, <1>3
<1>5. LendingModel!Return(o)
  BY <1>1, <1>4, LoansAre DEF LendingModel!Return
<1> QED  BY <1>2, <1>5 DEF LendingModel!Next

LEMMA TakeBackReclaims ==
  ASSUME BInv, BInv', TakeBack
  PROVE  LendingModel!Next \/ UNCHANGED <<used, token>>
<1> SUFFICES ASSUME cur \in Tasks, used' = used \ held[cur], token' = token PROVE LendingModel!Next
  BY DEF TakeBack, Free
<1>1. entry[Op(cur)] # "live"
  BY DEF TakeBack, Fetch
<1>2. \A o \in Ops : held[cur] \cap token[o] = {}
  BY <1>1, HeldApart
<1>3. held[cur] \subseteq used
  BY DEF BInv, Owned
<1> QED  BY <1>2, <1>3, FreeReclaims

LEMMA AbortReclaims ==
  ASSUME BInv, BInv', NEW t \in Tasks, AbortTask(t)
  PROVE  LendingModel!Next
<1> DEFINE s == held[t] \ Recycle(t)
<1>1. used' = used \ s /\ token' = token
  BY DEF AbortTask, Free
<1>2. \A o \in Ops : s \cap token[o] = {}
  BY AbortedApart
<1>3. s \subseteq used
  BY DEF BInv, Owned
<1> HIDE DEF s
<1> QED  BY <1>1, <1>2, <1>3, FreeReclaims

LEMMA ReleaseReclaims ==
  ASSUME BInv, BInv', RuntimeDrop \/ IntoUring
  PROVE  LendingModel!Next \/ UNCHANGED <<used, token>>
<1> DEFINE H == UNION {held[t] : t \in Tasks}
           K == UNION {kept[o] : o \in Ops}
           s == H \cup K
<1> SUFFICES ASSUME Entries = {}, ReleaseAll, token' = token PROVE LendingModel!Next
  BY DEF RuntimeDrop, IntoUring, IntoUringPanics, boxes
<1>1. InFlight \subseteq Entries
  BY Live DEF Entries
<1>2. \A o \in Ops : token[o] = {}
  BY <1>1 DEF BInv, Named
<1>3. s \subseteq used
  <2>1. \A t \in Tasks : held[t] \subseteq used
    BY DEF BInv, Owned
  <2>2. \A o \in Ops : kept[o] \subseteq used
    BY DEF BInv, Owned
  <2>3. \A u \in {held[t] : t \in Tasks} : u \subseteq used
    BY <2>1
  <2>4. \A u \in {kept[o] : o \in Ops} : u \subseteq used
    BY <2>2
  <2>5. H \subseteq used /\ K \subseteq used
    BY <2>3, <2>4, Zenon
  <2> HIDE DEF H, K
  <2> QED  BY <2>5
<1>4. used' = used \ s
  BY DEF ReleaseAll, Free
<1> HIDE DEF s
<1> QED  BY <1>2, <1>3, <1>4, FreeReclaims

LEMMA AllocAllocates ==
  ASSUME BInv, BInv', AllocSubmit \/ AllocWait
  PROVE  LendingModel!Next \/ UNCHANGED <<used, token>>
<1>1. Alloc /\ token' = token
  BY DEF AllocSubmit, AllocWait
<1>2. CASE used' = used
  BY <1>1, <1>2
<1>3. ASSUME NEW s \in Available, used' = used \cup s, used' # used PROVE LendingModel!Next
  <2>1. s \in SUBSET Blocks /\ s \cap used = {} /\ s # {}
    BY <1>3 DEF Available, kSubset
  <2>2. LendingModel!Allocate(s)
    BY <1>1, <1>3, <2>1, LoansAre DEF LendingModel!Allocate
  <2> QED  BY <2>1, <2>2 DEF LendingModel!Next
<1> QED  BY <1>1, <1>2, <1>3 DEF Alloc

\* The buffers of evering-ipc are lent as evering promises: a request borrows them,
\* exclusively, until its answer is taken, and only what nobody borrows is freed, through
\* aborts, the reuse of blocks, and any end of the runtime.
THEOREM LendingKept == BSpec => RefinesLending
<1>1. BInit => LendingModel!Init
  <2> SUFFICES ASSUME BInit PROVE LendingModel!Init
    OBVIOUS
  <2>1. Loans = [o \in Ops |-> {}]
    BY DEF BInit, Loans
  <2> QED  BY <2>1 DEF BInit, LendingModel!Init
<1>2. BInv /\ BInv' /\ [BNext]_bvars => [LendingModel!Next]_(LendingModel!vars)
  <2> SUFFICES ASSUME BInv, BInv', [BNext]_bvars, ~LendingModel!Next
               PROVE  UNCHANGED LendingModel!vars
    OBVIOUS
  <2>1. CASE UNCHANGED <<used, token>>
    BY <2>1, LoansAre DEF LendingModel!vars
  <2>2. CASE AllocSubmit \/ AllocWait \/ SendToken \/ Complete \/ TakeBack
    BY <2>1, <2>2, AllocAllocates, SendTokenLends, CompleteReturns, TakeBackReclaims
  <2>3. CASE \E t \in Tasks : AbortTask(t)
    BY <2>3, AbortReclaims
  <2>4. CASE RuntimeDrop \/ IntoUring
    BY <2>1, <2>4, ReleaseReclaims
  <2>5. CASE Leave \/ Elsewhere \/ BServer \/ UNCHANGED bvars
    BY <2>1, <2>5 DEF Leave, Elsewhere, BServer, ReceiveToken, SendAll, Serve, SendAnswer,
                      bvars, buffers, boxes
  <2> QED  BY <2>2, <2>3, <2>4, <2>5 DEF BNext, BClient
<1> QED  BY <1>1, <1>2, BInvariance, PTL DEF BSpec, RefinesLending, LendingModel!Spec
=============================================================================
