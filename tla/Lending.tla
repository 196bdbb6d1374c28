------------------------------- MODULE Lending -------------------------------
(***************************************************************************)
(* What evering promises about resources ("the model of borrowed           *)
(* ownership"): they belong to the requester, a request borrows some,      *)
(* exclusively, for as long as its operation is under way, and the         *)
(* requester may reclaim what nobody borrows.                              *)
(***************************************************************************)
CONSTANTS Blocks, Requests

VARIABLES allocated,   \* the blocks the requester has
          loans        \* of each request, what it borrows

vars == <<allocated, loans>>

Lent == UNION {loans[r] : r \in Requests}

Init == allocated = {} /\ loans = [r \in Requests |-> {}]

Allocate(s) ==
  /\ s # {} /\ s \cap allocated = {} /\ allocated' = allocated \cup s
  /\ UNCHANGED loans

Lend(r, s) ==
  /\ loans[r] = {} /\ s \subseteq allocated \ Lent
  /\ loans' = [loans EXCEPT ![r] = s]
  /\ UNCHANGED allocated

\* What a cancelled operation gives back is reclaimed at once.
Return(r) ==
  /\ loans' = [loans EXCEPT ![r] = {}]
  /\ allocated' \in {allocated, allocated \ loans[r]}

Reclaim(s) ==
  /\ s \subseteq allocated \ Lent /\ allocated' = allocated \ s
  /\ UNCHANGED loans

Next == \/ \E s \in SUBSET Blocks : Allocate(s) \/ Reclaim(s)
        \/ \E r \in Requests : Return(r) \/ \E s \in SUBSET Blocks : Lend(r, s)

Spec == Init /\ [][Next]_vars
=============================================================================
