------------------------------- MODULE Promise -------------------------------
(***************************************************************************)
(* What the driver promises for each operation: it is answered once, and   *)
(* its own answer is either delivered to its owner, once, or discarded     *)
(* because the owner has given up, before the answer or after it.  The     *)
(* resources lent to the peer come back with the answer, not before.       *)
(*                                                                         *)
(*      idle -> pending -> answered -> delivered                           *)
(*                 |           |                                           *)
(*              cancelled --> over                                         *)
(***************************************************************************)
CONSTANT Ops

VARIABLES stage,   \* of each operation
          got      \* the operations whose answers each owner was given

pvars == <<stage, got>>

Init == /\ stage = [o \in Ops |-> "idle"]
        /\ got = [o \in Ops |-> {}]

Move(o, from, to) == stage[o] = from /\ stage' = [stage EXCEPT ![o] = to]

Submit(o) == Move(o, "idle", "pending") /\ UNCHANGED got

Answer(o) == /\ Move(o, "pending", "answered") \/ Move(o, "cancelled", "over")
             /\ UNCHANGED got

Deliver(o) == /\ Move(o, "answered", "delivered")
              /\ got' = [got EXCEPT ![o] = {o}]

GiveUp(o) == /\ Move(o, "pending", "cancelled") \/ Move(o, "answered", "over")
             /\ UNCHANGED got

Next == \E o \in Ops : Submit(o) \/ Answer(o) \/ Deliver(o) \/ GiveUp(o)

Spec == Init /\ [][Next]_pvars
=============================================================================
