------------------------------ MODULE MCDriver ------------------------------
(* The driver with more operations than slots, so that OpIds are reused. *)
EXTENDS Driver, TLC

\* Operations differ only by name, and so do wakers.
Symmetric == Permutations(Ops) \cup Permutations(Wakers)
=============================================================================
