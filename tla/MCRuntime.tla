------------------------------ MODULE MCRuntime ------------------------------
(* The runtime with more tasks than the driver has entries. *)
EXTENDS Runtime, TLC
=============================================================================
