------------------------------- MODULE MCUring -------------------------------
(* The life of a uring with small queues. *)
EXTENDS Uring
=============================================================================
