------------------------------ MODULE MCBuffers ------------------------------
(* The runtime with its buffers; tasks abort, main may leave, blocks are reused. *)
EXTENDS Buffers, TLC
=============================================================================
