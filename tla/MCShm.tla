------------------------------- MODULE MCShm -------------------------------
(* A session with a server and a few clients that come at any time. *)
EXTENDS Shm
=============================================================================
