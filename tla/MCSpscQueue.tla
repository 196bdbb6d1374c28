---------------------------- MODULE MCSpscQueue ----------------------------
(* The ring on a small instance: MaxSend values fill, empty and wrap around    *)
(* four slots; two different values are enough to see them reordered.          *)
EXTENDS SpscQueue
=============================================================================
