----------------------------- MODULE MCExecutor -----------------------------
(* The executor with a few tasks and a short queue. *)
EXTENDS Executor, TLC

\* Tasks differ only by name.
TaskSymmetry == Permutations(Tasks)
=============================================================================
