------------------------- MODULE MCFLTaskContract ---------------------------
(***************************************************************************)
(* The task contract on a small instance: two tasks, two executors, tasks  *)
(* of one or two data sets.                                                *)
(***************************************************************************)
EXTENDS FLTaskContract, TLC

Perms == Permutations(Executors) \cup Permutations(Tasks)
=============================================================================
