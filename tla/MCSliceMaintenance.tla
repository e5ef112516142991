------------------------ MODULE MCSliceMaintenance --------------------------
(***************************************************************************)
(* The upkeep of one file of two slices on three storage nodes.            *)
(***************************************************************************)
EXTENDS SliceMaintenance, TLC

Perms == Permutations(Nodes)
=============================================================================
