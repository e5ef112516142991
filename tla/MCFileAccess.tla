--------------------------- MODULE MCFileAccess -----------------------------
(***************************************************************************)
(* One executor with two tasks on two files of the same name.              *)
(***************************************************************************)
EXTENDS FileAccess, TLC

CONSTANTS t1, t2, f1, f2

MCTaskFile == (t1 :> f1) @@ (t2 :> f1)
=============================================================================
