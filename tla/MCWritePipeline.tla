--------------------------- MODULE MCWritePipeline ---------------------------
(* Small instances of WritePipeline for TLC. *)
EXTENDS WritePipeline, TLC

CONSTANTS n1, n2, n3

MCShapes == {<<1, 2>>, <<2, 1>>, <<1, 3>>}

=============================================================================
