---------------------------- MODULE MCChallenges ----------------------------
(* Challenges on a small instance: two slices, the second with a replica.  *)
EXTENDS Challenges

CONSTANTS n1, n2, n3

MCNodes  == {n1, n2}
MCSlices == {1, 2}
MCPlaced == {<<1, n1>>, <<2, n1>>}
=============================================================================
