---------------------------- MODULE MCVLLearner -----------------------------
(***************************************************************************)
(* Two learners for two rounds.                                            *)
(***************************************************************************)
EXTENDS VLLearner, TLC

\* Messages that may be delivered late, or twice, or in the next round.
Delayed == {<<m, 0>> : m \in {"PartBytes", "GradAndCost", "Status"}}

Perms == Permutations(Parties)
=============================================================================
