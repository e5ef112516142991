---------------------------- MODULE StorageProof ----------------------------
(***************************************************************************)
(* What the challenge protocol of XuperDB promises, without its messages,  *)
(* loops and proof material: the owner asks a storage node about some of   *)
(* its copies of slices, and the answer is judged once.  A copy that is    *)
(* not damaged cannot fail.  With whole-slice proofs a damaged copy cannot *)
(* pass either, unless the owner has renewed the proof material from the   *)
(* damaged copy itself; a proof that samples ranges of a slice may pass.   *)
(***************************************************************************)
CONSTANTS Copies, Ids

VARIABLES
    sampled,    \* proofs read only some ranges of a slice
    damaged,    \* copies that differ from what the owner distributed
    renewed,    \* copies whose material was made from damaged content
    asked,      \* the copies that each question is about
    verdict     \* where each question stands

absVars == <<sampled, damaged, renewed, asked, verdict>>

Init ==
    /\ sampled \in BOOLEAN
    /\ damaged = {}
    /\ renewed = {}
    /\ asked = [i \in Ids |-> {}]
    /\ verdict = [i \in Ids |-> "none"]

\* Copies are damaged, lost, placed anew, or get new material.
Store ==
    /\ damaged' \in SUBSET Copies
    /\ renewed' \in SUBSET Copies
    /\ renewed' \ renewed \subseteq damaged
    /\ UNCHANGED <<sampled, asked, verdict>>

Ask(i) ==
    /\ verdict[i] = "none"
    /\ asked' \in [Ids -> SUBSET Copies]
    /\ \A j \in Ids \ {i} : asked'[j] = asked[j]
    /\ verdict' = [verdict EXCEPT ![i] = "ToProve"]
    /\ UNCHANGED <<sampled, damaged, renewed>>

Prove(i) ==
    /\ verdict[i] = "ToProve"
    /\ sampled \/ asked[i] \cap (damaged \ renewed) = {}
    /\ verdict' = [verdict EXCEPT ![i] = "Proved"]
    /\ UNCHANGED <<sampled, damaged, renewed, asked>>

Fail(i) ==
    /\ verdict[i] = "ToProve"
    /\ asked[i] \cap (damaged \cup renewed) # {}
    /\ verdict' = [verdict EXCEPT ![i] = "Failed"]
    /\ UNCHANGED <<sampled, damaged, renewed, asked>>

Next ==
    \/ Store
    \/ \E i \in Ids : Ask(i) \/ Prove(i) \/ Fail(i)

Spec == Init /\ [][Next]_absVars
=============================================================================
