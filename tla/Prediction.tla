----------------------------- MODULE Prediction -----------------------------
(***************************************************************************)
(* A vertical prediction between two parties (dai/mpc/models/              *)
(* linear_reg_vl and logic_reg_vl), with the dispatcher (dai/mpc/mpc.go)   *)
(* and the predictor that keep the models.                                 *)
(*                                                                         *)
(* The parties intersect their samples; each calculates its part; the one  *)
(* without the label sends its part, three times if need be, and the one   *)
(* with the label puts both together.  Every local message is handled by a *)
(* goroutine of its own, and so is every result: pending[p] counts those   *)
(* that have not run.  The two algorithms differ in the formula of the     *)
(* outcome and in the name of the last message.                            *)
(*                                                                         *)
(* A model is forgotten with the first result, while its goroutines go on. *)
(* What the samples hold and which numbers come out is left to             *)
(* VerticalRegression and SampleSets.                                      *)
(***************************************************************************)
EXTENDS Integers, Sequences

CONSTANTS
    SendTimes,       \* how often a message is sent until it is given up
    MaxPredictFaults \* bound: messages and answers lost, refusals, bad samples, stops

ASSUME PredictionAssumption == SendTimes \in Nat \ {0} /\ MaxPredictFaults \in Nat

VARIABLES
    algo,          \* "none" while there is no prediction, "linear" or "logic"
    common,        \* the parties' samples have ids in common
    up,            \* parties whose mpc-node has not been stopped
    model,         \* model[p]: "none", "kept" by the predictor, or "deleted"
    pending,       \* pending[p][m]: goroutines with the message m
    tries,         \* tries[p]: failed attempts to send the message p is sending
    reEncrypted,   \* parties that have their own ids re-encrypted by the other
    finalOfOther,  \* parties that have re-encrypted the other's ids
    modelStatus,   \* modelStatus[p]
    predictPart,   \* parties that have calculated their part
    delivering,    \* MsgPredictHup is sending the part, holding procMutex
    partFromOther, \* the party with the label has the other's part
    reported,       \* reported[p]: what was handed to SavePredictOut
    mishaps        \* counts the faults

predictVars == <<algo, common, up, model, pending, tries, reEncrypted, finalOfOther,
                 modelStatus, predictPart, delivering, partFromOther, reported, mishaps>>

Sides == {"label", "feature"}
Peer(p) == IF p = "label" THEN "feature" ELSE "label"
Messages == {"PsiEnc", "PsiAskReEnc", "PsiIntersect", "PredictHup", "PredictSum",
             "ok", "failed", "StopTask"}
Mishap == mishaps < MaxPredictFaults /\ mishaps' = mishaps + 1

PredictInit(algos) ==
    /\ algo \in algos /\ common \in BOOLEAN
    /\ up = Sides
    /\ model = [p \in Sides |-> "none"]
    /\ pending = [p \in Sides |-> [m \in Messages |-> 0]]
    /\ tries = [p \in Sides |-> 0]
    /\ reEncrypted = {} /\ finalOfOther = {} /\ predictPart = {}
    /\ modelStatus = [p \in Sides |-> "StartPSI"]
    /\ delivering = FALSE /\ partFromOther = FALSE
    /\ reported = [p \in Sides |-> <<>>]
    /\ mishaps = 0

\* The goroutines of p after one with the message m has run and others were started.
After(p, m, new) ==
    [n \in Messages |-> pending[p][n] - (IF n = m THEN 1 ELSE 0) + (IF n \in new THEN 1 ELSE 0)]
Runs(p, m, new) == pending[p][m] > 0 /\ pending' = [pending EXCEPT ![p] = After(p, m, new)]

-----------------------------------------------------------------------------
(* Dispatcher and predictor. *)

\* StartTask of the dispatcher and NewModel of the predictor.  A task that is
\* refused, since there are too many, ends with the error at the executor.
StartModel(p) ==
    /\ algo # "none" /\ model[p] = "none" /\ p \in up
    /\ \/ /\ model' = [model EXCEPT ![p] = "kept"]
          /\ pending' = [pending EXCEPT ![p]["PsiEnc"] = 1]
          /\ UNCHANGED <<reported, mishaps>>
       \/ /\ Mishap
          /\ model' = [model EXCEPT ![p] = "deleted"]
          /\ reported' = [reported EXCEPT ![p] = Append(@, "failed")]
          /\ UNCHANGED pending
    /\ UNCHANGED <<algo, common, up, tries, reEncrypted, finalOfOther, modelStatus,
                   predictPart, delivering, partFromOther>>

\* The dispatcher hands a message to the model of p.
Reachable(p) == p \in up /\ model[p] = "kept"

\* SaveResult of the predictor, for a task of a requester: the result is saved and
\* the task stopped.
SavePrediction(p, m) ==
    /\ Runs(p, m, {"StopTask"})
    /\ reported' = [reported EXCEPT ![p] = Append(@, m)]
    /\ UNCHANGED <<algo, common, up, model, tries, reEncrypted, finalOfOther, modelStatus,
                   predictPart, delivering, partFromOther, mishaps>>

\* StopTask of the dispatcher and DeleteModel; nothing if the node is stopped.
StopTask(p) ==
    /\ Runs(p, "StopTask", {})
    /\ model' = IF p \in up THEN [model EXCEPT ![p] = "deleted"] ELSE model
    /\ UNCHANGED <<algo, common, up, tries, reEncrypted, finalOfOther, modelStatus,
                   predictPart, delivering, partFromOther, reported, mishaps>>

\* The executor stops a task that has taken too long.
TaskTimeOut(p) ==
    /\ Reachable(p) /\ reported[p] = <<>> /\ Mishap
    /\ model' = [model EXCEPT ![p] = "deleted"]
    /\ reported' = [reported EXCEPT ![p] = Append(@, "failed")]
    /\ UNCHANGED <<algo, common, up, pending, tries, reEncrypted, finalOfOther, modelStatus,
                   predictPart, delivering, partFromOther>>

\* Stop of the dispatcher: every call to this node is refused from now on.
StopMpc(p) ==
    /\ algo # "none" /\ p \in up /\ Mishap
    /\ up' = up \ {p}
    /\ UNCHANGED <<algo, common, model, pending, tries, reEncrypted, finalOfOther, modelStatus,
                   predictPart, delivering, partFromOther, reported>>

-----------------------------------------------------------------------------
(* Private set intersection. *)

\* MsgPsiEnc: p encrypts its ids; a samples file without ids fails.
PsiEnc(p) ==
    /\ \/ Runs(p, "PsiEnc", {"PsiAskReEnc"}) /\ UNCHANGED mishaps
       \/ Runs(p, "PsiEnc", {"failed"}) /\ Mishap
    /\ UNCHANGED <<algo, common, up, model, tries, reEncrypted, finalOfOther, modelStatus,
                   predictPart, delivering, partFromOther, reported>>

\* A message to the peer got through (its handler has run) or not, and was
\* answered or not.  A peer that has not been created yet is a late one.
Got == {"answered", "unanswered", "nothing"}
Delivery(p, got) ==
    /\ got \in {"answered", "unanswered"} => Reachable(Peer(p))
    /\ IF got = "answered" \/ (got = "nothing" /\ (Peer(p) \notin up \/ model[Peer(p)] = "deleted"))
       THEN UNCHANGED mishaps ELSE Mishap

LastTry(p) == tries[p] + 1 = SendTimes

\* MsgPsiReEnc at p, when it gets there: the peer's ids are re-encrypted and
\* remembered, and the intersection is tried.
PsiReEnc(p, got) ==
    IF got = "nothing" THEN UNCHANGED finalOfOther ELSE finalOfOther' = finalOfOther \cup {p}
Started(p, got) ==
    IF got = "nothing" THEN pending[p]
    ELSE [pending[p] EXCEPT !["PsiIntersect"] = @ + 1]

\* MsgPsiAskReEnc, once: p sends its ids, and tries the intersection when they
\* come back re-encrypted.
PsiAskReEnc(p, got) ==
    LET q == Peer(p)
        m == "PsiAskReEnc"
        new == CASE got = "answered" -> {"PsiIntersect"}
                 [] got # "answered" /\ LastTry(p) -> {"failed"}
                 [] OTHER -> {m}
    IN  /\ pending[p][m] > 0
        /\ Delivery(p, got)
        /\ pending' = [pending EXCEPT ![p] = After(p, m, new), ![q] = Started(q, got)]
        /\ tries' = [tries EXCEPT ![p] = IF m \in new THEN @ + 1 ELSE 0]
        /\ PsiReEnc(q, got)
        /\ reEncrypted' = IF got = "answered" THEN reEncrypted \cup {p} ELSE reEncrypted
        /\ UNCHANGED <<algo, common, up, model, modelStatus, predictPart, delivering,
                       partFromOther, reported>>

\* IntersectParts has both sets of ids.
BothSets(p) == p \in reEncrypted /\ p \in finalOfOther

\* MsgPsiIntersect, which no mutex guards: the status is EndPSI again each time.
PsiIntersect(p) ==
    /\ \/ ~BothSets(p) /\ Runs(p, "PsiIntersect", {}) /\ UNCHANGED modelStatus
       \/ BothSets(p) /\ ~common /\ Runs(p, "PsiIntersect", {"failed"}) /\ UNCHANGED modelStatus
       \/ /\ BothSets(p) /\ common
          /\ Runs(p, "PsiIntersect", {"PredictHup"})
          /\ modelStatus' = [modelStatus EXCEPT ![p] = "EndPSI"]
    /\ UNCHANGED <<algo, common, up, model, tries, reEncrypted, finalOfOther,
                   predictPart, delivering, partFromOther, reported, mishaps>>

-----------------------------------------------------------------------------
(* Prediction. *)

ProcMutexFree(p) == p = "label" \/ ~delivering

\* MsgPredictHup: p calculates its part, unless that was begun already.  A value
\* that is no number fails the task; the party without the label sends its part.
PredictHup(p) ==
    /\ ProcMutexFree(p)
    /\ \/ modelStatus[p] # "EndPSI" /\ Runs(p, "PredictHup", {})
          /\ UNCHANGED <<modelStatus, predictPart, delivering, mishaps>>
       \/ /\ modelStatus[p] = "EndPSI"
          /\ modelStatus' = [modelStatus EXCEPT ![p] = "StartPredict"]
          /\ \/ /\ predictPart' = predictPart \cup {p}
                /\ delivering' = (delivering \/ p = "feature")
                /\ Runs(p, "PredictHup", IF p = "label" THEN {"PredictSum"} ELSE {"PredictHup"})
                /\ UNCHANGED mishaps
             \/ /\ Mishap
                /\ Runs(p, "PredictHup", {"failed"})
                /\ UNCHANGED <<predictPart, delivering>>
    /\ UNCHANGED <<algo, common, up, model, tries, reEncrypted, finalOfOther,
                   partFromOther, reported>>

\* Mutant of DeliveredThen: a part that could not be sent is taken for sent.
DeliveredThen_anyway(got) ==
    IF got = "answered" \/ LastTry("feature") THEN {"PredictSum"} ELSE {"PredictHup"}

\* What follows an attempt to send the part; a PredictHup stays where it is.
DeliveredThen(got) ==
    CASE got = "answered" -> {"PredictSum"}
      [] got # "answered" /\ LastTry("feature") -> {"failed"}
      [] OTHER -> {"PredictHup"}

\* Mutant of PartArrived: the part is only kept.
PartArrived_silent(got) == pending["label"]

\* MsgPredictPart at the party with the label, which then tries to finish.
PartArrived(got) ==
    IF got = "nothing" THEN pending["label"]
    ELSE [pending["label"] EXCEPT !["PredictSum"] = @ + 1]

\* ... and MsgPredictHup goes on, with the part sent or not.
PredictPart(got) ==
    LET p == "feature"
        new == DeliveredThen(got)
    IN  /\ delivering
        /\ Delivery(p, got)
        /\ pending' = [pending EXCEPT
               ![p] = After(p, "PredictHup", new),
               !["label"] = PartArrived(got)]
        /\ tries' = [tries EXCEPT ![p] = IF "PredictHup" \in new THEN @ + 1 ELSE 0]
        /\ delivering' = ("PredictHup" \in new)
        /\ partFromOther' = (partFromOther \/ got # "nothing")
        /\ UNCHANGED <<algo, common, up, model, reEncrypted, finalOfOther, modelStatus,
                       predictPart, reported>>

\* Both parts are there (deStandardizeOutput, calRealPredictValue).
PartsThere == "label" \in predictPart /\ partFromOther

\* The last message: the party without the label is done when its part is sent,
\* the one with the label when it has both.
Finish(p) ==
    /\ ProcMutexFree(p)
    /\ \/ /\ modelStatus[p] = "StartPredict"
          /\ p = "label" => PartsThere
          /\ modelStatus' = [modelStatus EXCEPT ![p] = "EndPredict"]
          /\ Runs(p, "PredictSum", {"ok"})
       \/ /\ modelStatus[p] # "StartPredict" \/ (p = "label" /\ ~PartsThere)
          /\ Runs(p, "PredictSum", {})
          /\ UNCHANGED modelStatus
    /\ UNCHANGED <<algo, common, up, model, tries, reEncrypted, finalOfOther,
                   predictPart, delivering, partFromOther, reported, mishaps>>

PredictSum(p) == algo = "linear" /\ Finish(p)
PredictFinal(p) == algo = "logic" /\ Finish(p)

-----------------------------------------------------------------------------
PredictWork ==
    \/ \E p \in Sides :
          \/ StartModel(p)
          \/ \E m \in {"ok", "failed"} : SavePrediction(p, m)
          \/ StopTask(p)
          \/ PsiEnc(p)
          \/ \E got \in Got : PsiAskReEnc(p, got)
          \/ PsiIntersect(p)
          \/ PredictHup(p)
          \/ PredictSum(p) \/ PredictFinal(p)
    \/ \E got \in Got : PredictPart(got)

PredictFaults == \E p \in Sides : TaskTimeOut(p) \/ StopMpc(p)

-----------------------------------------------------------------------------
(* Properties. *)

\* A party reports success only when the part of the party without the label has
\* arrived, over a set of samples both have agreed on: that party's own success
\* stands for one of the other, although it sees no outcome itself.
OkMeansDelivered ==
    \A p \in Sides : \A i \in DOMAIN reported[p] : reported[p][i] = "ok" =>
        partFromOther /\ common /\ BothSets(p) /\ BothSets("feature")

\* Both parties have a result and their models have left the predictor, where they
\* count against its limit; or one has failed, or its node was stopped.
PredictionOver ==
    \/ algo = "none"
    \/ \A p \in Sides : reported[p] # <<>> /\ model[p] = "deleted"
    \/ \E p \in Sides : p \notin up \/ (\E i \in DOMAIN reported[p] : reported[p][i] = "failed")
=============================================================================
