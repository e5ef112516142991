----------------------------- MODULE Evaluation -----------------------------
(***************************************************************************)
(* Model evaluation (dai/mpc/evaluator, with trainer and predictor): when  *)
(* the learner of a task has trained out its model, every party keeps the  *)
(* model aside, divides its samples into folds, and trains one more        *)
(* learner for every validation, named after the fold.  The model of such  *)
(* a learner predicts the fold that was left out; when all predictions are *)
(* there, the scores are calculated, and the model that was kept aside is  *)
(* handed over together with them.                                         *)
(*                                                                         *)
(* Every callback runs in a goroutine of its own.  A goroutine is a record *)
(* in `go`: what it still has to do, and for which fold.  A learner (or a  *)
(* model) of a fold gets to its result only with that of the other party.  *)
(* mpc.run serialises the starts, stops and validations, so each is one    *)
(* step; what runs outside of it is divided where another goroutine can    *)
(* come between.  The stops of the learners and models of folds, which run *)
(* in goroutines of their own, are part of the step that starts them.      *)
(***************************************************************************)
EXTENDS Naturals, FiniteSets

CONSTANTS
    Executors,      \* the two executors
    TagPart,      \* the one that has the label
    K,            \* number of validations (1, 5, 10 or all the samples)
    MaxFailures     \* bound of failures and time outs

ASSUME EvaluationAssumption ==
    /\ Cardinality(Executors) = 2 /\ TagPart \in Executors
    /\ K \in Nat \ {0} /\ MaxFailures \in Nat

VARIABLES
    splitOk,      \* the samples suffice for the division
    pool,         \* p -> the task is in the execution pool of the handler
    learners,     \* p -> the learners of the trainer: Main and folds
    models,       \* p -> the models of the predictor, by fold
    evaluator,    \* p -> the trainer knows an evaluator of the task
    stored,       \* p -> the trainer keeps the trained model aside
    divided,      \* p -> the evaluator has divided the samples
    results,      \* p -> folds whose prediction the evaluator has
    handedOver,        \* p -> the results handed over and stored
    go,           \* p -> the goroutines
    done,         \* the calculations both parties have completed
    failures

evalVars == <<splitOk, pool, learners, models, evaluator, stored, divided,
          results, handedOver, go, done, failures>>

Folds == 0..(K - 1)
Main == K + 1     \* the learner of the task itself, which is that of no fold

\* A goroutine: what it does next, for which learner or fold.
GoKinds == {"trained", "start", "train", "saveModel", "predicted", "score",
          "count", "finish", "write", "stopFrom"}
G(k, f) == [k |-> k, f |-> f]

\* A result handed over: with the scores of how many folds, if any.
ResultRec == [scores: SUBSET Folds, scored: BOOLEAN]

\* The main learners have just trained out the model, and SaveResult is next;
\* or there is no such task.
EvalInit(on) ==
    /\ splitOk \in BOOLEAN
    /\ pool = [p \in Executors |-> on]
    /\ learners = [p \in Executors |-> IF on THEN {Main} ELSE {}]
    /\ models = [p \in Executors |-> {}]
    /\ evaluator = [p \in Executors |-> on]
    /\ stored = [p \in Executors |-> FALSE]
    /\ divided = [p \in Executors |-> FALSE]
    /\ results = [p \in Executors |-> {}]
    /\ handedOver = [p \in Executors |-> {}]
    /\ go = [p \in Executors |-> IF on THEN {G("trained", Main)} ELSE {}]
    /\ done = {}
    /\ failures = 0

Failure == failures < MaxFailures /\ failures' = failures + 1

\* The goroutine g of p ends and starts others.
Becomes(p, g, new) == go' = [go EXCEPT ![p] = (@ \ {g}) \cup new]

-----------------------------------------------------------------------------
(***************************************************************************)
(* Trainer.                                                                *)
(***************************************************************************)

\* evaluator.Stop: one goroutine for every fold without a prediction.
Stopped(p) ==
    IF evaluator[p] /\ divided[p]
    THEN {G("stopFrom", f) : f \in Folds \ results[p]} ELSE {}

\* DeleteLearner of the user's task: the evaluator is stopped and deleted,
\* and so is the model kept aside.
DeleteLearner(p, g) ==
    /\ learners' = [learners EXCEPT ![p] = @ \ {Main}]
    /\ evaluator' = [evaluator EXCEPT ![p] = FALSE]
    /\ stored' = [stored EXCEPT ![p] = FALSE]
    /\ Becomes(p, g, Stopped(p))

\* SaveResult of the user's task.  With an evaluator, the model is kept aside
\* and the evaluation starts; without one the task has been stopped, its
\* model is refused by the handler, and it is stopped once more.
EvaluateResult(p, g) ==
    /\ stored' = [stored EXCEPT ![p] = evaluator[p]]
    /\ Becomes(p, g, IF evaluator[p] THEN {G("start", Main)} ELSE {})
    /\ UNCHANGED learners

\* SaveResult for the learner of a fold: the model goes to the evaluator, if
\* there is one still, and the learner, which nobody asks again, is stopped.
FoldResult(p, g) ==
    /\ learners' = [learners EXCEPT ![p] = @ \ {g.f}]
    /\ Becomes(p, g, IF evaluator[p] THEN {G("saveModel", g.f)} ELSE {})
    /\ UNCHANGED stored

SaveResult(p, g) == IF g.f = Main THEN EvaluateResult(p, g) ELSE FoldResult(p, g)

\* SaveResult of the predictor and Validate of the trainer: the prediction
\* goes to the evaluator, if there is one still, and the model is stopped.
Validate(p, g) ==
    /\ models' = [models EXCEPT ![p] = @ \ {g.f}]
    /\ Becomes(p, g, IF evaluator[p] THEN {G("score", g.f)} ELSE {})

\* SavePredictAndEvaluatResult and SaveModel of the handler: first they look
\* for the model kept aside and for the task in the pool; without one of
\* them nothing is stored, and the task is stopped.
FindResult(p, g) ==
    IF stored[p] /\ pool[p]
    THEN Becomes(p, g, {G("write", g.f)}) /\ UNCHANGED <<learners, evaluator, stored>>
    ELSE DeleteLearner(p, g)

\* Scores of all folds, or none if the evaluation could not start.
Scores(p, f) ==
    [scores |-> IF f \in Folds THEN results[p] ELSE {},
     scored |-> f \in Folds /\ p = TagPart]

\* The model is stored; the task is reported, taken out of the pool and
\* stopped, by the handler and then by the trainer again.
WriteResult(p, g) ==
    /\ handedOver' = [handedOver EXCEPT ![p] = @ \cup {Scores(p, g.f)}]
    /\ pool' = [pool EXCEPT ![p] = FALSE]
    /\ DeleteLearner(p, g)

-----------------------------------------------------------------------------
(***************************************************************************)
(* Evaluator.                                                              *)
(***************************************************************************)

\* Start divides the samples; if that fails, the model is handed over alone.
Start(p, g) ==
    /\ divided' = [divided EXCEPT ![p] = splitOk]
    /\ Becomes(p, g, {IF splitOk THEN G("train", 0) ELSE G("finish", Main)})

\* train starts the learners one by one, whether or not it was stopped; see
\* StartRefused for a learner that cannot be started.
Train(p, g) ==
    /\ learners' = [learners EXCEPT ![p] = @ \cup {g.f}]
    /\ Becomes(p, g, IF g.f + 1 < K THEN {G("train", g.f + 1)} ELSE {})

\* SaveModel of the evaluator starts the prediction of the fold left out; see
\* StartRefused, too.
SaveModel(p, g) ==
    /\ models' = [models EXCEPT ![p] = @ \cup {g.f}]
    /\ Becomes(p, g, {})

\* mpc.StartTask refuses the learner (train) or the model (SaveModel) of a fold,
\* since the trainer or the predictor has as many as it may have.  The error that
\* is then formatted is not this one but that of the step before, which is nil:
\* the process panics, and what it had in memory is lost.
StartRefused(p, g) ==
    /\ Failure
    /\ g.k \in {"train", "saveModel"}
    /\ pool' = [pool EXCEPT ![p] = FALSE]
    /\ learners' = [learners EXCEPT ![p] = {}]
    /\ models' = [models EXCEPT ![p] = {}]
    /\ evaluator' = [evaluator EXCEPT ![p] = FALSE]
    /\ stored' = [stored EXCEPT ![p] = FALSE]
    /\ divided' = [divided EXCEPT ![p] = FALSE]
    /\ results' = [results EXCEPT ![p] = {}]
    /\ go' = [go EXCEPT ![p] = {}]
    /\ UNCHANGED <<splitOk, handedOver, done>>

\* Stop: the goroutine started in the turn of fold f reads the variable of
\* the loop, which has any value from f to K when it runs.
StopFrom(p, g) ==
    \E i \in g.f..K :
        /\ learners' = [learners EXCEPT ![p] = @ \ {i}]
        /\ Becomes(p, g, {})

\* calMetricScoresAndCallback sets the prediction ...
SetPredictOut(p, g) ==
    /\ results' = [results EXCEPT ![p] = @ \cup {g.f}]
    /\ Becomes(p, g, {G("count", g.f)})

Enough_one(p) == Cardinality(results[p]) > 0

Enough(p) == Cardinality(results[p]) >= K

\* ... and counts them; two goroutines may both find all of them there.
CountOuts(p, g) == Becomes(p, g, IF Enough(p) THEN {G("finish", g.f)} ELSE {})

\* The party with the label cannot use the prediction of a fold, or cannot
\* calculate the scores of all: it logs so, and nobody is told.
ScoreFails(p, g) ==
    /\ Failure
    /\ p = TagPart
    /\ (g.k = "score" \/ (g.k = "count" /\ Enough(p)))
    /\ Becomes(p, g, {})
    /\ UNCHANGED <<splitOk, pool, learners, models, evaluator, stored, divided,
                   results, handedOver, done>>

-----------------------------------------------------------------------------
(***************************************************************************)
(* The calculations of both parties, and what can go wrong.                *)
(***************************************************************************)

\* The learners of a fold train out their models.
FoldTrained(f) ==
    /\ G("trained", f) \notin done
    /\ \A p \in Executors : f \in learners[p]
    /\ done' = done \cup {G("trained", f)}
    /\ go' = [p \in Executors |-> go[p] \cup {G("trained", f)}]
    /\ UNCHANGED <<splitOk, pool, learners, models, evaluator, stored, divided,
                   results, handedOver, failures>>

\* The models of a fold make their prediction.
FoldPredicted(f) ==
    /\ G("predicted", f) \notin done
    /\ \A p \in Executors : f \in models[p]
    /\ done' = done \cup {G("predicted", f)}
    /\ go' = [p \in Executors |-> go[p] \cup {G("predicted", f)}]
    /\ UNCHANGED <<splitOk, pool, learners, models, evaluator, stored, divided,
                   results, handedOver, failures>>

\* A learner fails; the evaluator is told and only logs it.
FoldFails(p, f) ==
    /\ Failure
    /\ f \in learners[p] /\ G("trained", f) \notin done
    /\ done' = done \cup {G("trained", f)}
    /\ learners' = [learners EXCEPT ![p] = @ \ {f}]
    /\ UNCHANGED <<splitOk, pool, models, evaluator, stored, divided, results,
                   handedOver, go>>

\* A model fails; the predictor does not tell the evaluator.
PredictionFails(p, f) ==
    /\ Failure
    /\ f \in models[p] /\ G("predicted", f) \notin done
    /\ done' = done \cup {G("predicted", f)}
    /\ models' = [models EXCEPT ![p] = @ \ {f}]
    /\ UNCHANGED <<splitOk, pool, learners, evaluator, stored, divided, results,
                   handedOver, go>>

\* CheckMpcTimeOutTasks of the handler.
TimeOut(p) ==
    /\ Failure
    /\ pool[p]
    /\ pool' = [pool EXCEPT ![p] = FALSE]
    /\ DeleteLearner(p, G("timeOut", Main))
    /\ UNCHANGED <<splitOk, models, divided, results, handedOver, done>>

-----------------------------------------------------------------------------
\* One step of a goroutine, by what it does next.
Goroutine(p) ==
    \E g \in go[p] :
        \/ /\ g.k = "trained" /\ SaveResult(p, g)
           /\ UNCHANGED <<pool, models, evaluator, divided, results, handedOver>>
        \/ /\ g.k = "start" /\ Start(p, g)
           /\ UNCHANGED <<pool, learners, models, evaluator, stored, results, handedOver>>
        \/ /\ g.k = "train" /\ Train(p, g)
           /\ UNCHANGED <<pool, models, evaluator, stored, divided, results, handedOver>>
        \/ /\ g.k = "saveModel" /\ SaveModel(p, g)
           /\ UNCHANGED <<pool, learners, evaluator, stored, divided, results, handedOver>>
        \/ /\ g.k = "predicted" /\ Validate(p, g)
           /\ UNCHANGED <<pool, learners, evaluator, stored, divided, results, handedOver>>
        \/ /\ g.k = "score" /\ SetPredictOut(p, g)
           /\ UNCHANGED <<pool, learners, models, evaluator, stored, divided, handedOver>>
        \/ /\ g.k = "count" /\ CountOuts(p, g)
           /\ UNCHANGED <<pool, learners, models, evaluator, stored, divided, results, handedOver>>
        \/ /\ g.k = "finish" /\ FindResult(p, g)
           /\ UNCHANGED <<pool, models, divided, results, handedOver>>
        \/ /\ g.k = "write" /\ WriteResult(p, g)
           /\ UNCHANGED <<models, divided, results>>
        \/ /\ g.k = "stopFrom" /\ StopFrom(p, g)
           /\ UNCHANGED <<pool, models, evaluator, stored, divided, results, handedOver>>

EvalWork ==
    \/ \E p \in Executors : Goroutine(p) /\ UNCHANGED <<splitOk, done, failures>>
    \/ \E f \in Folds : FoldTrained(f) \/ FoldPredicted(f)

EvalNext ==
    \/ EvalWork
    \/ \E p \in Executors, f \in Folds : FoldFails(p, f) \/ PredictionFails(p, f)
    \/ \E p \in Executors : \E g \in go[p] : StartRefused(p, g) \/ ScoreFails(p, g)
    \/ \E p \in Executors : TimeOut(p)

-----------------------------------------------------------------------------
(***************************************************************************)
(* Properties.                                                             *)
(***************************************************************************)

\* Type invariant; a model of a fold exists only after the learners of both
\* parties, or none, produced one (predictor.NewModel).
EvalTypeOK ==
    /\ pool \in [Executors -> BOOLEAN]
    /\ \A p \in Executors :
          /\ learners[p] \subseteq Folds \cup {Main}
          /\ models[p] \subseteq {f \in Folds : G("trained", f) \in done}
          /\ handedOver[p] \subseteq ResultRec
          /\ \A g \in go[p] : g.k \in GoKinds /\ g.f \in Folds \cup {Main}
    /\ evaluator \in [Executors -> BOOLEAN] /\ stored \in [Executors -> BOOLEAN]
    /\ divided \in [Executors -> BOOLEAN]
    /\ results \in [Executors -> SUBSET Folds]
    /\ failures \in 0..MaxFailures

\* A model that is handed over with an evaluation is handed over with that
\* of every fold, and one without is handed over only when the samples could
\* not be divided, however the predictions of the folds come in and whatever
\* fails, panics or times out (calMetricScoresAndCallback, train).
ScoresComplete ==
    \A p \in Executors : \A r \in handedOver[p] :
        r.scores = IF splitOk THEN Folds ELSE {}

\* When nothing fails or times out and a party's goroutines are through, it
\* keeps no learner, model, evaluator or result of the task: the learners of
\* the folds are deleted although evaluator.Stop is called after they have
\* all been predicted (DeleteLearner, Predictor.SaveResult).  After a failure
\* learners and models of folds may remain.
LeavesNothing ==
    \A p \in Executors : (failures = 0 /\ ~ pool[p] /\ go[p] = {}) =>
        learners[p] = {} /\ models[p] = {} /\ ~ evaluator[p] /\ ~ stored[p]

\* An evaluation gives all scores or none, and one that goes well cleans up
\* behind itself.
EvaluationSound == ScoresComplete /\ LeavesNothing

\* The task has left the execution pool of every party, or something has failed,
\* panicked or timed out: the failure of a fold, of a prediction or of the scores
\* is not reported, and the task stays until its time is over.
EvaluationOver == failures > 0 \/ \A p \in Executors : ~ pool[p]

=============================================================================
