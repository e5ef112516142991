---------------------------- MODULE MCProtocols ----------------------------
(***************************************************************************)
(* The protocols that follow training: the evaluation of a model, a        *)
(* vertical prediction, and a task of PaddleFL.  A behaviour runs one of   *)
(* them; they share no state.                                              *)
(***************************************************************************)
EXTENDS Evaluation, DNNTask, Prediction

\* In training the party with the label may prepare its data, samples and labels,
\* a second time.
MCTwice == {<<"train", 1>>}

protocolVars == <<evalVars, dnnVars, predictVars>>

ProtocolInit ==
    \/ EvalInit(TRUE) /\ DNNInit({"none"}) /\ PredictInit({"none"}) /\ common
    \/ EvalInit(FALSE) /\ splitOk /\ DNNInit({"train", "predict"}) /\ PredictInit({"none"}) /\ common
    \/ EvalInit(FALSE) /\ splitOk /\ DNNInit({"none"}) /\ PredictInit({"linear", "logic"})

ProtocolWork ==
    \/ EvalWork /\ UNCHANGED <<dnnVars, predictVars>>
    \/ job # "none" /\ DNNWork /\ UNCHANGED <<evalVars, predictVars>>
    \/ algo # "none" /\ PredictWork /\ UNCHANGED <<evalVars, dnnVars>>

ProtocolNext ==
    \/ EvalNext /\ UNCHANGED <<dnnVars, predictVars>>
    \/ job # "none" /\ DNNWork /\ UNCHANGED <<evalVars, predictVars>>
    \/ algo # "none" /\ PredictWork /\ UNCHANGED <<evalVars, dnnVars>>
    \/ PredictFaults /\ UNCHANGED <<evalVars, dnnVars>>

\* Goroutines, containers and calculations go on; nothing has to fail, to time
\* out or to be stopped.
ProtocolSpec == ProtocolInit /\ [][ProtocolNext]_protocolVars /\ WF_protocolVars(ProtocolWork)

\* Nobody waits in silence unless something has failed, whichever way goroutines
\* run: no callback between trainer, evaluator and predictor gets lost, and no
\* party deletes what the other one still needs.  A failure of a fold, a failure
\* that a party of PaddleFL has reported, and data that are prepared twice count
\* as answers: what the others then wait for is released by the time out of the
\* task only (EvaluationOver, DNNOver, PredictionOver).  (The goroutines are those which
\* advance() of learners and models starts, dai/mpc/models and dai/mpc/evaluator.)
TasksAnswered == <>(EvaluationOver /\ DNNOver /\ PredictionOver)
=============================================================================
