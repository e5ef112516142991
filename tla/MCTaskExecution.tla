-------------------------- MODULE MCTaskExecution ---------------------------
(***************************************************************************)
(* Executors running tasks on small instances.                             *)
(***************************************************************************)
EXTENDS TaskExecution, TLC

CONSTANTS e1, e2, t1, t2

NoPrediction == << >>
T2PredictsWithT1 == t2 :> t1

\* Between two executors the order of a task's data sets decides nothing: each
\* has one other party to send the start request to.
FaultInit ==
    /\ ExecInit
    /\ \A id \in Tasks : ledger[id].dataSets[1].executor = e1

FaultSpec == FaultInit /\ [][ExecNext]_vars

(***************************************************************************)
(* The instance for liveness.  The executor that first sets the task to    *)
(* Processing is called e1, which loses nothing: the two differ in nothing *)
(* else.  Two bounds keep the graph small enough: it is e1 that crashes,   *)
(* at any step once the task is Processing, and the task is started again  *)
(* when of the failed attempt only the entry in e2's pool and the          *)
(* computation there may be left.                                          *)
(***************************************************************************)
OnlyE2HasLeft ==
    /\ \A e \in Executors : lateStop[e] = {} /\ \A th \in Threads : thread[e][th] = Free
    /\ pool[e1] = {} /\ calc[e1] = {}

LiveNext ==
    /\ ExecNext
    /\ crashes' > crashes =>
          e2 \in up' /\ \E id \in Tasks : ledger[id].status = TaskProcessing
    /\ starts' # starts /\ (\E id \in Tasks : starts[id] > 0) => OnlyE2HasLeft
    /\ \A id \in Tasks :
          (starts[id] = 1 /\ ledger[id].status = TaskToProcess /\ ledger'[id].status = TaskProcessing)
             => thread[e2][Loop] = thread'[e2][Loop]

LiveSpec == FaultInit /\ [][LiveNext]_vars /\ ExecFairness
=============================================================================
