--------------------------- MODULE TaskExecution ----------------------------
(***************************************************************************)
(* The executors of PaddleDTX running federated-learning tasks: the task   *)
(* monitor (dai/executor/monitor/task.go), the start-task RPC (dai/        *)
(* executor/engine/engine.go) and the MPC handler with its execution pool  *)
(* (dai/executor/handler/mpc.go), on top of the task contract.             *)
(*                                                                         *)
(* Every executor is a process with several goroutines that share the      *)
(* pool: the monitor loop, the goroutine that retries Processing tasks     *)
(* after a restart, one handler per start-task RPC and one callback per    *)
(* computation that reports a result.  A step ends where a goroutine gives *)
(* others a chance to change what it will look at next: before it takes    *)
(* the pool's lock for writing, before it invokes the contract, while it   *)
(* waits for an RPC, before it stops a task.  One tick of the monitor loop *)
(* is split into its visits of single tasks (confirm, start, time out);    *)
(* the loop does one visit at a time.  Clocks are not modelled: a task in  *)
(* the pool may time out at any visit of the loop.                         *)
(***************************************************************************)
EXTENDS FLTaskContract

CONSTANTS
    PredictTasks,     \* the prediction tasks; the other ones are training tasks
    ModelTask,        \* ModelTask[id]: the training task whose model id uses
    LabelHolder,      \* the executor whose samples carry the label
    TrainTaskLimit, PredictTaskLimit,
    MaxStarts,        \* bound: how often the requester starts a task
    MaxCrashes,       \* bound: crashes of executors
    MaxTroubles,      \* bound: restarted tasks, crashes, failing invocations and
                      \* predictions together
    MaxChainErrors    \* bound: chain invocations that fail

ASSUME LimitAssumption == TrainTaskLimit \in Nat \ {0} /\ PredictTaskLimit \in Nat \ {0}

ASSUME ModelAssumption ==
    /\ PredictTasks \subseteq Tasks
    /\ ModelTask \in [PredictTasks -> Tasks \ PredictTasks]
    /\ LabelHolder \in Executors

ASSUME FailureAssumption == Failures # {}

VARIABLES
    pool,         \* MpcTasks: the tasks in each executor's execution pool
    learner,      \* the learners and models that the MPC holds, by task
    calc,         \* computations that may still report a result
    lateStop,     \* asynchronous StopTask calls still under way
    stored,       \* ModelStorage: the trained models on disk
    thread,       \* the goroutines of every executor
    retryList,    \* Processing tasks the retry goroutine has still to visit
    up,           \* the executors that run
    starts, crashes, chainErrors

execVars == <<pool, learner, calc, lateStop, stored, thread, retryList, up>>
vars == <<chainVars, execVars, starts, crashes, chainErrors>>

Loop  == <<"loop", Empty>>
Retry == <<"retry", Empty>>
RPC(id) == <<"rpc", id>>
MPC(id) == <<"mpc", id>>
Threads == {Loop, Retry} \cup {RPC(id) : id \in Tasks} \cup {MPC(id) : id \in Tasks}

(***************************************************************************)
(* A goroutine: where it is, the task it works on, the executors it has    *)
(* still to send the start request to, the message and result that it is   *)
(* about to report, and for an RPC handler the caller that waits for it.   *)
(***************************************************************************)
PCs == {"idle", "list", "avail", "add", "send", "wait", "start", "report", "stop"}

Free == [pc |-> "idle", task |-> Empty, others |-> << >>, err |-> Empty,
         res |-> Empty, caller |-> Empty]

TypeOKExec ==
    /\ pool \in [Executors -> SUBSET Tasks]
    /\ learner \in [Executors -> SUBSET Tasks]
    /\ calc \in [Executors -> SUBSET Tasks]
    /\ lateStop \in [Executors -> SUBSET Tasks]
    /\ stored \in [Executors -> SUBSET (Tasks \ PredictTasks)]
    /\ retryList \in [Executors -> SUBSET Tasks]
    /\ up \subseteq Executors
    /\ \A e \in Executors, th \in Threads :
          /\ thread[e][th].pc \in PCs
          /\ thread[e][th].task \in Tasks \cup {Empty}
          /\ thread[e][th].caller \in (Executors \X {Loop, Retry}) \cup {Empty}

-----------------------------------------------------------------------------
(***************************************************************************)
(* Helpers.                                                                *)
(***************************************************************************)
Parties(id) == {ledger[id].dataSets[i].executor : i \in DOMAIN ledger[id].dataSets}

\* The other parties of a task in the order of its data sets.
otherParts(e, id) ==
    LET ds == SelectSeq(ledger[id].dataSets, LAMBDA d : d.executor # e)
    IN  [i \in DOMAIN ds |-> ds[i].executor]

\* GetAvailableTasksNum for the type of the task.
available(e, id) ==
    IF id \in PredictTasks
    THEN Cardinality(pool[e] \cap PredictTasks) < PredictTaskLimit
    ELSE Cardinality(pool[e] \ PredictTasks) < TrainTaskLimit

At(e, th, pc) == e \in up /\ thread[e][th].pc = pc

Goto(e, th, pc) == thread' = [thread EXCEPT ![e][th].pc = pc]
Leave(e, th)    == thread' = [thread EXCEPT ![e][th] = Free]

\* Go on to updateTaskStatusAndStopLocalMpc with this outcome.
Report(e, th, err, res) ==
    thread' = [thread EXCEPT ![e][th].pc = "report", ![e][th].err = err, ![e][th].res = res]

IsHandler(th) == th \in {RPC(id) : id \in Tasks}
IsCallback(th) == th \in {MPC(id) : id \in Tasks}

\* The caller of the RPC handler th of e still waits for it: it was not
\* restarted, its context has not timed out, and it has not gone on to another
\* call since.
Waiting(e, th) ==
    LET c == thread[e][th].caller IN
    /\ c # Empty
    /\ At(c[1], c[2], "wait")
    /\ thread[c[1]][c[2]].task = thread[e][th].task
    /\ Head(thread[c[1]][c[2]].others) = e

\* StartLocalMpcTask of the initiator: once every other party has answered,
\* the local task is started; a failure is reported.
SendTo(t, others) ==
    [t EXCEPT !.others = others, !.pc = IF others = << >> THEN "start" ELSE "send"]

Failed(t) == [t EXCEPT !.pc = "report", !.err = CHOOSE f \in Failures : TRUE]

Replied(t, ok) == IF ok THEN SendTo(t, Tail(t.others)) ELSE Failed(t)

\* An RPC handler replies and goes on to where (or ends, if that is Free).
Reply(e, th, ok, next) ==
    LET c == thread[e][th].caller
        mine == [thread EXCEPT ![e][th] = next]
    IN  thread' = IF Waiting(e, th) THEN [mine EXCEPT ![c[1]][c[2]] = Replied(@, ok)] ELSE mine

\* A goroutine ends a visit: an RPC handler that has not replied yet replies
\* with an error, the result callback leaves an asynchronous StopTask behind.
End(e, th) ==
    /\ IF IsHandler(th) /\ thread[e][th].caller # Empty
       THEN Reply(e, th, FALSE, Free) ELSE Leave(e, th)
    /\ lateStop' = IF IsCallback(th)
                   THEN [lateStop EXCEPT ![e] = @ \cup {thread[e][th].task}] ELSE lateStop

-----------------------------------------------------------------------------
(***************************************************************************)
(* Initially the tasks are published, each with one data set per executor  *)
(* (checkPublishTaskOptions refuses two data sets of one executor), the    *)
(* files are on the chain, and every executor has been started (its retry  *)
(* goroutine has found no Processing task).                                *)
(***************************************************************************)
ExecInit ==
    /\ files = DataIds
    /\ ledger \in [Tasks -> {NewTask(ds) : ds \in
          {q \in Fresh : /\ \A i, j \in DOMAIN q : q[i].executor = q[j].executor => i = j
                         /\ {q[i].executor : i \in DOMAIN q} = Executors}}]
    /\ pool = [e \in Executors |-> {}]
    /\ learner = [e \in Executors |-> {}]
    /\ calc = [e \in Executors |-> {}]
    /\ lateStop = [e \in Executors |-> {}]
    /\ stored = [e \in Executors |-> {}]
    /\ retryList = [e \in Executors |-> {}]
    /\ thread = [e \in Executors |-> [th \in Threads |-> Free]]
    /\ up = Executors
    /\ starts = [id \in Tasks |-> 0]
    /\ crashes = 0
    /\ chainErrors = 0

counters == <<starts, crashes, chainErrors>>

\* The predictions that some executor has confirmed.
Predictions ==
    {id \in PredictTasks : \E i \in DOMAIN ledger[id].dataSets : ledger[id].dataSets[i].confirmedAt # 0}

Troubles ==
    crashes + chainErrors + Cardinality({id \in Tasks : starts[id] > 1})
        + Cardinality(Predictions)

\* The blockchain client reports an error; the invocation may have been
\* applied all the same.
ChainError ==
    /\ chainErrors < MaxChainErrors /\ Troubles < MaxTroubles
    /\ chainErrors' = chainErrors + 1
    /\ UNCHANGED <<starts, crashes>>

-----------------------------------------------------------------------------
(***************************************************************************)
(* The requester's client.                                                 *)
(***************************************************************************)

\* Client.StartTask.
ClientStart(id) ==
    /\ starts[id] < MaxStarts
    /\ starts[id] > 0 => Troubles < MaxTroubles
    /\ StartTask(id)
    /\ starts' = [starts EXCEPT ![id] = @ + 1]
    /\ UNCHANGED <<execVars, crashes, chainErrors>>

-----------------------------------------------------------------------------
(***************************************************************************)
(* The monitor: loopRequest and RetryProcessingTask.                       *)
(***************************************************************************)

\* A prediction task is published, hence visible, only once its training task
\* is Finished (checkPublishTaskOptions).
Visible(id) ==
    id \in PredictTasks =>
        /\ ledger[ModelTask[id]].status = TaskFinished
        /\ id \notin Predictions => Troubles < MaxTroubles

\* getUnconfirmedTaskAndConfirm for an executor of type "Self": confirm.
VisitConfirming(e, id) ==
    /\ At(e, Loop, "idle")
    /\ Visible(id)
    /\ id \in ListTask(e, TaskConfirming)
    /\ ConfirmTask(id, e)
    /\ UNCHANGED <<execVars, counters>>

\* getToProcessTaskAndStart: a listed task for which resources are left is
\* set to Processing (updateTaskExecStatus); of several executors one wins,
\* the others give the task up.
VisitToProcess(e, id) ==
    /\ At(e, Loop, "idle")
    /\ id \in ListTask(e, TaskToProcess)
    /\ available(e, id)
    /\ ExecuteTask(id, e)
    /\ \/ /\ thread' = [thread EXCEPT ![e][Loop] = [Free EXCEPT !.pc = "avail", !.task = id]]
          /\ UNCHANGED counters
       \/ ChainError /\ UNCHANGED thread
    /\ UNCHANGED <<pool, learner, calc, lateStop, stored, retryList, up>>

\* RetryProcessingTask lists the Processing tasks once, when the node starts.
RetryProcessingTask(e) ==
    /\ At(e, Retry, "list")
    /\ retryList' = [retryList EXCEPT ![e] = ListTask(e, TaskProcessing)]
    /\ Leave(e, Retry)
    /\ UNCHANGED <<chainVars, pool, learner, calc, lateStop, stored, up, counters>>

\* ... and starts each of them, whatever became of it in the meantime.
VisitProcessing(e, id) ==
    /\ At(e, Retry, "idle")
    /\ id \in retryList[e]
    /\ retryList' = [retryList EXCEPT ![e] = @ \ {id}]
    /\ thread' = [thread EXCEPT ![e][Retry] = [Free EXCEPT !.pc = "avail", !.task = id]]
    /\ UNCHANGED <<chainVars, pool, learner, calc, lateStop, stored, up, counters>>

\* Mutant of CheckMpcTimeOutTasks: the task is stopped, but not reported.
CheckMpcTimeOutTasks_silent(e, id) ==
    /\ At(e, Loop, "idle")
    /\ id \in pool[e]
    /\ thread' = [thread EXCEPT ![e][Loop] = [Free EXCEPT !.pc = "stop", !.task = id]]
    /\ UNCHANGED <<chainVars, pool, learner, calc, lateStop, stored, retryList, up, counters>>

\* CheckMpcTimeOutTasks: a task whose time is up is reported as failed and
\* stopped.
CheckMpcTimeOutTasks(e, id) ==
    /\ At(e, Loop, "idle")
    /\ id \in pool[e]
    /\ thread' = [thread EXCEPT ![e][Loop] = Failed([Free EXCEPT !.task = id])]
    /\ UNCHANGED <<chainVars, pool, learner, calc, lateStop, stored, retryList, up, counters>>

-----------------------------------------------------------------------------
(***************************************************************************)
(* TaskStartPrepare, on the monitor's and the RPC handlers' goroutines.    *)
(***************************************************************************)

\* addTaskIntoMpcHandler counts the tasks under the read lock ...
CountTasks(e, th) ==
    /\ At(e, th, "avail")
    /\ \/ available(e, thread[e][th].task) /\ Goto(e, th, "add") /\ UNCHANGED lateStop
       \/ ~ available(e, thread[e][th].task) /\ End(e, th)
    /\ UNCHANGED <<chainVars, pool, learner, calc, stored, retryList, up, counters>>

\* ... and inserts the task under the write lock, taken afterwards.  A task
\* that is there already is an error, which the RPC handler answers with OK.
\* getMpcStartTaskParam then downloads the samples and, for a prediction,
\* reads the model from the local storage; if that fails the task is reported
\* as failed.  The RPC handler replies and goes on in a goroutine of its own.
AddTask(e, th) ==
    LET id == thread[e][th].task IN
    /\ At(e, th, "add")
    /\ \/ /\ id \in pool[e]
          /\ IF IsHandler(th) THEN Reply(e, th, TRUE, Free) ELSE Leave(e, th)
          /\ UNCHANGED pool
       \/ /\ id \notin pool[e]
          /\ pool' = [pool EXCEPT ![e] = @ \cup {id}]
          /\ \/ /\ id \in PredictTasks => ModelTask[id] \in stored[e]
                /\ IF IsHandler(th)
                   THEN Reply(e, th, TRUE, [Free EXCEPT !.pc = "start", !.task = id])
                   ELSE thread' = [thread EXCEPT ![e][th] = SendTo(@, otherParts(e, id))]
             \/ \E f \in Failures : Report(e, th, f, Empty)
    /\ UNCHANGED <<chainVars, learner, calc, lateStop, stored, retryList, up, counters>>

-----------------------------------------------------------------------------
(***************************************************************************)
(* StartLocalMpcTask.                                                      *)
(***************************************************************************)

\* sendTaskStartRequest: the request reaches the next party, whose
\* Engine.StartTask goes on if it finds the task Processing and answers with
\* an error otherwise.
SendStartRequest(e, th) ==
    LET id == thread[e][th].task
        p  == Head(thread[e][th].others)
    IN
    /\ At(e, th, "send")
    /\ At(p, RPC(id), "idle")
    /\ \/ /\ ledger[id].status = TaskProcessing
          /\ thread' = [thread EXCEPT
                ![e][th].pc = "wait",
                ![p][RPC(id)] = [Free EXCEPT !.pc = "avail", !.task = id, !.caller = <<e, th>>]]
       \/ /\ ledger[id].status # TaskProcessing
          /\ thread' = [thread EXCEPT ![e][th] = Failed(@)]
    /\ UNCHANGED <<chainVars, pool, learner, calc, lateStop, stored, retryList, up, counters>>

\* ... or it cannot be sent, or no answer arrives before the time out.
StartRequestFails(e, th) ==
    /\ At(e, th, "send") \/ At(e, th, "wait")
    /\ thread' = [thread EXCEPT ![e][th] = Failed(@)]
    /\ UNCHANGED <<chainVars, pool, learner, calc, lateStop, stored, retryList, up, counters>>

\* Mpc.StartTask creates the learner (or model) unless the task has one.
StartMpcTask(e, th) ==
    LET id == thread[e][th].task IN
    /\ At(e, th, "start")
    /\ \/ /\ id \notin learner[e]
          /\ learner' = [learner EXCEPT ![e] = @ \cup {id}]
          /\ calc' = [calc EXCEPT ![e] = @ \cup {id}]
          /\ Leave(e, th)
       \/ (\E f \in Failures : Report(e, th, f, Empty)) /\ UNCHANGED <<learner, calc>>
    /\ UNCHANGED <<chainVars, pool, lateStop, stored, retryList, up, counters>>

-----------------------------------------------------------------------------
(***************************************************************************)
(* Results: SaveModel and SavePredictOut, called back by the computation.  *)
(***************************************************************************)

\* The computation ends with a result, good or bad.  A computation whose
\* learner was deleted may still be under way and report too.
MpcResult(e, id) ==
    /\ At(e, MPC(id), "idle")
    /\ id \in calc[e]
    /\ calc' = [calc EXCEPT ![e] = @ \ {id}]
    /\ UNCHANGED <<chainVars, pool, learner, retryList, up, counters>>

\* A result for a task that has left the pool is dropped.
DropResult(e, id) ==
    /\ MpcResult(e, id)
    /\ id \notin pool[e]
    /\ lateStop' = [lateStop EXCEPT ![e] = @ \cup {id}]
    /\ UNCHANGED <<stored, thread>>

Callback(e, id, pc, err, res) ==
    thread' = [thread EXCEPT ![e][MPC(id)] =
        [Free EXCEPT !.pc = pc, !.task = id, !.err = err, !.res = res]]

\* Mutant of SaveModel: the task is reported as Finished although the model
\* could not be stored.
SaveModel_ignoreError(e, id) ==
    /\ MpcResult(e, id)
    /\ id \in pool[e] \ PredictTasks
    /\ \/ stored' = [stored EXCEPT ![e] = @ \cup {id}]
       \/ UNCHANGED stored
    /\ Callback(e, id, "report", Empty, Empty)
    /\ UNCHANGED lateStop

\* SaveModel: a model is stored before the task is reported as Finished; a
\* failure of the training or of the storage is reported as such.
SaveModel(e, id) ==
    /\ MpcResult(e, id)
    /\ id \in pool[e] \ PredictTasks
    /\ \/ /\ stored' = [stored EXCEPT ![e] = @ \cup {id}]
          /\ Callback(e, id, "report", Empty, Empty)
       \/ (\E f \in Failures : Callback(e, id, "report", f, Empty)) /\ UNCHANGED stored
    /\ UNCHANGED lateStop

\* SavePredictOut: only the party with the label has outcomes to save and
\* reports to the chain; the other ones just stop.
SavePredictOut(e, id) ==
    /\ MpcResult(e, id)
    /\ id \in pool[e] \cap PredictTasks
    /\ \/ e # LabelHolder /\ Callback(e, id, "stop", Empty, Empty)
       \/ /\ e = LabelHolder
          /\ \E r \in Results \cup {Empty} : Callback(e, id, "report", Empty, r)
       \/ \E f \in Failures : Callback(e, id, "report", f, Empty)
    /\ UNCHANGED <<stored, lateStop>>

-----------------------------------------------------------------------------
(***************************************************************************)
(* updateTaskStatusAndStopLocalMpc.                                        *)
(***************************************************************************)

\* UpdateTaskFinishStatus: a task that is Processing is reported, any other
\* one is left alone.  An error of the chain is logged, and nothing else.
UpdateTaskFinishStatus(e, th) ==
    LET t == thread[e][th] IN
    /\ At(e, th, "report")
    /\ \/ FinishTask(t.task, e, t.err, t.res) /\ UNCHANGED counters
       \/ ledger[t.task].status # TaskProcessing /\ UNCHANGED <<chainVars, counters>>
       \/ ChainError /\ (FinishTask(t.task, e, t.err, t.res) \/ UNCHANGED chainVars)
    /\ Goto(e, th, "stop")
    /\ UNCHANGED <<pool, learner, calc, lateStop, stored, retryList, up>>

\* Mutant of stopLocalMpcTask: the pool's entry is not deleted.
stopLocalMpcTask_keep(e, th) ==
    LET id == thread[e][th].task IN
    /\ At(e, th, "stop")
    /\ \/ id \notin pool[e] /\ UNCHANGED learner
       \/ id \in pool[e] /\ learner' = [learner EXCEPT ![e] = @ \ {id}]
    /\ End(e, th)
    /\ UNCHANGED <<chainVars, pool, calc, stored, retryList, up, counters>>

\* stopLocalMpcTask: a task that is in the pool is stopped in the MPC and
\* deleted from the pool.  The code looks into the pool without its lock and
\* takes it for the deletion only (mpc.go:235-248); the three are one step
\* here, at the deletion, so a learner that a second attempt starts between
\* the stop and the deletion is taken for one that is stopped with it.
stopLocalMpcTask(e, th) ==
    LET id == thread[e][th].task IN
    /\ At(e, th, "stop")
    /\ \/ id \notin pool[e] /\ UNCHANGED <<learner, pool>>
       \/ /\ id \in pool[e]
          /\ learner' = [learner EXCEPT ![e] = @ \ {id}]
          /\ pool' = [pool EXCEPT ![e] = @ \ {id}]
    /\ End(e, th)
    /\ UNCHANGED <<chainVars, calc, stored, retryList, up, counters>>

\* The StopTask that SaveResult of trainer or predictor runs asynchronously
\* after the callback has returned.
SaveResultStops(e, id) ==
    /\ e \in up
    /\ id \in lateStop[e]
    /\ learner' = [learner EXCEPT ![e] = @ \ {id}]
    /\ lateStop' = [lateStop EXCEPT ![e] = @ \ {id}]
    /\ UNCHANGED <<chainVars, pool, calc, stored, thread, retryList, up, counters>>

-----------------------------------------------------------------------------
(***************************************************************************)
(* Crashes.  Only the models on disk survive; Engine.Start runs the retry  *)
(* goroutine again.                                                        *)
(***************************************************************************)
Crash(e) ==
    /\ e \in up
    /\ crashes < MaxCrashes /\ Troubles < MaxTroubles
    /\ crashes' = crashes + 1
    /\ up' = up \ {e}
    /\ pool' = [pool EXCEPT ![e] = {}]
    /\ learner' = [learner EXCEPT ![e] = {}]
    /\ calc' = [calc EXCEPT ![e] = {}]
    /\ lateStop' = [lateStop EXCEPT ![e] = {}]
    /\ retryList' = [retryList EXCEPT ![e] = {}]
    /\ thread' = [thread EXCEPT ![e] = [th \in Threads |-> Free]]
    /\ UNCHANGED <<chainVars, stored, starts, chainErrors>>

\* Mutant of Restart: the node starts without RetryProcessingTask.
Restart_noRetry(e) ==
    /\ e \notin up
    /\ up' = up \cup {e}
    /\ UNCHANGED <<chainVars, pool, learner, calc, lateStop, stored, thread, retryList, counters>>

Restart(e) ==
    /\ e \notin up
    /\ up' = up \cup {e}
    /\ thread' = [thread EXCEPT ![e][Retry] = [Free EXCEPT !.pc = "list"]]
    /\ UNCHANGED <<chainVars, pool, learner, calc, lateStop, stored, retryList, counters>>

-----------------------------------------------------------------------------
ThreadStep(e, th) ==
    \/ CountTasks(e, th)
    \/ AddTask(e, th)
    \/ SendStartRequest(e, th)
    \/ StartRequestFails(e, th)
    \/ StartMpcTask(e, th)
    \/ UpdateTaskFinishStatus(e, th)
    \/ stopLocalMpcTask(e, th)

ExecNext ==
    \/ \E id \in Tasks : ClientStart(id)
    \/ \E e \in Executors :
          \/ \E th \in Threads : ThreadStep(e, th)
          \/ \E id \in Tasks :
                \/ VisitConfirming(e, id)
                \/ VisitToProcess(e, id)
                \/ VisitProcessing(e, id)
                \/ CheckMpcTimeOutTasks(e, id)
                \/ DropResult(e, id)
                \/ SaveModel(e, id)
                \/ SavePredictOut(e, id)
                \/ SaveResultStops(e, id)
          \/ RetryProcessingTask(e)
          \/ Crash(e)
          \/ Restart(e)

ExecSpec == ExecInit /\ [][ExecNext]_vars

(***************************************************************************)
(* Fairness.  Every goroutine that can take a step eventually does; a node *)
(* that crashed is restarted.  Each tick of the monitor loop visits every  *)
(* listed task and, once its time is up, every task of the pool, so a task *)
(* that can be visited again and again is (strong fairness: between two    *)
(* visits the loop is busy).  Nothing is assumed of the computations: they *)
(* need not report, and an asynchronous StopTask need not run.             *)
(***************************************************************************)

\* The goroutine that Engine.Start leaves behind for RetryProcessingTask.
StartUp(e) ==
    \/ Restart(e)
    \/ RetryProcessingTask(e)
    \/ \E id \in Tasks : VisitProcessing(e, id)
    \/ ThreadStep(e, Retry)

ExecFairness ==
    \A e \in Executors :
        /\ WF_vars(StartUp(e))
        /\ WF_vars(ThreadStep(e, Loop))
        /\ \A id \in Tasks :
              /\ WF_vars(ThreadStep(e, RPC(id)))
              /\ WF_vars(ThreadStep(e, MPC(id)))
              /\ SF_vars(VisitToProcess(e, id))
              /\ SF_vars(CheckMpcTimeOutTasks(e, id))

FairExecSpec == ExecSpec /\ ExecFairness

-----------------------------------------------------------------------------
(***************************************************************************)
(* Properties.                                                             *)
(***************************************************************************)

\* The state of the executors is well formed.
ExecTypeOK == TypeOK /\ TypeOKExec

\* No executor spends its samples on a task before every party has confirmed
\* it and the requester has started it: whoever has the task in the pool, or
\* a learner or computation for it, is a party of a task past Ready.  It
\* must hold across restarts, stale RPCs and late computations.
ConsentBeforeUse ==
    \A e \in Executors : \A id \in pool[e] \cup learner[e] \cup calc[e] :
        /\ e \in Parties(id)
        /\ Confirmed(ledger[id])
        /\ ledger[id].status \notin {TaskConfirming, TaskReady, TaskRejected}

\* A training task is Finished only if some party has its model on disk, and
\* a prediction only if the party with the label had the model that it is
\* made with: results are saved before they are reported, also when nodes
\* crash or a stale computation reports into a later attempt.
FinishedIsBacked ==
    \A id \in Tasks : ledger[id].status = TaskFinished =>
        IF id \in PredictTasks
        THEN ModelTask[id] \in stored[LabelHolder]
        ELSE \E e \in Parties(id) : id \in stored[e]

\* Some executor is in charge of the task: it has it in the pool, where it
\* will time out at the latest, a goroutine is about to put it there or to
\* report it, or the node will retry it.
Watched(id) ==
    \E e \in Parties(id) :
        \/ id \in pool[e] \cup retryList[e]
        \/ e \notin up \/ thread[e][Retry].pc = "list"
        \/ \E th \in Threads : thread[e][th].task = id
              /\ thread[e][th].pc \in {"avail", "add", "send", "wait", "start", "report"}

\* A Processing task is never abandoned in its first attempt, as long as the
\* pools have room for it and the chain answers: "when participants abnormally
\* exit computation process the task may be in Processing stage forever"
\* (dai/executor/monitor/task.go:242 and 300) is what the monitor sets out
\* to prevent.  A pool that fills up between the two looks at it (VisitToProcess,
\* CountTasks) does leave the task to the next restart of the node.
ProcessingIsWatched ==
    \A id \in Tasks : ledger[id].status = TaskProcessing /\ starts[id] <= 1 => Watched(id)

\* Something of an attempt at the task is still there: a goroutine, a pool's
\* entry, a learner, a computation or a stop on its way.
Leftover(id) ==
    \E e \in Executors :
        \/ id \in pool[e] \cup learner[e] \cup calc[e] \cup lateStop[e] \cup retryList[e]
        \/ \E th \in Threads : thread[e][th].task = id

\* A task that was started ends, and does not stay Processing forever, although
\* a node crashes at any step of it: RetryProcessingTask is there for the one
\* (dai/executor/monitor/task.go:243), the time out of the pools for the other
\* parties.  The same holds of a task that is started again after nothing of
\* the failed attempt is left.  With something left it need not: a late
\* stopLocalMpcTask of the first attempt takes the second one out of the pool
\* that should have watched it.  Nor need it when an invocation of the chain
\* fails: its error is logged and nothing else.
ProcessingEnds ==
    \A id \in Tasks :
        (\/ starts[id] = 1 /\ ledger[id].status \in {TaskToProcess, TaskProcessing}
         \/ ledger[id].status = TaskToProcess /\ ~Leftover(id))
        ~> (ledger[id].status \in {TaskFinished, TaskFailed} \/ chainErrors > 0)

\* Whatever becomes of a task, it does not occupy the pools for ever: a party
\* that is never told of the end, whose computation hangs or whose pool got the
\* task by a retry or a request of an earlier attempt lets it go, and so a
\* time comes, again and again, when no pool holds the task.
PoolIsReleased ==
    \A id \in Tasks :
        (\E e \in Executors : id \in pool[e]) ~> (\A e \in Executors : id \notin pool[e])
=============================================================================
