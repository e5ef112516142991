--------------------------- MODULE FLTaskContract ---------------------------
(***************************************************************************)
(* The federated-learning task contract of PaddleDTX                       *)
(* (dai/blockchain/xchain/contract/task.go).  The ledger holds one record  *)
(* per published task; each contract invocation is one transaction, hence  *)
(* one atomic step.  An invocation that the contract answers with an error *)
(* writes nothing, so it is a step that is not taken.                      *)
(*                                                                         *)
(* Timestamps are abstracted to "zero" and "set" (the code only ever       *)
(* compares ConfirmedAt and RejectedAt with 0); signatures are abstracted  *)
(* to the identity of the caller, which checkSign binds to the invocation. *)
(***************************************************************************)
EXTENDS Integers, FiniteSets, Sequences

CONSTANTS
    Tasks,        \* task identifiers (uuids)
    Executors,    \* public keys of executor nodes
    DataIds,      \* identifiers of sample files
    Results,      \* non-empty results (file ids) of prediction tasks
    Failures,     \* non-empty error messages and reject reasons
    Empty,        \* the empty string
    MaxDataSets   \* bound: data sets of one task

ASSUME EmptyAssumption == Empty \notin Results /\ Empty \notin Failures

ASSUME MaxDataSetsAssumption == MaxDataSets \in Nat

VARIABLES
    ledger,       \* the tasks on the chain: a function on the published ids
    files         \* the sample files on the chain

chainVars == <<ledger, files>>

TaskConfirming == "Confirming"
TaskReady      == "Ready"
TaskToProcess  == "ToProcess"
TaskProcessing == "Processing"
TaskFinished   == "Finished"
TaskFailed     == "Failed"
TaskRejected   == "Rejected"

Statuses == {TaskConfirming, TaskReady, TaskToProcess, TaskProcessing,
             TaskFinished, TaskFailed, TaskRejected}

(***************************************************************************)
(* pbTask.DataForTask: one data set of a task, held by one executor.       *)
(* A time stamp is 0 until the contract sets it.                           *)
(***************************************************************************)
DataForTask == [executor: Executors, dataID: DataIds,
                confirmedAt: {0, 1}, rejectedAt: {0, 1}]

FLTask == [dataSets: Seq(DataForTask), status: Statuses,
           startTime: {0, 1}, endTime: {0, 1},
           errMessage: Failures \cup {Empty}, result: Results \cup {Empty}]

Published == DOMAIN ledger

Init ==
    /\ ledger = << >>
    /\ files = {}

-----------------------------------------------------------------------------
(***************************************************************************)
(* Helpers of the contract.                                                *)
(***************************************************************************)

\* checkExecutor: the caller holds one of the data sets of the task.
checkExecutor(e, t) == \E i \in DOMAIN t.dataSets : t.dataSets[i].executor = e

Own(e, t) == {i \in DOMAIN t.dataSets : t.dataSets[i].executor = e}

\* ListTask with an executor's key and a status.
ListTask(e, s) ==
    {id \in Published : ledger[id].status = s /\ checkExecutor(e, ledger[id])}

\* Mutant of NewTask: the contract keeps the status that the client sent.
NewTask_statusNotSet(ds) ==
    [dataSets |-> ds, status |-> Empty, startTime |-> 0, endTime |-> 0,
     errMessage |-> Empty, result |-> Empty]

\* A task as the requester's client builds it: nothing confirmed, no result.
NewTask(ds) ==
    [dataSets |-> ds, status |-> TaskConfirming, startTime |-> 0, endTime |-> 0,
     errMessage |-> Empty, result |-> Empty]

\* Mutant of isAllConfirm: one confirmation of another executor is enough.
isAllConfirm_any(t, e) ==
    \E i \in DOMAIN t.dataSets \ Own(e, t) : t.dataSets[i].confirmedAt # 0

\* Mutant of isAllConfirm: the flag is never cleared.
isAllConfirm_none(t, e) == TRUE

\* isAllConfirm: every data set of another executor is confirmed.
isAllConfirm(t, e) ==
    \A i \in DOMAIN t.dataSets \ Own(e, t) : t.dataSets[i].confirmedAt # 0

\* The early returns of setTaskConfirmStatus.
CanConfirm(id, e) ==
    /\ id \in Published
    /\ checkExecutor(e, ledger[id])
    /\ ledger[id].status = TaskConfirming
    /\ \A i \in Own(e, ledger[id]) :
          /\ ledger[id].dataSets[i].dataID \in files
          /\ ledger[id].dataSets[i].confirmedAt = 0
          /\ ledger[id].dataSets[i].rejectedAt = 0

\* The caller's data sets are stamped, the other ones are left alone.
StampConfirmed(t, e) ==
    [i \in DOMAIN t.dataSets |->
        IF t.dataSets[i].executor = e
        THEN [t.dataSets[i] EXCEPT !.confirmedAt = 1] ELSE t.dataSets[i]]

StampRejected(t, e) ==
    [i \in DOMAIN t.dataSets |->
        IF t.dataSets[i].executor = e
        THEN [t.dataSets[i] EXCEPT !.rejectedAt = 1] ELSE t.dataSets[i]]

-----------------------------------------------------------------------------
(***************************************************************************)
(* The invocations.                                                        *)
(***************************************************************************)

\* The storage network publishes a sample file (xdb's PublishFile puts the
\* file under its id in the same key space); files are never removed.
AddFile(d) ==
    /\ files' = files \cup {d}
    /\ UNCHANGED ledger

\* PublishTask: a duplicated task id is refused.
PublishTask(id, ds) ==
    /\ id \notin Published
    /\ ledger' = [k \in Published \cup {id} |->
                     IF k = id THEN NewTask(ds) ELSE ledger[k]]
    /\ UNCHANGED files

\* ConfirmTask = setTaskConfirmStatus(isConfirm = true).
ConfirmTask(id, e) ==
    /\ CanConfirm(id, e)
    /\ ledger' = [ledger EXCEPT
          ![id].dataSets = StampConfirmed(ledger[id], e),
          ![id].status = IF isAllConfirm(ledger[id], e) THEN TaskReady ELSE @]
    /\ UNCHANGED files

\* RejectTask = setTaskConfirmStatus(isConfirm = false): the rejection wins
\* over isAllConfirm.
RejectTask(id, e, reason) ==
    /\ CanConfirm(id, e)
    /\ ledger' = [ledger EXCEPT
          ![id].dataSets = StampRejected(ledger[id], e),
          ![id].status = TaskRejected,
          ![id].errMessage = reason]
    /\ UNCHANGED files

\* Mutant of StartTask: a task that still runs is started once more.
StartTask_running(id) ==
    /\ id \in Published
    /\ ledger[id].status \in {TaskReady, TaskProcessing, TaskFailed}
    /\ ledger' = [ledger EXCEPT ![id].status = TaskToProcess]
    /\ UNCHANGED files

\* StartTask: also restarts a failed task; what the failed attempt left in
\* the record (times, message, result) stays.
StartTask(id) ==
    /\ id \in Published
    /\ ledger[id].status \in {TaskReady, TaskFailed}
    /\ ledger' = [ledger EXCEPT ![id].status = TaskToProcess]
    /\ UNCHANGED files

\* ExecuteTask = setTaskExecuteStatus(isFinish = false).
ExecuteTask(id, e) ==
    /\ id \in Published
    /\ checkExecutor(e, ledger[id])
    /\ ledger[id].status = TaskToProcess
    /\ ledger' = [ledger EXCEPT ![id].status = TaskProcessing, ![id].startTime = 1]
    /\ UNCHANGED files

\* Mutant of FinishTask: the status is not checked.
FinishTask_anyStatus(id, e, err, res) ==
    /\ id \in Published
    /\ checkExecutor(e, ledger[id])
    /\ ledger' = [ledger EXCEPT
          ![id].status = IF err = Empty THEN TaskFinished ELSE TaskFailed,
          ![id].endTime = 1,
          ![id].result = res,
          ![id].errMessage = IF err = Empty THEN @ ELSE err]
    /\ UNCHANGED files

\* FinishTask = setTaskExecuteStatus(isFinish = true): a non-empty error
\* message means failure; an empty one leaves the recorded message alone.
FinishTask(id, e, err, res) ==
    /\ id \in Published
    /\ checkExecutor(e, ledger[id])
    /\ ledger[id].status = TaskProcessing
    /\ ledger' = [ledger EXCEPT
          ![id].status = IF err = Empty THEN TaskFinished ELSE TaskFailed,
          ![id].endTime = 1,
          ![id].result = res,
          ![id].errMessage = IF err = Empty THEN @ ELSE err]
    /\ UNCHANGED files

-----------------------------------------------------------------------------
(***************************************************************************)
(* The contract under any sequence of invocations.  The requester's client *)
(* submits tasks with nothing confirmed (checkPublishTaskOptions).         *)
(***************************************************************************)
Fresh ==
    UNION {[1..n -> {ds \in DataForTask : ds.confirmedAt = 0 /\ ds.rejectedAt = 0}]
             : n \in 1..MaxDataSets}

Next ==
    \/ \E d \in DataIds : AddFile(d)
    \/ \E id \in Tasks, ds \in Fresh : PublishTask(id, ds)
    \/ \E id \in Tasks, e \in Executors :
          \/ ConfirmTask(id, e)
          \/ \E r \in Failures \cup {Empty} : RejectTask(id, e, r)
          \/ ExecuteTask(id, e)
          \/ \E err \in Failures \cup {Empty}, res \in Results \cup {Empty} :
                FinishTask(id, e, err, res)
    \/ \E id \in Tasks : StartTask(id)

Spec == Init /\ [][Next]_chainVars

-----------------------------------------------------------------------------
(***************************************************************************)
(* Properties.                                                             *)
(***************************************************************************)

\* The records on the chain are well formed.
TypeOK ==
    /\ Published \subseteq Tasks
    /\ ledger \in [Published -> FLTask]
    /\ files \subseteq DataIds

Confirmed(t) == \A i \in DOMAIN t.dataSets : t.dataSets[i].confirmedAt = 1
SomeRejected(t) == \E i \in DOMAIN t.dataSets : t.dataSets[i].rejectedAt = 1

StatusAgrees(t, fs) ==
    /\ (t.status = TaskRejected) <=> SomeRejected(t)
    /\ (t.status \notin {TaskConfirming, TaskRejected}) <=> Confirmed(t)
    /\ \A i \in DOMAIN t.dataSets :
          /\ t.dataSets[i].confirmedAt = 1 => t.dataSets[i].dataID \in fs
          /\ t.dataSets[i].confirmedAt = 0 \/ t.dataSets[i].rejectedAt = 0

\* The status agrees with the executors' answers: a task is Ready or beyond
\* exactly when every one of its data sets was confirmed, it is Rejected
\* exactly when one was rejected, it never stays Confirming once all have
\* confirmed (setTaskConfirmStatus computes the status from the other
\* executors' stamps only, so the last confirmation must see all earlier
\* ones), no data set is both confirmed and rejected, and a confirmed one is
\* on the chain.
StatusAgreesWithAnswers == \A id \in Published : StatusAgrees(ledger[id], files)

TimesAgree(t) ==
    /\ t.status \in {TaskProcessing, TaskFinished, TaskFailed} => t.startTime = 1
    /\ t.status \in {TaskFinished, TaskFailed} => t.endTime = 1
    /\ t.status \in {TaskConfirming, TaskReady, TaskRejected} =>
          t.startTime = 0 /\ t.endTime = 0 /\ t.result = Empty
    /\ t.endTime = 1 => t.startTime = 1
    /\ t.status = TaskFailed => t.errMessage # Empty

\* What an execution leaves in the record agrees with the status through any
\* number of restarts: a task that runs has a start time, one that ended has
\* an end time, one that no executor has run carries neither, nor a result,
\* and a Failed task always says why (although an attempt that succeeds
\* leaves the message of an earlier failure in place).
TimesAgreeWithStatus == \A id \in Published : TimesAgree(ledger[id])

\* The life of a task, as pairs of a status and the one after it.
LifeCycle ==
    {<<TaskConfirming, TaskReady>>, <<TaskConfirming, TaskRejected>>,
     <<TaskReady, TaskToProcess>>, <<TaskToProcess, TaskProcessing>>,
     <<TaskProcessing, TaskFinished>>, <<TaskProcessing, TaskFailed>>,
     <<TaskFailed, TaskToProcess>>}

\* What a transaction may do to a task: answers are never withdrawn, the
\* data sets themselves never change, Rejected and Finished are final, and
\* every change of the status is a step of LifeCycle, in which the restart of
\* a failed task is the only way back.  No invocation skips a stage (task.go
\* checks the status it starts from in every one), whoever calls it and in
\* whatever order.
AnswersAreFinal ==
    [][\A id \in Published :
          /\ id \in Published'
          /\ \A i \in DOMAIN ledger[id].dataSets :
                LET old == ledger[id].dataSets[i]
                    new == ledger'[id].dataSets[i]
                IN /\ new.executor = old.executor /\ new.dataID = old.dataID
                   /\ old.confirmedAt = 1 => new.confirmedAt = 1 /\ new.rejectedAt = 0
                   /\ old.rejectedAt = 1 => new.rejectedAt = 1 /\ new.confirmedAt = 0
          /\ ledger[id].status \in {TaskRejected, TaskFinished} =>
                ledger'[id] = ledger[id]
          /\ \/ ledger'[id].status = ledger[id].status
             \/ <<ledger[id].status, ledger'[id].status>> \in LifeCycle]_chainVars

=============================================================================
