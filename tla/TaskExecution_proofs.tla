------------------------ MODULE TaskExecution_proofs ------------------------
(***************************************************************************)
(* Proofs about the task contract and the executors that run its tasks,    *)
(* for any number of tasks, executors, data sets, starts, crashes, chain   *)
(* errors and any limits of the pools.                                     *)
(***************************************************************************)
EXTENDS TaskExecution, SequenceTheorems, FiniteSetTheorems, TLAPS

-----------------------------------------------------------------------------
(***************************************************************************)
(* The task contract by itself: FLTaskContract keeps its invariants.       *)
(***************************************************************************)

\* A record whose data sets are stamped position by position (as
\* setTaskConfirmStatus does) still holds a sequence of data sets.
LEMMA StampedIsSeq ==
    ASSUME NEW s \in Seq(DataForTask), NEW f,
           f = [i \in DOMAIN s |-> f[i]],
           \A i \in DOMAIN s : f[i] \in DataForTask
    PROVE  f \in Seq(DataForTask)
  <1>1. DOMAIN s = 1..Len(s) /\ Len(s) \in Nat
    OBVIOUS
  <1>2. f \in [1..Len(s) -> DataForTask]
    BY <1>1
  <1> QED
    BY <1>1, <1>2, SeqDef

\* Stamping the caller's data sets (the loop of setTaskConfirmStatus) yields
\* well-formed data sets.
LEMMA StampTypes ==
    ASSUME NEW t \in FLTask, NEW e \in Executors
    PROVE  /\ StampConfirmed(t, e) \in Seq(DataForTask)
           /\ StampRejected(t, e) \in Seq(DataForTask)
  <1>1. t.dataSets \in Seq(DataForTask)
    BY DEF FLTask
  <1>2. \A i \in DOMAIN t.dataSets : t.dataSets[i] \in DataForTask
    BY <1>1
  <1>3. \A i \in DOMAIN t.dataSets : StampConfirmed(t, e)[i] \in DataForTask
    BY <1>2 DEF StampConfirmed, DataForTask
  <1>4. \A i \in DOMAIN t.dataSets : StampRejected(t, e)[i] \in DataForTask
    BY <1>2 DEF StampRejected, DataForTask
  <1>5. StampConfirmed(t, e) \in Seq(DataForTask)
    BY <1>1, <1>3, StampedIsSeq DEF StampConfirmed
  <1>6. StampRejected(t, e) \in Seq(DataForTask)
    BY <1>1, <1>4, StampedIsSeq DEF StampRejected
  <1> QED
    BY <1>5, <1>6

\* A freshly submitted task (checkPublishTaskOptions) is a well-formed record
\* with at least one data set and no answer.
LEMMA NewTaskType ==
    ASSUME NEW ds \in Fresh
    PROVE  /\ NewTask(ds) \in FLTask
           /\ 1 \in DOMAIN ds
           /\ \A i \in DOMAIN ds : ds[i].confirmedAt = 0 /\ ds[i].rejectedAt = 0
  <1> DEFINE Blank == {d \in DataForTask : d.confirmedAt = 0 /\ d.rejectedAt = 0}
  <1>1. PICK n \in 1..MaxDataSets : ds \in [1..n -> Blank]
    BY DEF Fresh
  <1>2. n \in Nat /\ n >= 1
    BY <1>1, MaxDataSetsAssumption
  <1>3. ds \in [1..n -> DataForTask]
    BY <1>1
  <1>4. ds \in Seq(DataForTask)
    BY <1>2, <1>3, SeqDef
  <1>5. NewTask(ds) \in FLTask
    BY <1>4 DEF NewTask, FLTask, Statuses, TaskConfirming
  <1> QED
    BY <1>1, <1>2, <1>5

-----------------------------------------------------------------------------
(***************************************************************************)
(* Type correctness.                                                       *)
(***************************************************************************)

\* Every transaction of the contract leaves well-formed records on the chain.
LEMMA TypingStep == TypeOK /\ [Next]_chainVars => TypeOK'
  <1> SUFFICES ASSUME TypeOK, [Next]_chainVars PROVE TypeOK'
    OBVIOUS
  <1> USE DEF TypeOK, Published
  <1>1. ASSUME NEW d \in DataIds, AddFile(d) PROVE TypeOK'
    BY <1>1 DEF AddFile
  <1>2. ASSUME NEW id \in Tasks, NEW ds \in Fresh, PublishTask(id, ds) PROVE TypeOK'
    BY <1>2, NewTaskType DEF PublishTask
  <1>3. ASSUME NEW id \in Tasks, NEW e \in Executors, ConfirmTask(id, e) PROVE TypeOK'
    <2>1. id \in Published /\ ledger[id] \in FLTask
      BY <1>3 DEF ConfirmTask, CanConfirm
    <2>2. StampConfirmed(ledger[id], e) \in Seq(DataForTask)
      BY <2>1, StampTypes
    <2>3. [ledger[id] EXCEPT !.dataSets = StampConfirmed(ledger[id], e),
             !.status = IF isAllConfirm(ledger[id], e) THEN TaskReady ELSE @] \in FLTask
      BY <2>1, <2>2 DEF FLTask, Statuses
    <2> QED
      BY <1>3, <2>1, <2>3 DEF ConfirmTask
  <1>4. ASSUME NEW id \in Tasks, NEW e \in Executors, NEW r \in Failures \cup {Empty},
               RejectTask(id, e, r)
        PROVE  TypeOK'
    <2>1. id \in Published /\ ledger[id] \in FLTask
      BY <1>4 DEF RejectTask, CanConfirm
    <2>2. StampRejected(ledger[id], e) \in Seq(DataForTask)
      BY <2>1, StampTypes
    <2>3. [ledger[id] EXCEPT !.dataSets = StampRejected(ledger[id], e),
             !.status = TaskRejected, !.errMessage = r] \in FLTask
      BY <2>1, <2>2 DEF FLTask, Statuses
    <2> QED
      BY <1>4, <2>1, <2>3 DEF RejectTask
  <1>5. ASSUME NEW id \in Tasks, NEW e \in Executors, ExecuteTask(id, e) PROVE TypeOK'
    <2>1. id \in Published /\ ledger[id] \in FLTask
      BY <1>5 DEF ExecuteTask
    <2>2. [ledger[id] EXCEPT !.status = TaskProcessing, !.startTime = 1] \in FLTask
      BY <2>1 DEF FLTask, Statuses
    <2>3. ledger' = [ledger EXCEPT ![id] =
                       [ledger[id] EXCEPT !.status = TaskProcessing, !.startTime = 1]]
      BY <1>5, <2>1 DEF ExecuteTask
    <2> QED
      BY <1>5, <2>1, <2>2, <2>3 DEF ExecuteTask
  <1>6. ASSUME NEW id \in Tasks, NEW e \in Executors, NEW err \in Failures \cup {Empty},
               NEW res \in Results \cup {Empty}, FinishTask(id, e, err, res)
        PROVE  TypeOK'
    <2>1. id \in Published /\ ledger[id] \in FLTask
      BY <1>6 DEF FinishTask
    <2>2. [ledger[id] EXCEPT !.status = IF err = Empty THEN TaskFinished ELSE TaskFailed,
             !.endTime = 1, !.result = res,
             !.errMessage = IF err = Empty THEN @ ELSE err] \in FLTask
      BY <2>1 DEF FLTask, Statuses
    <2>3. ledger' = [ledger EXCEPT ![id] =
            [ledger[id] EXCEPT !.status = IF err = Empty THEN TaskFinished ELSE TaskFailed,
               !.endTime = 1, !.result = res,
               !.errMessage = IF err = Empty THEN @ ELSE err]]
      BY <1>6, <2>1 DEF FinishTask
    <2>4. UNCHANGED files
      BY <1>6 DEF FinishTask
    <2> QED
      BY <2>1, <2>2, <2>3, <2>4
  <1>7. ASSUME NEW id \in Tasks, StartTask(id) PROVE TypeOK'
    <2>1. id \in Published /\ ledger[id] \in FLTask
      BY <1>7 DEF StartTask
    <2>2. [ledger[id] EXCEPT !.status = TaskToProcess] \in FLTask
      BY <2>1 DEF FLTask, Statuses
    <2> QED
      BY <1>7, <2>1, <2>2 DEF StartTask
  <1>8. CASE UNCHANGED chainVars
    BY <1>8 DEF chainVars
  <1> QED
    BY <1>1, <1>2, <1>3, <1>4, <1>5, <1>6, <1>7, <1>8 DEF Next

\* The records on the chain are well formed in every reachable state.
THEOREM Typing == Spec => []TypeOK
  <1>1. Init => TypeOK
    BY DEF Init, TypeOK, Published
  <1> QED
    BY <1>1, TypingStep, PTL DEF Spec

-----------------------------------------------------------------------------
(***************************************************************************)
(* The status of a task agrees with the answers of its executors.          *)
(***************************************************************************)

\* The state names are pairwise distinct; the proofs below use them through
\* this fact and these abbreviations only.
USE DEF TaskConfirming, TaskReady, TaskToProcess, TaskProcessing,
        TaskFinished, TaskFailed, TaskRejected

\* A confirmation (setTaskConfirmStatus) moves the task to Ready exactly when
\* it was the last one missing.
LEMMA ConfirmKeepsAgreement ==
    ASSUME TypeOK, StatusAgreesWithAnswers,
           NEW id \in Tasks, NEW e \in Executors, ConfirmTask(id, e)
    PROVE  StatusAgrees(ledger'[id], files)
  <1> DEFINE t == ledger[id]
             u == ledger'[id]
  <1>1. id \in Published /\ t \in FLTask /\ StatusAgrees(t, files)
    BY DEF ConfirmTask, CanConfirm, TypeOK, StatusAgreesWithAnswers
  <1>2. /\ u.dataSets = StampConfirmed(t, e)
        /\ u.status = IF isAllConfirm(t, e) THEN TaskReady ELSE t.status
    BY <1>1 DEF ConfirmTask, FLTask, TypeOK, Published
  <1>3. t.status = TaskConfirming
    BY DEF ConfirmTask, CanConfirm
  <1>4. DOMAIN u.dataSets = DOMAIN t.dataSets
    BY <1>2 DEF StampConfirmed
  <1>5. \A i \in DOMAIN t.dataSets :
           /\ t.dataSets[i] \in DataForTask
           /\ t.dataSets[i].rejectedAt = 0
           /\ t.dataSets[i].confirmedAt \in {0, 1}
    <2>1. \A i \in DOMAIN t.dataSets : t.dataSets[i] \in DataForTask
      BY <1>1 DEF FLTask
    <2>2. \A i \in DOMAIN t.dataSets : t.dataSets[i].rejectedAt # 1
      BY <1>1, <1>3 DEF StatusAgrees, SomeRejected
    <2> QED
      BY <2>1, <2>2 DEF DataForTask
  <1>6. \A i \in DOMAIN t.dataSets :
           /\ u.dataSets[i].rejectedAt = 0
           /\ u.dataSets[i].dataID = t.dataSets[i].dataID
           /\ u.dataSets[i].confirmedAt =
                 IF t.dataSets[i].executor = e THEN 1 ELSE t.dataSets[i].confirmedAt
    BY <1>2, <1>5 DEF StampConfirmed, DataForTask
  <1>7. \A i \in DOMAIN t.dataSets :
           t.dataSets[i].executor = e => t.dataSets[i].dataID \in files
    BY DEF ConfirmTask, CanConfirm, Own
  <1>8. Confirmed(u) <=> isAllConfirm(t, e)
    BY <1>4, <1>5, <1>6 DEF Confirmed, isAllConfirm, Own
  <1>9. ~ SomeRejected(u)
    BY <1>4, <1>6 DEF SomeRejected
  <1>10. \A i \in DOMAIN u.dataSets :
            /\ u.dataSets[i].confirmedAt = 1 => u.dataSets[i].dataID \in files
            /\ u.dataSets[i].confirmedAt = 0 \/ u.dataSets[i].rejectedAt = 0
    BY <1>1, <1>4, <1>5, <1>6, <1>7 DEF StatusAgrees
  <1> QED
    BY <1>2, <1>3, <1>8, <1>9, <1>10 DEF StatusAgrees

\* A rejection (setTaskConfirmStatus) marks a data set that was not confirmed,
\* so the task is Rejected and never counts as confirmed by all.
LEMMA RejectKeepsAgreement ==
    ASSUME TypeOK, StatusAgreesWithAnswers,
           NEW id \in Tasks, NEW e \in Executors, NEW r, RejectTask(id, e, r)
    PROVE  StatusAgrees(ledger'[id], files)
  <1> DEFINE t == ledger[id]
             u == ledger'[id]
  <1>1. id \in Published /\ t \in FLTask /\ StatusAgrees(t, files)
    BY DEF RejectTask, CanConfirm, TypeOK, StatusAgreesWithAnswers
  <1>2. u.dataSets = StampRejected(t, e) /\ u.status = TaskRejected
    BY <1>1 DEF RejectTask, FLTask, TypeOK, Published
  <1>3. DOMAIN u.dataSets = DOMAIN t.dataSets
    BY <1>2 DEF StampRejected
  <1>4. \A i \in DOMAIN t.dataSets : t.dataSets[i] \in DataForTask
    BY <1>1 DEF FLTask
  <1>5. \A i \in DOMAIN t.dataSets :
           /\ u.dataSets[i].dataID = t.dataSets[i].dataID
           /\ u.dataSets[i].confirmedAt = t.dataSets[i].confirmedAt
           /\ u.dataSets[i].rejectedAt =
                 IF t.dataSets[i].executor = e THEN 1 ELSE t.dataSets[i].rejectedAt
    BY <1>2, <1>4 DEF StampRejected, DataForTask
  <1>6. PICK j \in DOMAIN t.dataSets : t.dataSets[j].executor = e
    BY DEF RejectTask, CanConfirm, checkExecutor
  <1>7. \A i \in DOMAIN t.dataSets :
           t.dataSets[i].executor = e => t.dataSets[i].confirmedAt = 0
    BY DEF RejectTask, CanConfirm, Own
  <1>8. SomeRejected(u) /\ ~ Confirmed(u)
    BY <1>3, <1>5, <1>6, <1>7 DEF SomeRejected, Confirmed
  <1>9. \A i \in DOMAIN u.dataSets :
           /\ u.dataSets[i].confirmedAt = 1 => u.dataSets[i].dataID \in files
           /\ u.dataSets[i].confirmedAt = 0 \/ u.dataSets[i].rejectedAt = 0
    BY <1>1, <1>3, <1>5, <1>7 DEF StatusAgrees
  <1> QED
    BY <1>2, <1>8, <1>9 DEF StatusAgrees

\* Every transaction of the contract keeps the agreement of status and answers.
LEMMA AgreementStep ==
    TypeOK /\ StatusAgreesWithAnswers /\ [Next]_chainVars => StatusAgreesWithAnswers'
  <1> SUFFICES ASSUME TypeOK, StatusAgreesWithAnswers, [Next]_chainVars,
                      NEW k \in Published'
               PROVE  StatusAgrees(ledger'[k], files')
    BY DEF StatusAgreesWithAnswers
  <1> DEFINE Kept == k \in Published /\ ledger'[k] = ledger[k] /\ files \subseteq files'
  <1>1. k \in Published => ledger[k] \in FLTask /\ StatusAgrees(ledger[k], files)
    BY DEF TypeOK, StatusAgreesWithAnswers
  <1>2. CASE Kept
    BY <1>1, <1>2 DEF StatusAgrees
  <1>3. ASSUME NEW d \in DataIds, AddFile(d) PROVE Kept
    BY <1>3 DEF AddFile, Published
  <1>4. ASSUME NEW id \in Tasks, NEW ds \in Fresh, PublishTask(id, ds)
        PROVE  StatusAgrees(ledger'[k], files')
    <2>1. CASE k = id
      <3>1. ledger'[k] = NewTask(ds)
        BY <1>4, <2>1 DEF PublishTask, Published
      <3> QED
        BY <3>1, NewTaskType DEF NewTask, StatusAgrees, SomeRejected, Confirmed
    <2>2. CASE k # id
      <3>1. Kept
        BY <1>4, <2>2 DEF PublishTask, Published
      <3> QED
        BY <3>1, <1>2
    <2> QED
      BY <2>1, <2>2
  <1>5. ASSUME NEW id \in Tasks, NEW e \in Executors, ConfirmTask(id, e)
        PROVE  StatusAgrees(ledger'[k], files')
    <2>1. CASE k = id
      BY <1>5, <2>1, ConfirmKeepsAgreement DEF ConfirmTask
    <2>2. CASE k # id
      <3>1. Kept
        BY <1>5, <2>2 DEF ConfirmTask, Published
      <3> QED
        BY <3>1, <1>2
    <2> QED
      BY <2>1, <2>2
  <1>6. ASSUME NEW id \in Tasks, NEW e \in Executors, NEW r \in Failures \cup {Empty},
               RejectTask(id, e, r)
        PROVE  StatusAgrees(ledger'[k], files')
    <2>1. CASE k = id
      BY <1>6, <2>1, RejectKeepsAgreement DEF RejectTask
    <2>2. CASE k # id
      <3>1. Kept
        BY <1>6, <2>2 DEF RejectTask, Published
      <3> QED
        BY <3>1, <1>2
    <2> QED
      BY <2>1, <2>2
  <1>7. ASSUME k \in Published, files' = files,
               ledger'[k].dataSets = ledger[k].dataSets,
               ledger[k].status \notin {TaskConfirming, TaskRejected},
               ledger'[k].status \notin {TaskConfirming, TaskRejected}
        PROVE  StatusAgrees(ledger'[k], files')
    BY <1>1, <1>7 DEF StatusAgrees, SomeRejected, Confirmed
  <1>8. ASSUME NEW id \in Tasks, NEW e \in Executors, ExecuteTask(id, e)
        PROVE  StatusAgrees(ledger'[k], files')
    <2>1. CASE k = id
      <3>1. k \in Published /\ ledger[k] \in FLTask
        BY <1>8, <2>1, <1>1 DEF ExecuteTask
      <3> QED
        BY <1>7, <1>8, <2>1, <3>1 DEF ExecuteTask, FLTask, TypeOK, Published
    <2>2. CASE k # id
      <3>1. Kept
        BY <1>8, <2>2 DEF ExecuteTask, Published
      <3> QED
        BY <3>1, <1>2
    <2> QED
      BY <2>1, <2>2
  <1>9. ASSUME NEW id \in Tasks, NEW e \in Executors, NEW err \in Failures \cup {Empty},
               NEW res \in Results \cup {Empty}, FinishTask(id, e, err, res)
        PROVE  StatusAgrees(ledger'[k], files')
    <2>1. CASE k = id
      <3>1. k \in Published /\ ledger[k] \in FLTask
        BY <1>9, <2>1, <1>1 DEF FinishTask
      <3> QED
        BY <1>7, <1>9, <2>1, <3>1 DEF FinishTask, FLTask, TypeOK, Published
    <2>2. CASE k # id
      <3>1. Kept
        BY <1>9, <2>2 DEF FinishTask, Published
      <3> QED
        BY <3>1, <1>2
    <2> QED
      BY <2>1, <2>2
  <1>10. ASSUME NEW id \in Tasks, StartTask(id) PROVE StatusAgrees(ledger'[k], files')
    <2>1. CASE k = id
      <3>1. k \in Published /\ ledger[k] \in FLTask
        BY <1>10, <2>1, <1>1 DEF StartTask
      <3> QED
        BY <1>7, <1>10, <2>1, <3>1 DEF StartTask, FLTask, TypeOK, Published
    <2>2. CASE k # id
      <3>1. Kept
        BY <1>10, <2>2 DEF StartTask, Published
      <3> QED
        BY <3>1, <1>2
    <2> QED
      BY <2>1, <2>2
  <1>11. CASE UNCHANGED chainVars
    BY <1>2, <1>11 DEF chainVars, Published
  <1> QED
    BY <1>2, <1>3, <1>4, <1>5, <1>6, <1>8, <1>9, <1>10, <1>11 DEF Next

\* In every reachable state of the contract the status of a task agrees with
\* the answers its executors have given (setTaskConfirmStatus).
THEOREM StatusAgreement == Spec => []StatusAgreesWithAnswers
  <1>1. Init => StatusAgreesWithAnswers
    BY DEF Init, StatusAgreesWithAnswers, Published
  <1> QED
    BY <1>1, AgreementStep, Typing, PTL DEF Spec

-----------------------------------------------------------------------------
(***************************************************************************)
(* What executions leave in the record.                                    *)
(***************************************************************************)

\* Every transaction of the contract keeps times, result and error message in
\* step with the status.
LEMMA TimesStep ==
    TypeOK /\ TimesAgreeWithStatus /\ [Next]_chainVars => TimesAgreeWithStatus'
  <1> SUFFICES ASSUME TypeOK, TimesAgreeWithStatus, [Next]_chainVars,
                      NEW k \in Published'
               PROVE  TimesAgree(ledger'[k])
    BY DEF TimesAgreeWithStatus
  <1> DEFINE Kept == k \in Published /\ ledger'[k] = ledger[k]
  <1>1. k \in Published => ledger[k] \in FLTask /\ TimesAgree(ledger[k])
    BY DEF TypeOK, TimesAgreeWithStatus
  <1>2. CASE Kept
    BY <1>1, <1>2
  <1>3. ASSUME NEW d \in DataIds, AddFile(d) PROVE Kept
    BY <1>3 DEF AddFile, Published
  <1>4. ASSUME NEW id \in Tasks, NEW ds \in Fresh, PublishTask(id, ds)
        PROVE  Kept \/ TimesAgree(ledger'[k])
    BY <1>4 DEF PublishTask, Published, NewTask, TimesAgree
  <1>5. ASSUME NEW id \in Tasks, NEW e \in Executors, ConfirmTask(id, e)
        PROVE  Kept \/ TimesAgree(ledger'[k])
    BY <1>1, <1>5 DEF ConfirmTask, CanConfirm, Published, FLTask, TimesAgree
  <1>6. ASSUME NEW id \in Tasks, NEW e \in Executors, NEW r \in Failures \cup {Empty},
               RejectTask(id, e, r)
        PROVE  Kept \/ TimesAgree(ledger'[k])
    BY <1>1, <1>6 DEF RejectTask, CanConfirm, Published, FLTask, TimesAgree
  <1>7. ASSUME NEW id \in Tasks, NEW e \in Executors, ExecuteTask(id, e)
        PROVE  Kept \/ TimesAgree(ledger'[k])
    BY <1>1, <1>7 DEF ExecuteTask, Published, FLTask, TimesAgree
  <1>8. ASSUME NEW id \in Tasks, NEW e \in Executors, NEW err \in Failures \cup {Empty},
               NEW res \in Results \cup {Empty}, FinishTask(id, e, err, res)
        PROVE  Kept \/ TimesAgree(ledger'[k])
    BY <1>1, <1>8 DEF FinishTask, Published, FLTask, TimesAgree
  <1>9. ASSUME NEW id \in Tasks, StartTask(id) PROVE Kept \/ TimesAgree(ledger'[k])
    BY <1>1, <1>9 DEF StartTask, Published, FLTask, TimesAgree
  <1>10. CASE UNCHANGED chainVars
    BY <1>2, <1>10 DEF chainVars, Published
  <1> QED
    BY <1>2, <1>3, <1>4, <1>5, <1>6, <1>7, <1>8, <1>9, <1>10 DEF Next

\* In every reachable state of the contract what earlier executions left in
\* the record (setTaskExecuteStatus, StartTask) agrees with the status.
THEOREM TimesAgreement == Spec => []TimesAgreeWithStatus
  <1>1. Init => TimesAgreeWithStatus
    BY DEF Init, TimesAgreeWithStatus, Published
  <1> QED
    BY <1>1, TimesStep, Typing, PTL DEF Spec

-----------------------------------------------------------------------------
(***************************************************************************)
(* What a transaction may never do.                                        *)
(***************************************************************************)

\* One data set keeps its executor, its file and any answer already given.
DataSetKept(old, new) ==
    /\ new.executor = old.executor /\ new.dataID = old.dataID
    /\ old.confirmedAt = 1 => new.confirmedAt = 1 /\ new.rejectedAt = 0
    /\ old.rejectedAt = 1 => new.rejectedAt = 1 /\ new.confirmedAt = 0

\* Answers already given, and the final states, survive every transaction, and
\* each change of a status is a step of LifeCycle: only a failed task goes back.
THEOREM Finality == Spec => AnswersAreFinal
  <1> DEFINE A == \A id \in Published :
          /\ id \in Published'
          /\ \A i \in DOMAIN ledger[id].dataSets :
                LET old == ledger[id].dataSets[i]
                    new == ledger'[id].dataSets[i]
                IN /\ new.executor = old.executor /\ new.dataID = old.dataID
                   /\ old.confirmedAt = 1 => new.confirmedAt = 1 /\ new.rejectedAt = 0
                   /\ old.rejectedAt = 1 => new.rejectedAt = 1 /\ new.confirmedAt = 0
          /\ ledger[id].status \in {TaskRejected, TaskFinished} =>
                ledger'[id] = ledger[id]
          /\ \/ ledger'[id].status = ledger[id].status
             \/ <<ledger[id].status, ledger'[id].status>> \in LifeCycle
  <1>1. TypeOK /\ StatusAgreesWithAnswers /\ TimesAgreeWithStatus /\ [Next]_chainVars => A
    <2> SUFFICES ASSUME TypeOK, StatusAgreesWithAnswers, TimesAgreeWithStatus,
                        [Next]_chainVars, NEW k \in Published
                 PROVE  /\ k \in Published'
                        /\ \A i \in DOMAIN ledger[k].dataSets :
                              DataSetKept(ledger[k].dataSets[i], ledger'[k].dataSets[i])
                        /\ ledger[k].status \in {TaskRejected, TaskFinished} =>
                              ledger'[k] = ledger[k]
                        /\ \/ ledger'[k].status = ledger[k].status
                           \/ <<ledger[k].status, ledger'[k].status>> \in LifeCycle
      BY DEF DataSetKept
    <2> DEFINE t == ledger[k]
               u == ledger'[k]
               Goal == /\ k \in Published'
                       /\ \A i \in DOMAIN t.dataSets : DataSetKept(t.dataSets[i], u.dataSets[i])
                       /\ t.status \in {TaskRejected, TaskFinished} => u = t
                       /\ u.status = t.status \/ <<t.status, u.status>> \in LifeCycle
    <2>1. t \in FLTask /\ StatusAgrees(t, files) /\ TimesAgree(t)
      BY DEF TypeOK, StatusAgreesWithAnswers, TimesAgreeWithStatus
    <2>2. \A i \in DOMAIN t.dataSets :
             /\ t.dataSets[i] \in DataForTask
             /\ DataSetKept(t.dataSets[i], t.dataSets[i])
      <3>1. \A i \in DOMAIN t.dataSets : t.dataSets[i] \in DataForTask
        BY <2>1 DEF FLTask
      <3> QED
        BY <2>1, <3>1 DEF DataSetKept, StatusAgrees, DataForTask
    <2>3. ASSUME k \in Published', u = t PROVE Goal
      BY <2>2, <2>3
    <2>4. ASSUME NEW d \in DataIds, AddFile(d) PROVE Goal
      BY <2>3, <2>4 DEF AddFile, Published
    <2>5. ASSUME NEW id \in Tasks, NEW ds \in Fresh, PublishTask(id, ds) PROVE Goal
      BY <2>3, <2>5 DEF PublishTask, Published
    <2>6. ASSUME NEW id \in Tasks, NEW e \in Executors,
                 CanConfirm(id, e), k = id, k \in Published',
                 u.dataSets = StampConfirmed(t, e) \/ u.dataSets = StampRejected(t, e),
                 u.status \in {TaskConfirming, TaskReady, TaskRejected}
          PROVE  Goal
      <3>1. t.status = TaskConfirming
        BY <2>6 DEF CanConfirm
      <3>2. \A i \in DOMAIN t.dataSets :
               t.dataSets[i].executor = e =>
                  t.dataSets[i].confirmedAt = 0 /\ t.dataSets[i].rejectedAt = 0
        BY <2>6 DEF CanConfirm, Own
      <3>3. \A i \in DOMAIN t.dataSets : DataSetKept(t.dataSets[i], u.dataSets[i])
        BY <2>2, <2>6, <3>2 DEF StampConfirmed, StampRejected, DataSetKept, DataForTask
      <3> QED
        BY <2>6, <3>1, <3>3 DEF LifeCycle, TaskConfirming, TaskReady, TaskRejected, TaskFinished
    <2>7. ASSUME NEW id \in Tasks, NEW e \in Executors, ConfirmTask(id, e) PROVE Goal
      <3>1. CASE k = id
        BY <2>1, <2>6, <2>7, <3>1 DEF ConfirmTask, CanConfirm, FLTask, Published
      <3>2. CASE k # id
        BY <2>3, <2>7, <3>2 DEF ConfirmTask, Published
      <3> QED
        BY <3>1, <3>2
    <2>8. ASSUME NEW id \in Tasks, NEW e \in Executors, NEW r \in Failures \cup {Empty},
                 RejectTask(id, e, r)
          PROVE  Goal
      <3>1. CASE k = id
        BY <2>1, <2>6, <2>8, <3>1 DEF RejectTask, FLTask, Published
      <3>2. CASE k # id
        BY <2>3, <2>8, <3>2 DEF RejectTask, Published
      <3> QED
        BY <3>1, <3>2
    <2>9. ASSUME k \in Published', u.dataSets = t.dataSets,
                 t.status \notin {TaskRejected, TaskFinished},
                 <<t.status, u.status>> \in LifeCycle
          PROVE  Goal
      BY <2>1, <2>2, <2>9
    <2>10. ASSUME NEW id \in Tasks, NEW e \in Executors, ExecuteTask(id, e) PROVE Goal
      <3>1. CASE k = id
        BY <2>1, <2>9, <2>10, <3>1 DEF ExecuteTask, FLTask, Published, LifeCycle, TaskReady,
           TaskToProcess, TaskProcessing, TaskFinished, TaskFailed, TaskRejected
      <3>2. CASE k # id
        BY <2>3, <2>10, <3>2 DEF ExecuteTask, Published
      <3> QED
        BY <3>1, <3>2
    <2>11. ASSUME NEW id \in Tasks, NEW e \in Executors, NEW err \in Failures \cup {Empty},
                  NEW res \in Results \cup {Empty}, FinishTask(id, e, err, res)
           PROVE  Goal
      <3>1. CASE k = id
        BY <2>1, <2>9, <2>11, <3>1 DEF FinishTask, FLTask, Published, LifeCycle, TaskReady,
           TaskToProcess, TaskProcessing, TaskFinished, TaskFailed, TaskRejected
      <3>2. CASE k # id
        BY <2>3, <2>11, <3>2 DEF FinishTask, Published
      <3> QED
        BY <3>1, <3>2
    <2>12. ASSUME NEW id \in Tasks, StartTask(id) PROVE Goal
      <3>1. CASE k = id
        BY <2>1, <2>9, <2>12, <3>1 DEF StartTask, FLTask, Published, LifeCycle, TaskReady,
           TaskToProcess, TaskProcessing, TaskFinished, TaskFailed, TaskRejected
      <3>2. CASE k # id
        BY <2>3, <2>12, <3>2 DEF StartTask, Published
      <3> QED
        BY <3>1, <3>2
    <2>13. CASE UNCHANGED chainVars
      BY <2>3, <2>13 DEF chainVars, Published
    <2> QED
      BY <2>4, <2>5, <2>7, <2>8, <2>10, <2>11, <2>12, <2>13 DEF Next
  <1>2. TypeOK /\ StatusAgreesWithAnswers /\ TimesAgreeWithStatus /\ [Next]_chainVars
          => [A]_chainVars
    BY <1>1
  <1> QED
    BY <1>2, Typing, StatusAgreement, TimesAgreement, PTL DEF Spec, AnswersAreFinal

-----------------------------------------------------------------------------
(***************************************************************************)
(* The executors.  Type correctness first; the lists of parties still to   *)
(* be asked are taken from some set O, which grows.                        *)
(***************************************************************************)
ThreadRec(O) ==
    [pc: PCs, task: Tasks \cup {Empty}, others: O, err: Failures \cup {Empty},
     res: Results \cup {Empty}, caller: (Executors \X Threads) \cup {Empty}]

Grown(O) ==
    O \cup {Tail(o) : o \in O} \cup {otherParts(e, id) : e \in Executors, id \in Tasks} \cup {<< >>}

ThreadsIn(O) == thread \in [Executors -> [Threads -> ThreadRec(O)]]

ExecTyped ==
    /\ TypeOK
    /\ Published = Tasks
    /\ pool \in [Executors -> SUBSET Tasks]
    /\ learner \in [Executors -> SUBSET Tasks]
    /\ calc \in [Executors -> SUBSET Tasks]
    /\ stored \in [Executors -> SUBSET Tasks]
    /\ retryList \in [Executors -> SUBSET Tasks]
    /\ up \subseteq Executors
    /\ \E O : ThreadsIn(O)

\* Changing one goroutine's record changes nothing else.
LEMMA OneChanged ==
    ASSUME NEW E, NEW Th, NEW R, NEW f \in [E -> [Th -> R]], NEW e \in E, NEW th \in Th,
           NEW x \in R, NEW g, g = [f EXCEPT ![e][th] = x]
    PROVE  /\ g \in [E -> [Th -> R]]
           /\ g[e][th] = x
           /\ \A e2 \in E, th2 \in Th : e2 # e \/ th2 # th => g[e2][th2] = f[e2][th2]
  OBVIOUS

\* The records that the goroutines move through are well formed.
LEMMA ThreadTypes ==
    ASSUME NEW O, NEW t \in ThreadRec(O)
    PROVE  /\ t \in ThreadRec(Grown(O))
           /\ Free \in ThreadRec(Grown(O))
           /\ \A pc \in PCs : [t EXCEPT !.pc = pc] \in ThreadRec(Grown(O))
           /\ \A f \in Failures \cup {Empty}, r \in Results \cup {Empty} :
                 [t EXCEPT !.pc = "report", !.err = f, !.res = r] \in ThreadRec(Grown(O))
           /\ Failed(t) \in ThreadRec(Grown(O))
           /\ \A ok \in BOOLEAN : Replied(t, ok) \in ThreadRec(Grown(O))
           /\ \A e \in Executors, id \in Tasks :
                 SendTo(t, otherParts(e, id)) \in ThreadRec(Grown(O))
  <1> DEFINE P == Grown(O)
  <1>1. /\ O \subseteq P /\ << >> \in P /\ \A o \in O : Tail(o) \in P
        /\ \A e \in Executors, id \in Tasks : otherParts(e, id) \in P
    BY DEF Grown
  <1>2. (CHOOSE f \in Failures : TRUE) \in Failures
    BY FailureAssumption
  <1> HIDE DEF P
  <1>3. t \in ThreadRec(P) /\ Free \in ThreadRec(P)
    BY <1>1 DEF ThreadRec, Free, PCs
  <1>4. /\ \A pc \in PCs : [t EXCEPT !.pc = pc] \in ThreadRec(P)
        /\ \A f \in Failures \cup {Empty}, r \in Results \cup {Empty} :
              [t EXCEPT !.pc = "report", !.err = f, !.res = r] \in ThreadRec(P)
    BY <1>1 DEF ThreadRec, PCs
  <1>5. Failed(t) \in ThreadRec(P)
    BY <1>1, <1>2 DEF ThreadRec, PCs, Failed
  <1>6. \A o \in P : SendTo(t, o) \in ThreadRec(P)
    BY <1>1 DEF ThreadRec, PCs, SendTo
  <1>7. t.others \in O
    BY DEF ThreadRec
  <1>8. \A ok \in BOOLEAN : Replied(t, ok) \in ThreadRec(P)
    BY <1>1, <1>5, <1>6, <1>7 DEF Replied
  <1> QED
    BY <1>1, <1>3, <1>4, <1>5, <1>6, <1>8 DEF P

-----------------------------------------------------------------------------
(***************************************************************************)
(* What is true of a goroutine: it works on a task that is in use; on its  *)
(* way to a prediction it has read the model; and if it is about to report *)
(* success, the result is there.                                           *)
(***************************************************************************)
InUse(id) ==
    ledger[id].status \in {TaskToProcess, TaskProcessing, TaskFinished, TaskFailed}

Backed(e, id) ==
    IF id \in PredictTasks THEN ModelTask[id] \in stored[LabelHolder] ELSE id \in stored[e]

Good(e, t) ==
    t.pc \notin {"idle", "list"} =>
        /\ t.task \in Tasks /\ InUse(t.task)
        /\ t.pc \in {"send", "wait", "start"} /\ t.task \in PredictTasks =>
              ModelTask[t.task] \in stored[e]
        /\ t.pc = "report" /\ t.err = Empty => Backed(e, t.task)

ThreadsGood == \A e \in Executors, th \in Threads : Good(e, thread[e][th])

\* The goroutines after a step, judged by the state before it.
NewThreads(O) ==
    /\ thread' \in [Executors -> [Threads -> ThreadRec(Grown(O))]]
    /\ \A e \in Executors, th \in Threads : Good(e, thread'[e][th])

\* The steps of a goroutine that is at work keep it good.
LEMMA GoodMoves ==
    ASSUME NEW O, NEW t \in ThreadRec(O), NEW e \in Executors, Good(e, t)
    PROVE  /\ Good(e, Free)
           /\ t.pc \notin {"idle", "list"} =>
                /\ \A pc \in {"add", "stop"} : Good(e, [t EXCEPT !.pc = pc])
                /\ Good(e, Failed(t))
                /\ \A f \in Failures, r \in Results \cup {Empty} :
                      Good(e, [t EXCEPT !.pc = "report", !.err = f, !.res = r])
                /\ (t.task \in PredictTasks => ModelTask[t.task] \in stored[e]) =>
                      /\ \A o : Good(e, SendTo(t, o))
                      /\ Good(e, [Free EXCEPT !.pc = "start", !.task = t.task])
           /\ t.pc = "send" => Good(e, [t EXCEPT !.pc = "wait"])
           /\ t.pc = "wait" => \A ok \in BOOLEAN : Good(e, Replied(t, ok))
  <1>1. (CHOOSE f \in Failures : TRUE) \in Failures /\ Empty \notin Failures
    BY FailureAssumption, EmptyAssumption
  <1>2. Good(e, Free)
    BY DEF Good, Free
  <1>3. ASSUME t.pc \notin {"idle", "list"}
        PROVE  /\ \A pc \in {"add", "stop"} : Good(e, [t EXCEPT !.pc = pc])
               /\ Good(e, Failed(t))
               /\ \A f \in Failures, r \in Results \cup {Empty} :
                     Good(e, [t EXCEPT !.pc = "report", !.err = f, !.res = r])
    BY <1>1, <1>3 DEF Good, ThreadRec, Failed
  <1>4. ASSUME t.pc \notin {"idle", "list"},
               t.task \in PredictTasks => ModelTask[t.task] \in stored[e]
        PROVE  /\ \A o : Good(e, SendTo(t, o))
               /\ Good(e, [Free EXCEPT !.pc = "start", !.task = t.task])
    BY <1>4 DEF Good, ThreadRec, SendTo, Free
  <1>5. t.pc = "send" => Good(e, [t EXCEPT !.pc = "wait"])
    BY DEF Good, ThreadRec
  <1>6. t.pc = "wait" => \A ok \in BOOLEAN : Good(e, Replied(t, ok))
    <2> SUFFICES ASSUME t.pc = "wait", NEW ok \in BOOLEAN PROVE Good(e, Replied(t, ok))
      OBVIOUS
    <2>1. t.task \in PredictTasks => ModelTask[t.task] \in stored[e]
      BY DEF Good
    <2> QED
      BY <1>3, <1>4, <2>1 DEF Replied
  <1> QED
    BY <1>2, <1>3, <1>4, <1>5, <1>6

\* A step that replaces the record of one goroutine by a good one.
LEMMA OneMoves ==
    ASSUME NEW O, ThreadsIn(O), ThreadsGood, NEW e \in Executors, NEW th \in Threads,
           NEW x \in ThreadRec(Grown(O)), Good(e, x), thread' = [thread EXCEPT ![e][th] = x]
    PROVE  NewThreads(O)
  <1>1. thread \in [Executors -> [Threads -> ThreadRec(Grown(O))]]
    BY ThreadTypes DEF ThreadsIn
  <1>2. /\ thread' \in [Executors -> [Threads -> ThreadRec(Grown(O))]]
        /\ thread'[e][th] = x
        /\ \A e2 \in Executors, th2 \in Threads :
              e2 # e \/ th2 # th => thread'[e2][th2] = thread[e2][th2]
    BY <1>1, OneChanged
  <1> QED
    BY <1>2 DEF NewThreads, ThreadsGood

\* The reply of an RPC handler (Engine.StartTask) moves the handler and, if it
\* still waits, the caller.
LEMMA ReplyMoves ==
    ASSUME NEW O, ThreadsIn(O), ThreadsGood, NEW e \in Executors, NEW th \in Threads,
           NEW ok \in BOOLEAN, NEW next \in ThreadRec(Grown(O)), Good(e, next),
           thread[e][th].pc # "wait", up \subseteq Executors, Reply(e, th, ok, next)
    PROVE  NewThreads(O)
  <1> DEFINE c == thread[e][th].caller
             mine == [thread EXCEPT ![e][th] = next]
             R == ThreadRec(Grown(O))
  <1>1. thread \in [Executors -> [Threads -> R]]
    BY ThreadTypes DEF ThreadsIn
  <1>2. /\ mine \in [Executors -> [Threads -> R]]
        /\ mine[e][th] = next
        /\ \A e2 \in Executors, th2 \in Threads :
              e2 # e \/ th2 # th => mine[e2][th2] = thread[e2][th2]
    BY <1>1, OneChanged
  <1>3. CASE ~Waiting(e, th)
    <2>1. thread' = mine
      BY <1>3 DEF Reply
    <2> QED
      BY <1>2, <2>1 DEF NewThreads, ThreadsGood
  <1>4. CASE Waiting(e, th)
    <2>1. c \in (Executors \X Threads) \cup {Empty}
      BY DEF ThreadsIn, ThreadRec
    <2>2. c # Empty /\ thread[c[1]][c[2]].pc = "wait" /\ c[1] \in Executors
      BY <1>4 DEF Waiting, At
    <2>3. c[2] \in Threads
      BY <2>1, <2>2
    <2> DEFINE a == c[1]
               b == c[2]
    <2>4. a # e \/ b # th
      BY <2>2
    <2>5. mine[a][b] = thread[a][b] /\ thread[a][b] \in ThreadRec(O) /\ Good(a, thread[a][b])
      BY <1>2, <2>2, <2>3, <2>4 DEF ThreadsIn, ThreadsGood
    <2>6. thread' = [mine EXCEPT ![a][b] = Replied(thread[a][b], ok)]
      BY <1>4, <2>5 DEF Reply
    <2>7. Replied(thread[a][b], ok) \in R /\ Good(a, Replied(thread[a][b], ok))
      BY <2>2, <2>5, ThreadTypes, GoodMoves
    <2> HIDE DEF mine, R, a, b
    <2>8. /\ thread' \in [Executors -> [Threads -> R]]
          /\ thread'[a][b] = Replied(thread[a][b], ok)
          /\ \A e2 \in Executors, th2 \in Threads :
                e2 # a \/ th2 # b => thread'[e2][th2] = mine[e2][th2]
      BY <1>2, <2>2, <2>3, <2>6, <2>7, OneChanged DEF a, b
    <2> QED
      BY <1>2, <2>7, <2>8 DEF NewThreads, ThreadsGood, R
  <1> QED
    BY <1>3, <1>4

(***************************************************************************)
(* What is true of pools, learners, computations and retries.              *)
(***************************************************************************)
UseInv ==
    \A e \in Executors :
        /\ \A id \in pool[e] \cup learner[e] \cup calc[e] \cup retryList[e] : InUse(id)
        /\ \A id \in calc[e] \cap PredictTasks : ModelTask[id] \in stored[e]

\* Threads is a set of goroutines, those of the loops, the RPCs and the results.
LEMMA ThreadNames ==
    /\ Loop \in Threads /\ Retry \in Threads
    /\ \A id \in Tasks : RPC(id) \in Threads /\ MPC(id) \in Threads
  BY DEF Threads

\* A goroutine that starts on a task in use is well formed and good.
LEMMA FreshThreads ==
    ASSUME NEW O, NEW id \in Tasks, InUse(id), NEW e \in Executors
    PROVE  /\ [Free EXCEPT !.pc = "avail", !.task = id] \in ThreadRec(Grown(O))
           /\ Good(e, [Free EXCEPT !.pc = "avail", !.task = id])
           /\ \A c \in Executors \X Threads :
                 LET x == [Free EXCEPT !.pc = "avail", !.task = id, !.caller = c]
                 IN  x \in ThreadRec(Grown(O)) /\ Good(e, x)
           /\ [Free EXCEPT !.pc = "start", !.task = id] \in ThreadRec(Grown(O))
           /\ Failed([Free EXCEPT !.task = id]) \in ThreadRec(Grown(O))
           /\ Good(e, Failed([Free EXCEPT !.task = id]))
           /\ \A pc \in {"report", "stop"}, err \in Failures \cup {Empty}, r \in Results \cup {Empty} :
                 LET x == [Free EXCEPT !.pc = pc, !.task = id, !.err = err, !.res = r]
                 IN  /\ x \in ThreadRec(Grown(O))
                     /\ pc = "stop" \/ err \in Failures \/ Backed(e, id) => Good(e, x)
  <1>1. (CHOOSE f \in Failures : TRUE) \in Failures /\ Empty \notin Failures
    BY FailureAssumption, EmptyAssumption
  <1>2. << >> \in Grown(O)
    BY DEF Grown
  <1> DEFINE P == Grown(O)
  <1> HIDE DEF P
  <1>3. Free \in ThreadRec(P)
    BY <1>2 DEF P, ThreadRec, Free, PCs
  <1>4. /\ [Free EXCEPT !.pc = "avail", !.task = id] \in ThreadRec(P)
        /\ [Free EXCEPT !.pc = "start", !.task = id] \in ThreadRec(P)
        /\ \A c \in Executors \X Threads :
              [Free EXCEPT !.pc = "avail", !.task = id, !.caller = c] \in ThreadRec(P)
    BY <1>3 DEF ThreadRec, PCs
  <1>5. /\ Good(e, [Free EXCEPT !.pc = "avail", !.task = id])
        /\ \A c : Good(e, [Free EXCEPT !.pc = "avail", !.task = id, !.caller = c])
    BY <1>3 DEF ThreadRec, Good
  <1>6. /\ Failed([Free EXCEPT !.task = id]) \in ThreadRec(P)
        /\ Good(e, Failed([Free EXCEPT !.task = id]))
    BY <1>1, <1>3 DEF ThreadRec, Good, Failed, PCs
  <1>7. ASSUME NEW pc \in {"report", "stop"}, NEW err \in Failures \cup {Empty},
               NEW r \in Results \cup {Empty}
        PROVE  LET x == [Free EXCEPT !.pc = pc, !.task = id, !.err = err, !.res = r]
               IN  /\ x \in ThreadRec(P)
                   /\ pc = "stop" \/ err \in Failures \/ Backed(e, id) => Good(e, x)
    <2> DEFINE x == [Free EXCEPT !.pc = pc, !.task = id, !.err = err, !.res = r]
    <2>1. x \in ThreadRec(P) /\ x.pc = pc /\ x.task = id /\ x.err = err
      BY <1>3 DEF ThreadRec, PCs
    <2> HIDE DEF x
    <2>2. pc = "stop" \/ err \in Failures \/ Backed(e, id) => Good(e, x)
      BY <1>1, <2>1 DEF Good
    <2> QED
      BY <2>1, <2>2 DEF x
  <1> QED
    BY <1>4, <1>5, <1>6, <1>7 DEF P

\* The end of a visit moves the goroutine, and the caller of an RPC.
LEMMA EndMoves ==
    ASSUME NEW O, ThreadsIn(O), ThreadsGood, NEW e \in Executors, NEW th \in Threads,
           thread[e][th].pc # "wait", up \subseteq Executors, End(e, th)
    PROVE  NewThreads(O)
  <1>1. Free \in ThreadRec(Grown(O)) /\ Good(e, Free)
    <2>1. thread[e][th] \in ThreadRec(O) /\ Good(e, thread[e][th])
      BY DEF ThreadsIn, ThreadsGood
    <2> QED
      BY <2>1, ThreadTypes, GoodMoves
  <1>2. CASE Reply(e, th, FALSE, Free)
    BY <1>1, <1>2, ReplyMoves
  <1>3. CASE Leave(e, th)
    BY <1>1, <1>3, OneMoves DEF Leave
  <1> QED
    BY <1>2, <1>3 DEF End

\* The steps of TaskStartPrepare, StartLocalMpcTask and
\* updateTaskStatusAndStopLocalMpc keep the goroutines good.
LEMMA ThreadStepMoves ==
    ASSUME NEW O, ThreadsIn(O), ThreadsGood, ExecTyped, UseInv,
           NEW e \in Executors, NEW th \in Threads, ThreadStep(e, th)
    PROVE  NewThreads(O)
  <1> DEFINE t == thread[e][th]
  <1>1. t \in ThreadRec(O) /\ Good(e, t) /\ up \subseteq Executors
    BY DEF ThreadsIn, ThreadsGood, ExecTyped
  <1>2. /\ Free \in ThreadRec(Grown(O)) /\ Good(e, Free)
        /\ t \in ThreadRec(Grown(O))
    BY <1>1, ThreadTypes, GoodMoves
  <1>3. ASSUME t.pc \notin {"idle", "list"}, NEW pc \in {"add", "stop"}, Goto(e, th, pc)
        PROVE  NewThreads(O)
    <2>1. thread' = [thread EXCEPT ![e][th] = [t EXCEPT !.pc = pc]]
      BY <1>3 DEF Goto
    <2>2. [t EXCEPT !.pc = pc] \in ThreadRec(Grown(O)) /\ Good(e, [t EXCEPT !.pc = pc])
      BY <1>1, <1>3, ThreadTypes, GoodMoves DEF PCs
    <2> QED
      BY <2>1, <2>2, OneMoves
  <1>4. ASSUME t.pc \notin {"idle", "list"}, NEW f \in Failures, Report(e, th, f, Empty)
        PROVE  NewThreads(O)
    <2> DEFINE x == [t EXCEPT !.pc = "report", !.err = f, !.res = Empty]
    <2>1. thread' = [thread EXCEPT ![e][th] = x]
      BY <1>1, <1>4 DEF Report, ThreadsIn, ThreadRec
    <2>2. x \in ThreadRec(Grown(O)) /\ Good(e, x)
      BY <1>1, <1>4, ThreadTypes, GoodMoves
    <2> HIDE DEF x
    <2> QED
      BY <2>1, <2>2, OneMoves
  <1>5. CASE CountTasks(e, th)
    <2>1. t.pc = "avail"
      BY <1>5 DEF CountTasks, At
    <2> QED
      BY <1>1, <1>3, <1>5, <2>1, EndMoves DEF CountTasks
  <1>6. CASE AddTask(e, th)
    <2>1. t.pc = "add" /\ t.task \in Tasks /\ InUse(t.task)
      BY <1>1, <1>6 DEF AddTask, At, Good
    <2>2. CASE Reply(e, th, TRUE, Free)
      BY <1>1, <1>2, <2>1, <2>2, ReplyMoves
    <2>3. CASE Leave(e, th)
      BY <1>2, <2>3, OneMoves DEF Leave
    <2>4. ASSUME NEW f \in Failures, Report(e, th, f, Empty) PROVE NewThreads(O)
      BY <1>4, <2>1, <2>4
    <2>5. ASSUME t.task \in PredictTasks => ModelTask[t.task] \in stored[e],
                 Reply(e, th, TRUE, [Free EXCEPT !.pc = "start", !.task = t.task])
          PROVE  NewThreads(O)
      <3>1. Good(e, [Free EXCEPT !.pc = "start", !.task = t.task])
        BY <1>1, <2>1, <2>5, GoodMoves
      <3>2. [Free EXCEPT !.pc = "start", !.task = t.task] \in ThreadRec(Grown(O))
        BY <2>1, FreshThreads
      <3> QED
        BY <1>1, <2>1, <2>5, <3>1, <3>2, ReplyMoves
    <2>6. ASSUME t.task \in PredictTasks => ModelTask[t.task] \in stored[e],
                 thread' = [thread EXCEPT ![e][th] = SendTo(@, otherParts(e, t.task))]
          PROVE  NewThreads(O)
      <3>1. Good(e, SendTo(t, otherParts(e, t.task)))
        BY <1>1, <2>1, <2>6, GoodMoves
      <3>2. SendTo(t, otherParts(e, t.task)) \in ThreadRec(Grown(O))
        BY <1>1, <2>1, ThreadTypes
      <3> QED
        BY <2>6, <3>1, <3>2, OneMoves
    <2> QED
      BY <1>6, <2>2, <2>3, <2>4, <2>5, <2>6 DEF AddTask
  <1>7. CASE StartRequestFails(e, th)
    <2>1. t.pc \in {"send", "wait"} /\ thread' = [thread EXCEPT ![e][th] = Failed(t)]
      BY <1>7 DEF StartRequestFails, At
    <2>2. Failed(t) \in ThreadRec(Grown(O)) /\ Good(e, Failed(t))
      BY <1>1, <2>1, ThreadTypes, GoodMoves
    <2> QED
      BY <2>1, <2>2, OneMoves
  <1>8. CASE SendStartRequest(e, th)
    <2> DEFINE p == Head(t.others)
               id == t.task
               x == [t EXCEPT !.pc = "wait"]
               y == [Free EXCEPT !.pc = "avail", !.task = id, !.caller = <<e, th>>]
    <2>1. /\ t.pc = "send" /\ id \in Tasks /\ InUse(id)
          /\ p \in Executors /\ thread[p][RPC(id)].pc = "idle"
      BY <1>1, <1>8 DEF SendStartRequest, At, Good
    <2>2. CASE thread' = [thread EXCEPT ![e][th] = Failed(@)]
      <3>1. Failed(t) \in ThreadRec(Grown(O)) /\ Good(e, Failed(t))
        BY <1>1, <2>1, ThreadTypes, GoodMoves
      <3> QED
        BY <2>2, <3>1, OneMoves
    <2>3. CASE thread' = [thread EXCEPT ![e][th].pc = "wait", ![p][RPC(id)] = y]
      <3>1. x \in ThreadRec(Grown(O)) /\ Good(e, x)
        BY <1>1, <2>1, ThreadTypes, GoodMoves DEF PCs
      <3>2. y \in ThreadRec(Grown(O)) /\ Good(p, y)
        BY <2>1, FreshThreads
      <3>3. RPC(id) \in Threads /\ (p # e \/ RPC(id) # th)
        BY <2>1, ThreadNames
      <3>4. thread \in [Executors -> [Threads -> ThreadRec(Grown(O))]]
        BY ThreadTypes DEF ThreadsIn
      <3> DEFINE mid == [thread EXCEPT ![e][th] = x]
                 R == ThreadRec(Grown(O))
      <3>5. thread' = [mid EXCEPT ![p][RPC(id)] = y]
        BY <2>3
      <3> HIDE DEF x, y, R
      <3>6. /\ mid \in [Executors -> [Threads -> R]]
            /\ mid[e][th] = x
            /\ \A e2 \in Executors, th2 \in Threads :
                  e2 # e \/ th2 # th => mid[e2][th2] = thread[e2][th2]
        BY <3>1, <3>4, OneChanged DEF R
      <3> HIDE DEF mid, p
      <3>7. /\ thread' \in [Executors -> [Threads -> R]]
            /\ thread'[p][RPC(id)] = y
            /\ \A e2 \in Executors, th2 \in Threads :
                  e2 # p \/ th2 # RPC(id) => thread'[e2][th2] = mid[e2][th2]
        BY <2>1, <3>2, <3>3, <3>5, <3>6, OneChanged DEF R
      <3> QED
        BY <3>1, <3>2, <3>6, <3>7 DEF NewThreads, ThreadsGood, R
    <2> QED
      BY <1>8, <2>2, <2>3 DEF SendStartRequest
  <1>9. CASE StartMpcTask(e, th)
    <2>1. t.pc = "start"
      BY <1>9 DEF StartMpcTask, At
    <2>2. CASE Leave(e, th)
      BY <1>2, <2>2, OneMoves DEF Leave
    <2> QED
      BY <1>4, <1>9, <2>1, <2>2 DEF StartMpcTask
  <1>10. CASE UpdateTaskFinishStatus(e, th)
    <2>1. t.pc = "report" /\ Goto(e, th, "stop")
      BY <1>10 DEF UpdateTaskFinishStatus, At
    <2> QED
      BY <1>3, <2>1
  <1>11. CASE stopLocalMpcTask(e, th)
    <2>1. t.pc = "stop" /\ End(e, th)
      BY <1>11 DEF stopLocalMpcTask, At
    <2> QED
      BY <1>1, <2>1, EndMoves
  <1> QED
    BY <1>5, <1>6, <1>7, <1>8, <1>9, <1>10, <1>11 DEF ThreadStep

\* Visits of the monitor, callbacks, crashes and restarts keep the goroutines
\* good; SaveModel, which stores the model it reports, is looked at below.
LEMMA VisitMoves ==
    ASSUME NEW O, ThreadsIn(O), ThreadsGood, ExecTyped, UseInv, NEW e \in Executors,
           \/ \E id \in Tasks : \/ VisitToProcess(e, id)
                                \/ VisitProcessing(e, id)
                                \/ CheckMpcTimeOutTasks(e, id)
                                \/ SavePredictOut(e, id)
           \/ RetryProcessingTask(e)
           \/ Crash(e)
           \/ Restart(e)
           \/ UNCHANGED thread
    PROVE  NewThreads(O)
  <1>1. thread \in [Executors -> [Threads -> ThreadRec(Grown(O))]]
    BY ThreadTypes DEF ThreadsIn
  <1>2. CASE UNCHANGED thread
    BY <1>1, <1>2 DEF NewThreads, ThreadsGood
  <1>3. Loop \in Threads /\ Retry \in Threads /\ \A id \in Tasks : MPC(id) \in Threads
    BY ThreadNames
  <1>4. /\ Free \in ThreadRec(Grown(O)) /\ Good(e, Free)
        /\ [Free EXCEPT !.pc = "list"] \in ThreadRec(Grown(O))
        /\ Good(e, [Free EXCEPT !.pc = "list"])
    BY DEF ThreadRec, Free, PCs, Good, Grown
  <1>5. ASSUME NEW id \in Tasks, VisitToProcess(e, id) PROVE NewThreads(O)
    <2>1. InUse(id)
      BY <1>5 DEF VisitToProcess, ExecuteTask, InUse
    <2>2. CASE UNCHANGED thread
      BY <1>2, <2>2
    <2>3. CASE thread' = [thread EXCEPT ![e][Loop] = [Free EXCEPT !.pc = "avail", !.task = id]]
      BY <1>3, <2>1, <2>3, FreshThreads, OneMoves
    <2> QED
      BY <1>5, <2>2, <2>3 DEF VisitToProcess
  <1>6. ASSUME NEW id \in Tasks, VisitProcessing(e, id) PROVE NewThreads(O)
    <2>1. /\ InUse(id)
          /\ thread' = [thread EXCEPT ![e][Retry] = [Free EXCEPT !.pc = "avail", !.task = id]]
      BY <1>6 DEF VisitProcessing, UseInv
    <2> QED
      BY <1>3, <2>1, FreshThreads, OneMoves
  <1>7. ASSUME NEW id \in Tasks, CheckMpcTimeOutTasks(e, id) PROVE NewThreads(O)
    <2>1. /\ InUse(id)
          /\ thread' = [thread EXCEPT ![e][Loop] = Failed([Free EXCEPT !.task = id])]
      BY <1>7 DEF CheckMpcTimeOutTasks, UseInv
    <2> QED
      BY <1>3, <2>1, FreshThreads, OneMoves
  <1>8. ASSUME NEW id \in Tasks, SavePredictOut(e, id) PROVE NewThreads(O)
    <2>1. InUse(id) /\ id \in PredictTasks /\ id \in calc[e] /\ ModelTask[id] \in stored[e]
      BY <1>8 DEF SavePredictOut, MpcResult, UseInv
    <2>2. PICK pc \in {"report", "stop"}, err \in Failures \cup {Empty}, r \in Results \cup {Empty} :
              /\ thread' = [thread EXCEPT ![e][MPC(id)] =
                              [Free EXCEPT !.pc = pc, !.task = id, !.err = err, !.res = r]]
              /\ pc = "stop" \/ err \in Failures \/ e = LabelHolder
      BY <1>8 DEF SavePredictOut, Callback
    <2>3. e = LabelHolder => Backed(e, id)
      BY <2>1 DEF Backed
    <2> DEFINE x == [Free EXCEPT !.pc = pc, !.task = id, !.err = err, !.res = r]
    <2>4. x \in ThreadRec(Grown(O)) /\ Good(e, x)
      BY <2>1, <2>2, <2>3, FreshThreads
    <2> HIDE DEF x
    <2> QED
      BY <1>3, <2>2, <2>4, OneMoves DEF x
  <1>9. CASE RetryProcessingTask(e)
    BY <1>3, <1>4, <1>9, OneMoves DEF RetryProcessingTask, Leave
  <1>10. CASE Crash(e)
    <2>1. thread' = [thread EXCEPT ![e] = [th \in Threads |-> Free]]
      BY <1>10 DEF Crash
    <2>2. /\ \A th \in Threads : thread'[e][th] = Free
          /\ \A e2 \in Executors, th \in Threads : e2 # e => thread'[e2][th] = thread[e2][th]
          /\ thread' \in [Executors -> [Threads -> ThreadRec(Grown(O))]]
      BY <1>1, <1>4, <2>1
    <2> QED
      BY <1>4, <2>2 DEF NewThreads, ThreadsGood
  <1>11. CASE Restart(e)
    BY <1>3, <1>4, <1>11, OneMoves DEF Restart
  <1> QED
    BY <1>2, <1>5, <1>6, <1>7, <1>8, <1>9, <1>10, <1>11

-----------------------------------------------------------------------------
(***************************************************************************)
(* The executors and the contract.                                         *)
(***************************************************************************)

\* A step of the executors is one transaction of the contract, or none: of the
\* invocations only ConfirmTask, StartTask, ExecuteTask and FinishTask occur.
LEMMA ChainStep ==
    ASSUME ExecTyped, [ExecNext]_vars
    PROVE  \/ UNCHANGED chainVars
           \/ \E id \in Tasks, e \in Executors : ConfirmTask(id, e)
           \/ \E id \in Tasks : StartTask(id)
           \/ \E id \in Tasks, e \in Executors : ExecuteTask(id, e)
           \/ \E id \in Tasks, e \in Executors, err \in Failures \cup {Empty},
                 res \in Results \cup {Empty}, th \in Threads :
                 /\ FinishTask(id, e, err, res)
                 /\ thread[e][th].pc = "report"
                 /\ thread[e][th].task = id
                 /\ thread[e][th].err = err
  <1>1. ASSUME NEW e \in Executors, NEW th \in Threads, UpdateTaskFinishStatus(e, th)
        PROVE  \/ UNCHANGED chainVars
               \/ \E id \in Tasks, err \in Failures \cup {Empty}, res \in Results \cup {Empty} :
                     /\ FinishTask(id, e, err, res)
                     /\ thread[e][th].pc = "report"
                     /\ thread[e][th].task = id
                     /\ thread[e][th].err = err
    <2> DEFINE t == thread[e][th]
    <2>1. PICK O : t \in ThreadRec(O)
      BY DEF ExecTyped, ThreadsIn
    <2>2. t.err \in Failures \cup {Empty} /\ t.res \in Results \cup {Empty}
      BY <2>1 DEF ThreadRec
    <2>3. t.pc = "report"
      BY <1>1 DEF UpdateTaskFinishStatus, At
    <2>4. FinishTask(t.task, e, t.err, t.res) => t.task \in Tasks
      BY DEF FinishTask, ExecTyped
    <2>5. UNCHANGED chainVars \/ FinishTask(t.task, e, t.err, t.res)
      BY <1>1 DEF UpdateTaskFinishStatus
    <2> QED
      BY <2>2, <2>3, <2>4, <2>5
  <1>2. ASSUME NEW e \in Executors, NEW th \in Threads, ThreadStep(e, th)
        PROVE  UNCHANGED chainVars \/ UpdateTaskFinishStatus(e, th)
    BY <1>2 DEF ThreadStep, CountTasks, AddTask, SendStartRequest, StartRequestFails, StartMpcTask,
                stopLocalMpcTask
  <1>3. ASSUME NEW e \in Executors, NEW id \in Tasks,
               \/ VisitConfirming(e, id)
               \/ VisitToProcess(e, id)
               \/ VisitProcessing(e, id)
               \/ CheckMpcTimeOutTasks(e, id)
               \/ DropResult(e, id)
               \/ SaveModel(e, id)
               \/ SavePredictOut(e, id)
               \/ SaveResultStops(e, id)
        PROVE  UNCHANGED chainVars \/ ConfirmTask(id, e) \/ ExecuteTask(id, e)
    BY <1>3 DEF VisitConfirming, VisitToProcess, VisitProcessing, CheckMpcTimeOutTasks, DropResult,
                SaveModel, SavePredictOut, SaveResultStops, MpcResult
  <1>4. ASSUME NEW e \in Executors, RetryProcessingTask(e) \/ Crash(e) \/ Restart(e)
        PROVE  UNCHANGED chainVars
    BY <1>4 DEF RetryProcessingTask, Crash, Restart
  <1>5. ASSUME NEW id \in Tasks, ClientStart(id) PROVE StartTask(id)
    BY <1>5 DEF ClientStart
  <1>6. CASE UNCHANGED vars
    BY <1>6 DEF vars
  <1> QED
    BY <1>1, <1>2, <1>3, <1>4, <1>5, <1>6 DEF ExecNext

\* Every executor is a party of every task (ExecInit), and remains one.
AllParties == \A id \in Tasks : Parties(id) = Executors

RecordKept(id) ==
    /\ [Next]_chainVars
    /\ Published' = Tasks
    /\ Parties(id)' = Parties(id)
    /\ InUse(id) => InUse(id)'
    /\ ledger'[id].status = TaskFinished =>
          \/ ledger[id].status = TaskFinished
          \/ \E e \in Executors, th \in Threads :
                /\ thread[e][th].pc = "report"
                /\ thread[e][th].task = id
                /\ thread[e][th].err = Empty

\* What a step does to the record of a task: its parties stay, a task in use
\* stays in use, and it becomes Finished by the report of a goroutine.
LEMMA RecordsKept ==
    ASSUME ExecTyped, [ExecNext]_vars, NEW id \in Tasks
    PROVE  RecordKept(id)
  <1> USE DEF TaskConfirming, TaskReady, TaskToProcess, TaskProcessing, TaskFinished, TaskFailed,
              TaskRejected
  <1>1. /\ DOMAIN ledger = Tasks /\ \A k \in Tasks : ledger[k] \in FLTask
    BY DEF ExecTyped, TypeOK, Published
  <1>2. CASE UNCHANGED chainVars
    BY <1>1, <1>2 DEF RecordKept, chainVars, Published, Parties, InUse
  <1>3. ASSUME NEW k \in Tasks, NEW e \in Executors, ConfirmTask(k, e)
        PROVE  RecordKept(id)
    <2>1. /\ DOMAIN ledger' = Tasks
          /\ id # k => ledger'[id] = ledger[id]
          /\ ledger'[k].dataSets = StampConfirmed(ledger[k], e)
          /\ ledger[k].status = TaskConfirming /\ ledger'[k].status # TaskFinished
      BY <1>1, <1>3 DEF ConfirmTask, CanConfirm, FLTask
    <2>2. ASSUME id = k PROVE Parties(id)' = Parties(id)
      <3> DEFINE ds == ledger[k].dataSets
      <3>1. \A i \in DOMAIN ds : ds[i] \in DataForTask
        BY <1>1 DEF FLTask
      <3>2. \A i \in DOMAIN ds : StampConfirmed(ledger[k], e)[i].executor = ds[i].executor
        BY <3>1 DEF StampConfirmed, DataForTask
      <3>3. DOMAIN StampConfirmed(ledger[k], e) = DOMAIN ds
        BY DEF StampConfirmed
      <3> QED
        BY <2>1, <2>2, <3>2, <3>3 DEF Parties
    <2>3. id # k => Parties(id)' = Parties(id)
      BY <2>1 DEF Parties
    <2> QED
      BY <1>3, <2>1, <2>2, <2>3 DEF RecordKept, Next, Published, InUse
  <1>4. ASSUME NEW k \in Tasks, StartTask(k) PROVE RecordKept(id)
    <2>1. /\ DOMAIN ledger' = Tasks
          /\ id # k => ledger'[id] = ledger[id]
          /\ ledger'[k].dataSets = ledger[k].dataSets /\ ledger'[k].status = TaskToProcess
      BY <1>1, <1>4 DEF StartTask, FLTask
    <2> QED
      BY <1>4, <2>1 DEF RecordKept, Next, Published, InUse, Parties
  <1>5. ASSUME NEW k \in Tasks, NEW e \in Executors, ExecuteTask(k, e) PROVE RecordKept(id)
    <2>1. /\ DOMAIN ledger' = Tasks
          /\ id # k => ledger'[id] = ledger[id]
          /\ ledger'[k].dataSets = ledger[k].dataSets /\ ledger'[k].status = TaskProcessing
      BY <1>1, <1>5 DEF ExecuteTask, FLTask
    <2> QED
      BY <1>5, <2>1 DEF RecordKept, Next, Published, InUse, Parties
  <1>6. ASSUME NEW k \in Tasks, NEW e \in Executors, NEW err \in Failures \cup {Empty},
               NEW res \in Results \cup {Empty}, NEW th \in Threads, FinishTask(k, e, err, res),
               thread[e][th].pc = "report", thread[e][th].task = k, thread[e][th].err = err
        PROVE  RecordKept(id)
    <2>1. /\ DOMAIN ledger' = Tasks
          /\ id # k => ledger'[id] = ledger[id]
          /\ ledger'[k].dataSets = ledger[k].dataSets
          /\ ledger'[k].status = IF err = Empty THEN TaskFinished ELSE TaskFailed
      BY <1>1, <1>6 DEF FinishTask, FLTask
    <2> QED
      BY <1>6, <2>1 DEF RecordKept, Next, Published, InUse, Parties
  <1> QED
    BY <1>2, <1>3, <1>4, <1>5, <1>6, ChainStep

\* The executors act on the chain only by the contract's transactions.
LEMMA ContractStep == ExecTyped /\ [ExecNext]_vars => [Next]_chainVars
  BY ChainStep DEF Next

\* Pools, learners, computations and retries after a step.
LEMMA SetsStep ==
    ASSUME ExecTyped, ThreadsGood, UseInv, [ExecNext]_vars
    PROVE  /\ pool' \in [Executors -> SUBSET Tasks]
           /\ learner' \in [Executors -> SUBSET Tasks]
           /\ calc' \in [Executors -> SUBSET Tasks]
           /\ stored' \in [Executors -> SUBSET Tasks]
           /\ retryList' \in [Executors -> SUBSET Tasks]
           /\ up' \subseteq Executors
           /\ \A e \in Executors :
                 /\ stored[e] \subseteq stored'[e]
                 /\ \A id \in pool'[e] \cup learner'[e] \cup calc'[e] \cup retryList'[e] : InUse(id)
                 /\ \A id \in calc'[e] \cap PredictTasks : ModelTask[id] \in stored[e]
  <1> DEFINE Sets == /\ pool' \in [Executors -> SUBSET Tasks]
                     /\ learner' \in [Executors -> SUBSET Tasks]
                     /\ calc' \in [Executors -> SUBSET Tasks]
                     /\ stored' \in [Executors -> SUBSET Tasks]
                     /\ retryList' \in [Executors -> SUBSET Tasks]
                     /\ up' \subseteq Executors
             Used == \A e \in Executors :
                 /\ stored[e] \subseteq stored'[e]
                 /\ \A id \in pool'[e] \cup learner'[e] \cup calc'[e] \cup retryList'[e] : InUse(id)
                 /\ \A id \in calc'[e] \cap PredictTasks : ModelTask[id] \in stored[e]
  <1> SUFFICES Sets /\ Used
    OBVIOUS
  <1>1. /\ pool \in [Executors -> SUBSET Tasks]
        /\ learner \in [Executors -> SUBSET Tasks]
        /\ calc \in [Executors -> SUBSET Tasks]
        /\ stored \in [Executors -> SUBSET Tasks]
        /\ retryList \in [Executors -> SUBSET Tasks]
        /\ up \subseteq Executors
    BY DEF ExecTyped
  <1>2. CASE UNCHANGED <<pool, learner, calc, stored, retryList, up>>
    BY <1>1, <1>2 DEF UseInv
  <1>3. ASSUME NEW e \in Executors, NEW th \in Threads, AddTask(e, th) PROVE Sets /\ Used
    <2> DEFINE id == thread[e][th].task
    <2>1. id \in Tasks /\ InUse(id)
      BY <1>3 DEF AddTask, At, ThreadsGood, Good
    <2>2. /\ UNCHANGED pool \/ pool' = [pool EXCEPT ![e] = @ \cup {id}]
          /\ UNCHANGED <<learner, calc, stored, retryList, up>>
      BY <1>3 DEF AddTask
    <2> QED
      BY <1>1, <2>1, <2>2 DEF UseInv
  <1>4. ASSUME NEW e \in Executors, NEW th \in Threads, StartMpcTask(e, th) PROVE Sets /\ Used
    <2> DEFINE id == thread[e][th].task
    <2>1. id \in Tasks /\ InUse(id) /\ (id \in PredictTasks => ModelTask[id] \in stored[e])
      BY <1>4 DEF StartMpcTask, At, ThreadsGood, Good
    <2>2. /\ \/ UNCHANGED <<learner, calc>>
             \/ /\ learner' = [learner EXCEPT ![e] = @ \cup {id}]
                /\ calc' = [calc EXCEPT ![e] = @ \cup {id}]
          /\ UNCHANGED <<pool, stored, retryList, up>>
      BY <1>4 DEF StartMpcTask
    <2> QED
      BY <1>1, <2>1, <2>2 DEF UseInv
  <1>5. ASSUME NEW e \in Executors, NEW th \in Threads, stopLocalMpcTask(e, th) PROVE Sets /\ Used
    <2> DEFINE id == thread[e][th].task
    <2>1. /\ \/ UNCHANGED <<learner, pool>>
             \/ /\ learner' = [learner EXCEPT ![e] = @ \ {id}]
                /\ pool' = [pool EXCEPT ![e] = @ \ {id}]
          /\ UNCHANGED <<calc, stored, retryList, up>>
      BY <1>5 DEF stopLocalMpcTask
    <2> QED
      BY <1>1, <2>1 DEF UseInv
  <1>6. ASSUME NEW e \in Executors, NEW th \in Threads, ThreadStep(e, th),
               ~ UNCHANGED <<pool, learner, calc, stored, retryList, up>>
        PROVE  AddTask(e, th) \/ StartMpcTask(e, th) \/ stopLocalMpcTask(e, th)
    BY <1>6 DEF ThreadStep, CountTasks, SendStartRequest, StartRequestFails, UpdateTaskFinishStatus
  <1>7. ASSUME NEW e \in Executors, NEW id \in Tasks,
               DropResult(e, id) \/ SaveModel(e, id) \/ SavePredictOut(e, id)
        PROVE  Sets /\ Used
    <2>1. /\ calc' = [calc EXCEPT ![e] = @ \ {id}]
          /\ UNCHANGED stored \/ stored' = [stored EXCEPT ![e] = @ \cup {id}]
          /\ UNCHANGED <<pool, learner, retryList, up>>
      BY <1>7 DEF DropResult, SaveModel, SavePredictOut, MpcResult
    <2> QED
      BY <1>1, <2>1 DEF UseInv
  <1>8. ASSUME NEW e \in Executors, NEW id \in Tasks, VisitProcessing(e, id) \/ SaveResultStops(e, id)
        PROVE  Sets /\ Used
    <2>1. /\ UNCHANGED retryList \/ retryList' = [retryList EXCEPT ![e] = @ \ {id}]
          /\ UNCHANGED learner \/ learner' = [learner EXCEPT ![e] = @ \ {id}]
          /\ UNCHANGED <<pool, calc, stored, up>>
      BY <1>8 DEF VisitProcessing, SaveResultStops
    <2> QED
      BY <1>1, <2>1 DEF UseInv
  <1>9. ASSUME NEW e \in Executors, RetryProcessingTask(e) PROVE Sets /\ Used
    <2>1. /\ retryList' = [retryList EXCEPT ![e] = ListTask(e, TaskProcessing)]
          /\ UNCHANGED <<pool, learner, calc, stored, up>>
      BY <1>9 DEF RetryProcessingTask
    <2>2. ListTask(e, TaskProcessing) \subseteq Tasks
          /\ \A id \in ListTask(e, TaskProcessing) : InUse(id)
      BY DEF ListTask, InUse, ExecTyped
    <2> QED
      BY <1>1, <2>1, <2>2 DEF UseInv
  <1>10. ASSUME NEW e \in Executors, Crash(e) \/ Restart(e) PROVE Sets /\ Used
    <2>1. CASE Crash(e)
      <3>1. /\ pool' = [pool EXCEPT ![e] = {}] /\ learner' = [learner EXCEPT ![e] = {}]
            /\ calc' = [calc EXCEPT ![e] = {}] /\ retryList' = [retryList EXCEPT ![e] = {}]
            /\ up' = up \ {e} /\ UNCHANGED stored
        BY <2>1 DEF Crash
      <3> QED
        BY <1>1, <3>1 DEF UseInv
    <2>2. CASE Restart(e)
      <3>1. UNCHANGED <<pool, learner, calc, stored, retryList>> /\ up' = up \cup {e}
        BY <2>2 DEF Restart
      <3> QED
        BY <1>1, <3>1 DEF UseInv
    <2> QED
      BY <1>10, <2>1, <2>2
  <1>11. ASSUME NEW id \in Tasks, ClientStart(id) PROVE Sets /\ Used
    BY <1>2, <1>11 DEF ClientStart, execVars
  <1>12. ASSUME NEW e \in Executors, NEW id \in Tasks,
                VisitConfirming(e, id) \/ VisitToProcess(e, id) \/ CheckMpcTimeOutTasks(e, id)
         PROVE  Sets /\ Used
    BY <1>2, <1>12 DEF VisitConfirming, VisitToProcess, CheckMpcTimeOutTasks, execVars
  <1>13. CASE UNCHANGED vars
    BY <1>2, <1>13 DEF vars, execVars
  <1> HIDE DEF Sets, Used
  <1> QED
    BY <1>2, <1>3, <1>4, <1>5, <1>6, <1>7, <1>8, <1>9, <1>10, <1>11, <1>12, <1>13 DEF ExecNext

-----------------------------------------------------------------------------
(***************************************************************************)
(* The invariant of the executors and the contract together.               *)
(***************************************************************************)
ExecInv ==
    /\ ExecTyped
    /\ StatusAgreesWithAnswers
    /\ AllParties
    /\ ThreadsGood
    /\ UseInv
    /\ FinishedIsBacked

\* What is good in the old state is good in the new one: tasks in use stay in
\* use, and stored models stay stored.
LEMMA GoodStays ==
    ASSUME ExecInv, [ExecNext]_vars, NEW e \in Executors, NEW t, Good(e, t)
    PROVE  Good(e, t)'
  <1>1. /\ \A id \in Tasks : InUse(id) => InUse(id)'
        /\ \A x \in Executors : stored[x] \subseteq stored'[x]
        /\ LabelHolder \in Executors
    BY RecordsKept, SetsStep, ModelAssumption DEF ExecInv, RecordKept
  <1>2. \A id \in Tasks : Backed(e, id) => Backed(e, id)'
    BY <1>1 DEF Backed
  <1> QED
    BY <1>1, <1>2 DEF Good

\* Every step keeps the goroutines good.
LEMMA ThreadsStep ==
    ASSUME ExecInv, [ExecNext]_vars
    PROVE  (\E O : ThreadsIn(O))' /\ ThreadsGood'
  <1> USE DEF ExecInv
  <1>1. PICK O : ThreadsIn(O)
    BY DEF ExecTyped
  <1>2. ASSUME NewThreads(O) PROVE (\E P : ThreadsIn(P))' /\ ThreadsGood'
    <2>1. (\E P : ThreadsIn(P))'
      <3>1. PICK P : P = Grown(O)
        OBVIOUS
      <3>2. thread' \in [Executors -> [Threads -> ThreadRec(P)]]
        BY <1>2, <3>1 DEF NewThreads
      <3> QED
        BY <3>2 DEF ThreadsIn
    <2>2. ThreadsGood'
      BY <1>2, GoodStays DEF NewThreads, ThreadsGood
    <2> QED
      BY <2>1, <2>2
  <1>3. ASSUME NEW e \in Executors, NEW id \in Tasks, SaveModel(e, id)
        PROVE  (\E P : ThreadsIn(P))' /\ ThreadsGood'
    <2>1. InUse(id) /\ id \notin PredictTasks /\ stored \in [Executors -> SUBSET Tasks]
      BY <1>3 DEF SaveModel, UseInv, ExecTyped
    <2>2. MPC(id) \in Threads
      BY ThreadNames
    <2>3. CASE \E f \in Failures : Callback(e, id, "report", f, Empty)
      <3>1. PICK f \in Failures : Callback(e, id, "report", f, Empty)
        BY <2>3
      <3> DEFINE x == [Free EXCEPT !.pc = "report", !.task = id, !.err = f, !.res = Empty]
      <3>2. x \in ThreadRec(Grown(O)) /\ Good(e, x)
        BY <2>1, FreshThreads
      <3>3. thread' = [thread EXCEPT ![e][MPC(id)] = x]
        BY <3>1 DEF Callback
      <3> HIDE DEF x
      <3> QED
        BY <1>1, <1>2, <2>2, <3>2, <3>3, OneMoves
    <2>4. CASE /\ stored' = [stored EXCEPT ![e] = @ \cup {id}]
               /\ Callback(e, id, "report", Empty, Empty)
      <3> DEFINE x == [Free EXCEPT !.pc = "report", !.task = id, !.err = Empty, !.res = Empty]
      <3>1. x \in ThreadRec(Grown(O)) /\ x.pc = "report" /\ x.task = id
        BY <2>1, FreshThreads DEF Free
      <3>2. thread' = [thread EXCEPT ![e][MPC(id)] = x]
        BY <2>4 DEF Callback
      <3>3. InUse(id)'
        BY <2>1, RecordsKept DEF RecordKept
      <3>4. Backed(e, id)'
        BY <2>1, <2>4 DEF Backed
      <3> HIDE DEF x
      <3>5. Good(e, x)'
        BY <3>1, <3>3, <3>4 DEF Good, x
      <3>6. PICK P : P = Grown(O)
        OBVIOUS
      <3>7. thread \in [Executors -> [Threads -> ThreadRec(P)]]
        BY <1>1, <3>6, ThreadTypes DEF ThreadsIn
      <3>8. /\ thread' \in [Executors -> [Threads -> ThreadRec(P)]]
            /\ thread'[e][MPC(id)] = x
            /\ \A e2 \in Executors, th2 \in Threads :
                  e2 # e \/ th2 # MPC(id) => thread'[e2][th2] = thread[e2][th2]
        BY <2>2, <3>1, <3>2, <3>6, <3>7, OneChanged
      <3>9. (\E Q : ThreadsIn(Q))'
        BY <3>8 DEF ThreadsIn
      <3>10. ThreadsGood'
        BY <3>5, <3>8, GoodStays DEF ThreadsGood
      <3> QED
        BY <3>9, <3>10
    <2> QED
      BY <1>3, <2>3, <2>4 DEF SaveModel
  <1>4. ASSUME NEW e \in Executors, NEW th \in Threads, ThreadStep(e, th) PROVE NewThreads(O)
    BY <1>1, <1>4, ThreadStepMoves
  <1>5. ASSUME NEW e \in Executors, NEW id \in Tasks,
               VisitConfirming(e, id) \/ DropResult(e, id) \/ SaveResultStops(e, id)
        PROVE  UNCHANGED thread
    BY <1>5 DEF VisitConfirming, DropResult, SaveResultStops, execVars
  <1>6. ASSUME NEW id \in Tasks, ClientStart(id) PROVE UNCHANGED thread
    BY <1>6 DEF ClientStart, execVars
  <1>7. UNCHANGED vars => UNCHANGED thread
    BY DEF vars, execVars
  <1>8. ASSUME UNCHANGED thread PROVE NewThreads(O)
    BY <1>1, <1>8, VisitMoves, ModelAssumption
  <1> QED
    BY <1>1, <1>2, <1>3, <1>4, <1>5, <1>6, <1>7, <1>8, VisitMoves DEF ExecNext

\* The invariant is inductive.
LEMMA ExecStep == ExecInv /\ [ExecNext]_vars => ExecInv'
  <1> SUFFICES ASSUME ExecInv, [ExecNext]_vars PROVE ExecInv'
    OBVIOUS
  <1>1. ExecTyped /\ StatusAgreesWithAnswers /\ ThreadsGood /\ UseInv /\ AllParties /\ FinishedIsBacked
    BY DEF ExecInv
  <1>2. [Next]_chainVars
    BY <1>1, ContractStep
  <1>3. TypeOK' /\ StatusAgreesWithAnswers'
    BY <1>1, <1>2, TypingStep, AgreementStep DEF ExecTyped
  <1>4. \A id \in Tasks : RecordKept(id)
    BY <1>1, RecordsKept
  <1>5. Published' = Tasks
    <2>1. CASE Tasks = {}
      BY <1>3, <2>1 DEF TypeOK
    <2>2. CASE Tasks # {}
      BY <1>4, <2>2 DEF RecordKept
    <2> QED
      BY <2>1, <2>2
  <1>6. ExecTyped'
    BY <1>1, <1>3, <1>5, SetsStep, ThreadsStep DEF ExecTyped
  <1>7. AllParties'
    BY <1>1, <1>4 DEF AllParties, RecordKept
  <1>8. UseInv'
    BY <1>1, <1>4, <1>6, SetsStep DEF UseInv, RecordKept, ExecTyped
  <1>9. FinishedIsBacked'
    <2> SUFFICES ASSUME NEW id \in Tasks, ledger'[id].status = TaskFinished
                 PROVE  IF id \in PredictTasks
                        THEN ModelTask[id] \in stored'[LabelHolder]
                        ELSE \E e \in Parties(id)' : id \in stored'[e]
      BY DEF FinishedIsBacked
    <2>1. Parties(id)' = Executors /\ Parties(id) = Executors
      BY <1>1, <1>7 DEF AllParties
    <2>2. LabelHolder \in Executors /\ \A e \in Executors : stored[e] \subseteq stored'[e]
      BY <1>1, SetsStep, ModelAssumption
    <2>3. CASE ledger[id].status = TaskFinished
      BY <1>1, <2>1, <2>2, <2>3 DEF FinishedIsBacked
    <2>4. ASSUME NEW e \in Executors, NEW th \in Threads, thread[e][th].pc = "report",
                 thread[e][th].task = id, thread[e][th].err = Empty
          PROVE  Backed(e, id)
      BY <1>1, <2>4 DEF ThreadsGood, Good
    <2> QED
      BY <1>4, <2>1, <2>2, <2>3, <2>4 DEF RecordKept, Backed
  <1> QED
    BY <1>3, <1>6, <1>7, <1>8, <1>9, ThreadsStep DEF ExecInv

\* Initially nothing is in use.
LEMMA ExecStart == ExecInit => ExecInv
  <1> SUFFICES ASSUME ExecInit PROVE ExecInv
    OBVIOUS
  <1> DEFINE Qs == {q \in Fresh : /\ \A i, j \in DOMAIN q : q[i].executor = q[j].executor => i = j
                                  /\ {q[i].executor : i \in DOMAIN q} = Executors}
  <1>1. ledger \in [Tasks -> {NewTask(ds) : ds \in Qs}] /\ files = DataIds
    BY DEF ExecInit
  <1>2. ASSUME NEW id \in Tasks
        PROVE  /\ ledger[id] \in FLTask /\ StatusAgrees(ledger[id], files)
               /\ ledger[id].status = TaskConfirming
               /\ Parties(id) = Executors
    <2>1. PICK ds \in Qs : ledger[id] = NewTask(ds)
      BY <1>1
    <2>2. ds \in Fresh /\ {ds[i].executor : i \in DOMAIN ds} = Executors
      BY <2>1
    <2>3. /\ NewTask(ds) \in FLTask /\ 1 \in DOMAIN ds
          /\ \A i \in DOMAIN ds : ds[i].confirmedAt = 0 /\ ds[i].rejectedAt = 0
      BY <2>2, NewTaskType
    <2>4. NewTask(ds).dataSets = ds /\ NewTask(ds).status = TaskConfirming
      BY DEF NewTask
    <2>5. Parties(id) = Executors
      BY <2>1, <2>2, <2>4 DEF Parties
    <2>6. StatusAgrees(NewTask(ds), files)
      BY <2>3, <2>4 DEF StatusAgrees, Confirmed, SomeRejected, TaskConfirming, TaskRejected
    <2> QED
      BY <2>1, <2>3, <2>4, <2>5, <2>6
  <1>3. DOMAIN ledger = Tasks
    BY <1>1
  <1>4. TypeOK /\ Published = Tasks
    BY <1>1, <1>2, <1>3 DEF TypeOK, Published
  <1>5. thread \in [Executors -> [Threads -> ThreadRec({<< >>})]]
    BY DEF ExecInit, ThreadRec, Free, PCs
  <1>6. ExecTyped
    BY <1>4, <1>5 DEF ExecInit, ExecTyped, ThreadsIn
  <1>7. StatusAgreesWithAnswers /\ AllParties
    BY <1>2, <1>4 DEF StatusAgreesWithAnswers, AllParties
  <1>8. ThreadsGood
    BY DEF ExecInit, ThreadsGood, Good, Free
  <1>9. UseInv
    BY DEF ExecInit, UseInv
  <1>10. FinishedIsBacked
    BY <1>2 DEF FinishedIsBacked, TaskConfirming, TaskFinished
  <1> QED
    BY <1>6, <1>7, <1>8, <1>9, <1>10 DEF ExecInv

\* The executors implement the contract: whatever goroutines, restarts and
\* failing invocations do, the chain sees the contract's transactions, and the
\* status of every task agrees with the executors' answers.
THEOREM ExecutorsKeepContract ==
    ExecSpec => [][Next]_chainVars /\ []StatusAgreesWithAnswers
  <1>1. ExecInv => StatusAgreesWithAnswers
    BY DEF ExecInv
  <1>2. ExecInv /\ [ExecNext]_vars => [Next]_chainVars
    BY ContractStep DEF ExecInv
  <1> QED
    BY <1>1, <1>2, ExecStart, ExecStep, PTL DEF ExecSpec

\* No executor spends its samples on a task that was not confirmed by all and
\* started by the requester, across restarts, stale RPCs and late computations.
THEOREM Consent == ExecSpec => []ConsentBeforeUse
  <1>1. ExecInv => ConsentBeforeUse
    <2> SUFFICES ASSUME ExecInv, NEW e \in Executors,
                        NEW id \in pool[e] \cup learner[e] \cup calc[e]
                 PROVE  /\ e \in Parties(id)
                        /\ Confirmed(ledger[id])
                        /\ ledger[id].status \notin {TaskConfirming, TaskReady, TaskRejected}
      BY DEF ConsentBeforeUse
    <2>1. id \in Tasks /\ InUse(id) /\ Published = Tasks
      BY DEF ExecInv, ExecTyped, UseInv
    <2>2. e \in Parties(id)
      BY <2>1 DEF ExecInv, AllParties
    <2>3. ledger[id].status \notin {TaskConfirming, TaskReady, TaskRejected}
      BY <2>1 DEF InUse, TaskConfirming, TaskReady, TaskRejected, TaskToProcess, TaskProcessing,
                  TaskFinished, TaskFailed
    <2>4. Confirmed(ledger[id])
      BY <2>1, <2>3 DEF ExecInv, StatusAgreesWithAnswers, StatusAgrees
    <2> QED
      BY <2>2, <2>3, <2>4
  <1> QED
    BY <1>1, ExecStart, ExecStep, PTL DEF ExecSpec

\* A Finished task is backed by a model on disk: results are saved before they
\* are reported, also when nodes crash or a stale computation reports.
THEOREM Backing == ExecSpec => []FinishedIsBacked
  <1>1. ExecInv => FinishedIsBacked
    BY DEF ExecInv
  <1> QED
    BY <1>1, ExecStart, ExecStep, PTL DEF ExecSpec

-----------------------------------------------------------------------------
(***************************************************************************)
(* A training task that is Processing for the first time is not abandoned, *)
(* as long as the pools have room and the chain answers.  Until it is      *)
(* Processing nobody has touched it; while it is, nobody is about to take  *)
(* it out of a pool (Steady), so whoever is in charge of it stays so.      *)
(***************************************************************************)
Trainings == Tasks \ PredictTasks

\* Every pool has room for all training tasks (TrainTaskLimit), and no
\* invocation of the chain fails.
Calm ==
    /\ IsFiniteSet(Trainings) /\ Cardinality(Trainings) <= TrainTaskLimit
    /\ MaxChainErrors = 0

AtWork == {"avail", "add", "send", "wait", "start", "report"}

InCharge(e, k) ==
    \/ k \in pool[e] \cup retryList[e]
    \/ e \notin up \/ thread[e][Retry].pc = "list"
    \/ \E th \in Threads : thread[e][th].task = k /\ thread[e][th].pc \in AtWork

Untouched(k) ==
    \A e \in Executors :
        /\ k \notin pool[e] \cup retryList[e] \cup calc[e]
        /\ \A th \in Threads : thread[e][th].task = k => thread[e][th].pc \in {"idle", "list"}

Steady(k) ==
    \A e \in Executors, th \in Threads : thread[e][th].task = k =>
        /\ thread[e][th].pc # "stop"
        /\ thread[e][th].pc \in {"send", "wait", "start"} => k \in pool[e]

\* The first attempt at a training task.
FirstTry(k) ==
    starts[k] <= 1 =>
        /\ ledger[k].status = TaskToProcess => Untouched(k)
        /\ ledger[k].status = TaskProcessing =>
              Steady(k) /\ \E e \in Executors : InCharge(e, k)

WatchInv ==
    /\ starts \in [Tasks -> Nat]
    /\ chainErrors \in Nat
    /\ \A k \in Tasks : InUse(k) => starts[k] >= 1
    /\ \A k \in Trainings : FirstTry(k)

\* What a step of the goroutine th of e does to the others: one that waits may
\* get its answer, and a request starts a handler for a Processing task.
Around(e, th) ==
    \A e2 \in Executors, th2 \in Threads : e2 # e \/ th2 # th =>
        LET t == thread[e2][th2]
            u == thread'[e2][th2]
        IN  \/ u = t
            \/ t.pc = "wait" /\ u.pc \in {"send", "start", "report"} /\ u.task = t.task
            \/ /\ t.pc = "idle" /\ u.pc = "avail" /\ u.task = thread[e][th].task
               /\ ledger[u.task].status = TaskProcessing

\* ... to itself, and to the pool: it is there from the insertion on.
Itself(e, th) ==
    LET t == thread[e][th]
        u == thread'[e][th]
    IN  \/ /\ t.pc = "avail" /\ pool' = pool
           /\ (u.pc = "idle" /\ ~ available(e, t.task)) \/ (u.pc = "add" /\ u.task = t.task)
        \/ /\ t.pc = "add" /\ pool' = [pool EXCEPT ![e] = @ \cup {t.task}]
           /\ u.pc = "idle" \/ (u.pc \in {"send", "start", "report"} /\ u.task = t.task)
        \/ /\ t.pc \in {"send", "wait"} /\ pool' = pool
           /\ u.pc \in {"wait", "report"} /\ u.task = t.task
        \/ /\ t.pc = "start" /\ pool' = pool
           /\ u.pc = "idle" \/ (u.pc = "report" /\ u.task = t.task)
        \/ /\ t.pc = "report" /\ pool' = pool
           /\ u.pc = "stop" /\ u.task = t.task
           /\ ledger'[t.task].status # TaskProcessing
        \/ /\ t.pc = "stop" /\ u.pc = "idle" /\ pool' = [pool EXCEPT ![e] = @ \ {t.task}]

Moved(e, th) ==
    /\ Around(e, th) /\ Itself(e, th)
    /\ \/ calc' = calc
       \/ /\ thread[e][th].pc = "start"
          /\ calc' = [calc EXCEPT ![e] = @ \cup {thread[e][th].task}]
    /\ UNCHANGED <<retryList, up, starts>>
    /\ chainErrors' = chainErrors

\* One goroutine's record is replaced.
LEMMA AloneMoves ==
    ASSUME NEW O, ThreadsIn(O), NEW e \in Executors, NEW th \in Threads, NEW x,
           thread' = [thread EXCEPT ![e][th] = x]
    PROVE  thread'[e][th] = x /\ Around(e, th)
  <1>1. /\ thread'[e][th] = x
        /\ \A e2 \in Executors, th2 \in Threads :
              e2 # e \/ th2 # th => thread'[e2][th2] = thread[e2][th2]
    BY DEF ThreadsIn
  <1> QED
    BY <1>1 DEF Around

\* The handler's reply, and the caller's progress with it.
LEMMA AnsweredMoves ==
    ASSUME NEW O, ThreadsIn(O), NEW e \in Executors, NEW th \in Threads, NEW ok \in BOOLEAN,
           NEW next, up \subseteq Executors, thread[e][th].pc # "wait", Reply(e, th, ok, next)
    PROVE  thread'[e][th] = next /\ Around(e, th)
  <1> DEFINE c == thread[e][th].caller
             mine == [thread EXCEPT ![e][th] = next]
  <1>1. CASE ~ Waiting(e, th)
    BY <1>1, AloneMoves DEF Reply
  <1>2. CASE Waiting(e, th)
    <2>1. /\ c \in Executors \X Threads
          /\ thread[c[1]][c[2]].pc = "wait"
      BY <1>2, EmptyAssumption DEF Waiting, At, ThreadsIn, ThreadRec
    <2> DEFINE a == c[1]
               b == c[2]
    <2>2. a \in Executors /\ b \in Threads
      BY <2>1
    <2>3. thread[a][b].pc = "wait" /\ (a # e \/ b # th) /\ thread[a][b] \in ThreadRec(O)
      BY <2>1, <2>2 DEF ThreadsIn
    <2>4. thread' = [mine EXCEPT ![a][b] = Replied(thread[a][b], ok)]
      <3>1. mine[a][b] = thread[a][b]
        BY <2>2, <2>3 DEF ThreadsIn
      <3> QED
        BY <1>2, <3>1 DEF Reply
    <2> HIDE DEF a, b, c
    <2>5. /\ thread'[e][th] = next
          /\ thread'[a][b] = Replied(thread[a][b], ok)
          /\ \A e2 \in Executors, th2 \in Threads :
                (e2 # e \/ th2 # th) /\ (e2 # a \/ th2 # b) => thread'[e2][th2] = thread[e2][th2]
      BY <2>2, <2>3, <2>4 DEF ThreadsIn
    <2>6. /\ Replied(thread[a][b], ok).pc \in {"send", "start", "report"}
          /\ Replied(thread[a][b], ok).task = thread[a][b].task
      BY <2>3 DEF Replied, SendTo, Failed, ThreadRec
    <2> QED
      BY <2>2, <2>3, <2>5, <2>6 DEF Around
  <1> QED
    BY <1>1, <1>2

\* Every step of a goroutine is one of these.
LEMMA ThreadStepIsMove ==
    ASSUME ExecInv, MaxChainErrors = 0, chainErrors \in Nat, NEW e \in Executors, NEW th \in Threads,
           ThreadStep(e, th)
    PROVE  Moved(e, th)
  <1> DEFINE t == thread[e][th]
             id == t.task
  <1>1. PICK O : ThreadsIn(O)
    BY DEF ExecInv, ExecTyped
  <1>2. /\ t \in ThreadRec(O) /\ up \subseteq Executors
        /\ pool \in [Executors -> SUBSET Tasks]
        /\ t.pc \notin {"idle", "list"} => id \in Tasks
    BY <1>1 DEF ThreadsIn, ExecInv, ExecTyped, ThreadsGood, Good
  <1>3. /\ Free.pc = "idle"
        /\ \A pc : [t EXCEPT !.pc = pc].pc = pc /\ [t EXCEPT !.pc = pc].task = id
        /\ Failed(t).pc = "report" /\ Failed(t).task = id
        /\ \A o : SendTo(t, o).pc \in {"send", "start"} /\ SendTo(t, o).task = id
        /\ [Free EXCEPT !.pc = "start", !.task = id].pc = "start"
        /\ [Free EXCEPT !.pc = "start", !.task = id].task = id
    BY <1>2 DEF ThreadRec, Failed, SendTo, Free
  <1>4. ~ ChainError
    BY DEF ChainError
  <1> DEFINE Becomes(x) == thread'[e][th] = x /\ Around(e, th)
  <1>a. ASSUME NEW x, thread' = [thread EXCEPT ![e][th] = x] PROVE Becomes(x)
    BY <1>1, <1>a, AloneMoves
  <1>b. ASSUME t.pc # "wait", NEW x, NEW ok \in BOOLEAN, Reply(e, th, ok, x) PROVE Becomes(x)
    BY <1>1, <1>2, <1>b, AnsweredMoves
  <1> HIDE DEF Becomes
  <1>c. ASSUME NEW x, Becomes(x)
        PROVE  thread'[e][th].pc = x.pc /\ thread'[e][th].task = x.task /\ Around(e, th)
    BY <1>c DEF Becomes
  <1>5. ASSUME t.pc # "wait", End(e, th) PROVE thread'[e][th].pc = "idle" /\ Around(e, th)
    <2>1. Reply(e, th, FALSE, Free) \/ Leave(e, th)
      BY <1>5 DEF End
    <2>2. Becomes(Free)
      BY <1>5, <1>a, <1>b, <2>1 DEF Leave
    <2> QED
      BY <1>3, <1>c, <2>2
  <1>6. ASSUME NEW f \in Failures, Report(e, th, f, Empty)
        PROVE  thread'[e][th].pc = "report" /\ thread'[e][th].task = id /\ Around(e, th)
    <2> DEFINE x == [t EXCEPT !.pc = "report", !.err = f, !.res = Empty]
    <2>1. thread' = [thread EXCEPT ![e][th] = x]
      BY <1>1, <1>2, <1>6 DEF Report, ThreadsIn, ThreadRec
    <2>2. x.pc = "report" /\ x.task = id
      BY <1>2 DEF ThreadRec
    <2> HIDE DEF x
    <2>3. Becomes(x)
      BY <1>a, <2>1
    <2> QED
      BY <1>c, <2>2, <2>3
  <1>7. ASSUME NEW pc, Goto(e, th, pc)
        PROVE  thread'[e][th].pc = pc /\ thread'[e][th].task = id /\ Around(e, th)
    <2> DEFINE x == [t EXCEPT !.pc = pc]
    <2>1. thread' = [thread EXCEPT ![e][th] = x]
      BY <1>7 DEF Goto
    <2>2. x.pc = pc /\ x.task = id
      BY <1>3
    <2> HIDE DEF x
    <2>3. Becomes(x)
      BY <1>a, <2>1
    <2> QED
      BY <1>c, <2>2, <2>3
  <1>8. ASSUME Leave(e, th) PROVE thread'[e][th].pc = "idle" /\ Around(e, th)
    <2>1. Becomes(Free)
      BY <1>8, <1>a DEF Leave
    <2> QED
      BY <1>3, <1>c, <2>1
  <1>9. ASSUME thread' = [thread EXCEPT ![e][th] = Failed(@)]
        PROVE  thread'[e][th].pc = "report" /\ thread'[e][th].task = id /\ Around(e, th)
    <2>1. thread' = [thread EXCEPT ![e][th] = Failed(t)]
      BY <1>9
    <2>2. Becomes(Failed(t))
      BY <1>a, <2>1
    <2> QED
      BY <1>3, <1>c, <2>2
  <1> HIDE DEF t, id
  <1>10. CASE CountTasks(e, th)
    <2>1. /\ t.pc = "avail" /\ UNCHANGED <<pool, calc, retryList, up, starts, chainErrors>>
          /\ Goto(e, th, "add") \/ (~ available(e, id) /\ End(e, th))
      BY <1>10 DEF CountTasks, At, counters, t, id
    <2> QED
      BY <1>5, <1>7, <2>1 DEF Moved, Itself, t, id
  <1>11. CASE AddTask(e, th)
    <2>1. /\ t.pc = "add" /\ UNCHANGED <<calc, retryList, up, starts, chainErrors>>
          /\ (id \in pool[e] /\ pool' = pool) \/ pool' = [pool EXCEPT ![e] = @ \cup {id}]
          /\ \/ Reply(e, th, TRUE, Free) \/ Leave(e, th)
             \/ Reply(e, th, TRUE, [Free EXCEPT !.pc = "start", !.task = id])
             \/ thread' = [thread EXCEPT ![e][th] = SendTo(@, otherParts(e, id))]
             \/ \E f \in Failures : Report(e, th, f, Empty)
      BY <1>11 DEF AddTask, At, counters, t, id
    <2>2. pool' = [pool EXCEPT ![e] = @ \cup {id}]
      BY <1>2, <2>1
    <2>3. ASSUME Reply(e, th, TRUE, Free) PROVE thread'[e][th].pc = "idle" /\ Around(e, th)
      <3>1. Becomes(Free)
        BY <1>b, <2>1, <2>3
      <3> QED
        BY <1>3, <1>c, <3>1
    <2>4. ASSUME Reply(e, th, TRUE, [Free EXCEPT !.pc = "start", !.task = id])
          PROVE  thread'[e][th].pc = "start" /\ thread'[e][th].task = id /\ Around(e, th)
      <3>1. Becomes([Free EXCEPT !.pc = "start", !.task = id])
        BY <1>b, <2>1, <2>4
      <3> QED
        BY <1>3, <1>c, <3>1
    <2>5. ASSUME thread' = [thread EXCEPT ![e][th] = SendTo(@, otherParts(e, id))]
          PROVE  thread'[e][th].pc \in {"send", "start"} /\ thread'[e][th].task = id /\ Around(e, th)
      <3>1. thread' = [thread EXCEPT ![e][th] = SendTo(t, otherParts(e, id))]
        BY <2>5 DEF t
      <3>2. Becomes(SendTo(t, otherParts(e, id)))
        BY <1>a, <3>1
      <3> QED
        BY <1>3, <1>c, <3>2
    <2> QED
      BY <1>6, <1>8, <2>1, <2>2, <2>3, <2>4, <2>5 DEF Moved, Itself, t, id
  <1>12. CASE SendStartRequest(e, th)
    <2> DEFINE p == Head(t.others)
               y == [Free EXCEPT !.pc = "avail", !.task = id, !.caller = <<e, th>>]
    <2>1. /\ t.pc = "send" /\ UNCHANGED <<pool, calc, retryList, up, starts, chainErrors>>
          /\ p \in up /\ thread[p][RPC(id)].pc = "idle"
          /\ \/ /\ ledger[id].status = TaskProcessing
                /\ thread' = [thread EXCEPT ![e][th].pc = "wait", ![p][RPC(id)] = y]
             \/ thread' = [thread EXCEPT ![e][th] = Failed(@)]
      BY <1>12 DEF SendStartRequest, At, counters, t, id
    <2>2. ASSUME ledger[id].status = TaskProcessing,
                 thread' = [thread EXCEPT ![e][th].pc = "wait", ![p][RPC(id)] = y]
          PROVE  thread'[e][th].pc = "wait" /\ thread'[e][th].task = id /\ Around(e, th)
      <3> DEFINE x == [t EXCEPT !.pc = "wait"]
      <3>1. y.pc = "avail" /\ y.task = id /\ x.pc = "wait" /\ x.task = id
        BY <1>3 DEF Free
      <3>2. p \in Executors /\ RPC(id) \in Threads /\ (p # e \/ RPC(id) # th)
        BY <1>2, <2>1, ThreadNames DEF t
      <3>0. thread' = [thread EXCEPT ![e][th] = x, ![p][RPC(id)] = y]
        BY <2>2 DEF t
      <3> HIDE DEF x, y, p
      <3>3. /\ thread'[e][th] = x
            /\ thread'[p][RPC(id)] = y
            /\ \A e2 \in Executors, th2 \in Threads :
                  (e2 # e \/ th2 # th) /\ (e2 # p \/ th2 # RPC(id)) => thread'[e2][th2] = thread[e2][th2]
        BY <1>1, <3>0, <3>2 DEF ThreadsIn
      <3>4. Around(e, th)
        <4> SUFFICES ASSUME NEW e2 \in Executors, NEW th2 \in Threads, e2 # e \/ th2 # th,
                            thread'[e2][th2] # thread[e2][th2]
                     PROVE  /\ thread[e2][th2].pc = "idle" /\ thread'[e2][th2].pc = "avail"
                            /\ thread'[e2][th2].task = id
          BY <2>2 DEF Around, t, id
        <4>1. e2 = p /\ th2 = RPC(id)
          BY <3>3
        <4> QED
          BY <2>1, <3>1, <3>3, <4>1
      <3> QED
        BY <3>1, <3>3, <3>4
    <2> QED
      BY <1>9, <2>1, <2>2 DEF Moved, Itself, t, id
  <1>13. CASE StartRequestFails(e, th)
    <2>1. /\ t.pc \in {"send", "wait"} /\ UNCHANGED <<pool, calc, retryList, up, starts, chainErrors>>
          /\ thread' = [thread EXCEPT ![e][th] = Failed(@)]
      BY <1>13 DEF StartRequestFails, At, counters, t
    <2> QED
      BY <1>9, <2>1 DEF Moved, Itself, t, id
  <1>14. CASE StartMpcTask(e, th)
    <2>1. /\ t.pc = "start" /\ UNCHANGED <<pool, retryList, up, starts, chainErrors>>
          /\ calc' = calc \/ calc' = [calc EXCEPT ![e] = @ \cup {id}]
          /\ Leave(e, th) \/ \E f \in Failures : Report(e, th, f, Empty)
      BY <1>14 DEF StartMpcTask, At, counters, t, id
    <2> QED
      BY <1>6, <1>8, <2>1 DEF Moved, Itself, t, id
  <1>15. CASE UpdateTaskFinishStatus(e, th)
    <2>1. /\ t.pc = "report" /\ Goto(e, th, "stop")
          /\ UNCHANGED <<pool, calc, retryList, up>>
          /\ \/ FinishTask(id, e, t.err, t.res) /\ UNCHANGED counters
             \/ ledger[id].status # TaskProcessing /\ UNCHANGED <<chainVars, counters>>
      BY <1>4, <1>15 DEF UpdateTaskFinishStatus, At, t, id
    <2>2. UNCHANGED <<starts, chainErrors>>
      BY <2>1 DEF counters
    <2>3. ledger'[id].status # TaskProcessing
      <3>1. CASE FinishTask(id, e, t.err, t.res)
        <4>1. /\ DOMAIN ledger = Tasks /\ ledger[id] \in FLTask
          BY <1>2, <2>1 DEF ExecInv, ExecTyped, TypeOK, Published
        <4>2. ledger'[id].status \in {TaskFinished, TaskFailed}
          BY <1>2, <2>1, <3>1, <4>1 DEF FinishTask, FLTask
        <4> QED
          BY <4>2 DEF TaskFinished, TaskFailed, TaskProcessing
      <3>2. CASE ledger[id].status # TaskProcessing /\ UNCHANGED <<chainVars, counters>>
        BY <3>2 DEF chainVars
      <3> QED
        BY <2>1, <3>1, <3>2
    <2> QED
      BY <1>7, <2>1, <2>2, <2>3 DEF Moved, Itself, t, id
  <1>16. CASE stopLocalMpcTask(e, th)
    <2>1. /\ t.pc = "stop" /\ End(e, th) /\ UNCHANGED <<calc, retryList, up, starts, chainErrors>>
          /\ (id \notin pool[e] /\ pool' = pool) \/ pool' = [pool EXCEPT ![e] = @ \ {id}]
      BY <1>16 DEF stopLocalMpcTask, At, counters, t, id
    <2>2. pool' = [pool EXCEPT ![e] = @ \ {id}]
      BY <1>2, <2>1
    <2> QED
      BY <1>5, <2>1, <2>2 DEF Moved, Itself, t, id
  <1> QED
    BY <1>10, <1>11, <1>12, <1>13, <1>14, <1>15, <1>16 DEF ThreadStep

\* There is room for a training task that is not in the pool yet.
LEMMA Room ==
    ASSUME Calm, ExecInv, NEW k \in Trainings, NEW e \in Executors, k \notin pool[e]
    PROVE  available(e, k)
  <1>1. pool[e] \ PredictTasks \subseteq Trainings \ {k}
    BY DEF Trainings, ExecInv, ExecTyped
  <1>2. /\ IsFiniteSet(Trainings \ {k})
        /\ Cardinality(Trainings \ {k}) = Cardinality(Trainings) - 1
        /\ Cardinality(Trainings) \in Nat
    BY FS_RemoveElement, FS_CardinalityType DEF Calm
  <1>3. /\ Cardinality(pool[e] \ PredictTasks) <= Cardinality(Trainings \ {k})
        /\ Cardinality(pool[e] \ PredictTasks) \in Nat
    BY <1>1, <1>2, FS_Subset, FS_CardinalityType
  <1>4. TrainTaskLimit \in Nat /\ Cardinality(Trainings) <= TrainTaskLimit
    BY LimitAssumption DEF Calm
  <1>5. Cardinality(pool[e] \ PredictTasks) < TrainTaskLimit
    BY <1>2, <1>3, <1>4
  <1> QED
    BY <1>5 DEF available, Trainings

\* What a step must not do to a training task in its first attempt.
Kept(k) ==
    /\ ledger[k].status = TaskToProcess /\ ledger'[k].status = TaskToProcess /\ Untouched(k) =>
          Untouched(k)'
    /\ ledger[k].status = TaskProcessing /\ ledger'[k].status = TaskProcessing /\ Steady(k) =>
          Steady(k)' /\ \A e \in Executors : InCharge(e, k) => InCharge(e, k)'

\* The steps of a goroutine at work do not do it: it puts the task into the
\* pool, or finds it there, before it goes on, and leaves it only once it has
\* been reported.
LEMMA MoveKeeps ==
    ASSUME Calm, ExecInv, NEW k \in Trainings, NEW e \in Executors, NEW th \in Threads, Moved(e, th)
    PROVE  Kept(k)
  <1> DEFINE t == thread[e][th]
             u == thread'[e][th]
  <1>1. /\ pool \in [Executors -> SUBSET Tasks] /\ calc \in [Executors -> SUBSET Tasks]
        /\ k \in Tasks /\ Retry \in Threads
    BY ThreadNames DEF ExecInv, ExecTyped, Trainings
  <1>2. Around(e, th) /\ Itself(e, th)
        /\ \/ calc' = calc
           \/ t.pc = "start" /\ calc' = [calc EXCEPT ![e] = @ \cup {t.task}]
        /\ UNCHANGED <<retryList, up>>
    BY DEF Moved
  <1>3. ASSUME ledger[k].status = TaskToProcess, Untouched(k)
        PROVE  Untouched(k)'
    <2>1. t.task = k => t.pc \in {"idle", "list"}
      BY <1>3 DEF Untouched
    <2>2. \A e2 \in Executors : k \notin pool'[e2] \cup retryList'[e2] \cup calc'[e2]
      BY <1>1, <1>2, <1>3, <2>1 DEF Untouched, Itself
    <2>3. u.task = k => u.pc \in {"idle", "list"}
      BY <1>2, <2>1 DEF Itself
    <2>4. ASSUME NEW e2 \in Executors, NEW th2 \in Threads, e2 # e \/ th2 # th,
                 thread'[e2][th2].task = k
          PROVE  thread'[e2][th2].pc \in {"idle", "list"}
      <3>1. thread[e2][th2].task = k => thread[e2][th2].pc \in {"idle", "list"}
        BY <1>3 DEF Untouched
      <3>2. TaskToProcess # TaskProcessing
        BY DEF TaskToProcess, TaskProcessing
      <3> QED
        BY <1>2, <1>3, <2>4, <3>1, <3>2 DEF Around
    <2> QED
      BY <2>2, <2>3, <2>4 DEF Untouched
  <1>4. ASSUME ledger'[k].status = TaskProcessing, Steady(k)
        PROVE  Steady(k)' /\ \A e2 \in Executors : InCharge(e2, k) => InCharge(e2, k)'
    <2>1. /\ t.task = k => t.pc # "stop"
          /\ t.task = k /\ t.pc \in {"send", "wait", "start"} => k \in pool[e]
      BY <1>4 DEF Steady
    <2>2. \A e2 \in Executors : k \in pool[e2] => k \in pool'[e2]
      BY <1>1, <1>2, <2>1 DEF Itself
    <2>3. u.task = k => u.pc # "stop" /\ (u.pc \in {"send", "wait", "start"} => k \in pool'[e])
      BY <1>1, <1>2, <1>4, <2>1, <2>2 DEF Itself
    <2>4. ASSUME NEW e2 \in Executors, NEW th2 \in Threads, e2 # e \/ th2 # th,
                 thread'[e2][th2].task = k
          PROVE  /\ thread'[e2][th2].pc # "stop"
                 /\ thread'[e2][th2].pc \in {"send", "wait", "start"} => k \in pool'[e2]
      <3>1. thread[e2][th2].task = k =>
               /\ thread[e2][th2].pc # "stop"
               /\ thread[e2][th2].pc \in {"send", "wait", "start"} => k \in pool[e2]
        BY <1>4 DEF Steady
      <3> QED
        BY <1>2, <2>2, <2>4, <3>1 DEF Around
    <2>5. Steady(k)'
      BY <2>3, <2>4 DEF Steady
    <2>6. ASSUME t.task = k, t.pc \in AtWork
          PROVE  k \in pool'[e] \/ (u.task = k /\ u.pc \in AtWork)
      <3>1. t.pc = "avail" /\ k \notin pool[e] => available(e, k)
        BY Room
      <3> QED
        BY <1>1, <1>2, <1>4, <2>1, <2>2, <2>6, <3>1 DEF Itself, AtWork
    <2>7. ASSUME NEW e2 \in Executors, NEW th2 \in Threads, e2 # e \/ th2 # th,
                 thread[e2][th2].task = k, thread[e2][th2].pc \in AtWork
          PROVE  thread'[e2][th2].task = k /\ thread'[e2][th2].pc \in AtWork
      BY <1>2, <2>7 DEF Around, AtWork
    <2>8. ASSUME NEW e2 \in Executors, thread[e2][Retry].pc = "list"
          PROVE  thread'[e2][Retry].pc = "list"
      <3>1. e2 # e \/ Retry # th
        BY <1>2, <2>8 DEF Itself
      <3> QED
        BY <1>1, <1>2, <2>8, <3>1 DEF Around
    <2> QED
      BY <1>2, <2>2, <2>5, <2>6, <2>7, <2>8 DEF InCharge
  <1> QED
    BY <1>3, <1>4 DEF Kept

\* Neither does a goroutine that turns to a task in use.
LEMMA TurnKeeps ==
    ASSUME NEW O, ThreadsIn(O), NEW k \in Trainings, NEW e \in Executors, NEW th \in Threads, NEW x,
           thread' = [thread EXCEPT ![e][th] = x], thread[e][th].pc = "idle",
           x.task = k => /\ x.pc \in {"avail", "report"}
                         /\ k \in pool[e] \cup retryList[e] \cup calc[e],
           UNCHANGED <<pool, up>>,
           \A e2 \in Executors :
               /\ calc'[e2] \subseteq calc[e2] /\ retryList'[e2] \subseteq retryList[e2]
               /\ k \in retryList[e2] => k \in retryList'[e2] \/ (e2 = e /\ x.task = k)
    PROVE  Kept(k)
  <1>1. /\ thread'[e][th] = x
        /\ \A e2 \in Executors, th2 \in Threads :
              e2 # e \/ th2 # th => thread'[e2][th2] = thread[e2][th2]
    BY DEF ThreadsIn
  <1>2. Untouched(k) => Untouched(k)'
    <2> SUFFICES ASSUME Untouched(k) PROVE Untouched(k)'
      OBVIOUS
    <2>1. x.task # k
      BY DEF Untouched
    <2> QED
      BY <1>1, <2>1 DEF Untouched
  <1>3. Steady(k) => Steady(k)'
    BY <1>1 DEF Steady
  <1>4. ASSUME NEW e2 \in Executors, InCharge(e2, k) PROVE InCharge(e2, k)'
    <2>1. ASSUME k \in retryList[e2] PROVE InCharge(e2, k)'
      BY <1>1, <2>1 DEF InCharge, AtWork
    <2>2. ASSUME thread[e2][Retry].pc = "list" PROVE InCharge(e2, k)'
      <3>1. thread'[e2][Retry].pc = "list"
        BY <1>1, <2>2, ThreadNames
      <3> QED
        BY <3>1 DEF InCharge
    <2>3. ASSUME NEW th2 \in Threads, thread[e2][th2].task = k, thread[e2][th2].pc \in AtWork
          PROVE  InCharge(e2, k)'
      <3>1. thread'[e2][th2] = thread[e2][th2]
        BY <1>1, <2>3 DEF AtWork
      <3> QED
        BY <2>3, <3>1 DEF InCharge
    <2> QED
      BY <1>4, <2>1, <2>2, <2>3 DEF InCharge
  <1> QED
    BY <1>2, <1>3, <1>4 DEF Kept

\* Nothing else does: a node that crashes lists the Processing tasks when it is
\* restarted.
LEMMA TasksKept ==
    ASSUME Calm, ExecInv, WatchInv, [ExecNext]_vars, NEW k \in Trainings
    PROVE  Kept(k)
  <1>1. PICK O : ThreadsIn(O)
    BY DEF ExecInv, ExecTyped
  <1>2. /\ pool \in [Executors -> SUBSET Tasks] /\ calc \in [Executors -> SUBSET Tasks]
        /\ retryList \in [Executors -> SUBSET Tasks]
        /\ k \in Tasks /\ k \notin PredictTasks
        /\ Loop \in Threads /\ Retry \in Threads /\ \A id \in Tasks : MPC(id) \in Threads
    BY ThreadNames DEF ExecInv, ExecTyped, Trainings
  <1>3. ASSUME UNCHANGED <<pool, thread, retryList, up>>,
               \A e \in Executors : calc'[e] \subseteq calc[e]
        PROVE  Kept(k)
    BY <1>3 DEF Kept, Untouched, Steady, InCharge
  <1>4. CASE UNCHANGED vars
    BY <1>3, <1>4 DEF vars, execVars
  <1>5. ASSUME NEW id \in Tasks, ClientStart(id) PROVE Kept(k)
    BY <1>3, <1>5 DEF ClientStart, execVars
  <1>6. ASSUME NEW e \in Executors, NEW th \in Threads, ThreadStep(e, th) PROVE Kept(k)
    BY <1>6, ThreadStepIsMove, MoveKeeps DEF WatchInv, Calm
  <1>7. ASSUME NEW e \in Executors, NEW id \in Tasks,
               VisitConfirming(e, id) \/ DropResult(e, id) \/ SaveResultStops(e, id)
        PROVE  Kept(k)
    <2>1. /\ UNCHANGED <<pool, thread, retryList, up>>
          /\ calc' = calc \/ calc' = [calc EXCEPT ![e] = @ \ {id}]
      BY <1>7 DEF VisitConfirming, DropResult, SaveResultStops, MpcResult, execVars
    <2> QED
      BY <1>2, <1>3, <2>1
  <1>8. ASSUME NEW e \in Executors, NEW id \in Tasks, VisitToProcess(e, id) PROVE Kept(k)
    <2> DEFINE x == [Free EXCEPT !.pc = "avail", !.task = id]
    <2>1. x.task = id
      BY DEF Free
    <2>2. /\ thread[e][Loop].pc = "idle" /\ UNCHANGED <<pool, calc, retryList, up>>
          /\ UNCHANGED thread \/ thread' = [thread EXCEPT ![e][Loop] = x]
      BY <1>8 DEF VisitToProcess, At
    <2>3. CASE id = k
      <3>1. ledger[k].status = TaskToProcess /\ ledger'[k].status # TaskToProcess
        <4>1. DOMAIN ledger = Tasks /\ ledger[k] \in FLTask /\ ExecuteTask(k, e)
          BY <1>2, <1>8, <2>3 DEF VisitToProcess, ExecInv, ExecTyped, TypeOK, Published
        <4> QED
          BY <1>2, <4>1 DEF ExecuteTask, FLTask, TaskToProcess, TaskProcessing
      <3> QED
        BY <3>1 DEF Kept, TaskToProcess, TaskProcessing
    <2> HIDE DEF x
    <2>4. CASE id # k /\ thread' = [thread EXCEPT ![e][Loop] = x]
      BY <1>1, <1>2, <2>1, <2>2, <2>4, TurnKeeps
    <2> QED
      BY <1>3, <2>2, <2>3, <2>4
  <1>9. ASSUME NEW e \in Executors, NEW id \in Tasks, VisitProcessing(e, id) PROVE Kept(k)
    <2> DEFINE x == [Free EXCEPT !.pc = "avail", !.task = id]
    <2>1. x.task = id /\ x.pc = "avail"
      BY DEF Free
    <2>2. /\ thread[e][Retry].pc = "idle" /\ UNCHANGED <<pool, calc, up>>
          /\ id \in retryList[e] /\ retryList' = [retryList EXCEPT ![e] = @ \ {id}]
          /\ thread' = [thread EXCEPT ![e][Retry] = x]
      BY <1>9 DEF VisitProcessing, At
    <2>3. \A e2 \in Executors :
             /\ retryList'[e2] \subseteq retryList[e2]
             /\ k \in retryList[e2] => k \in retryList'[e2] \/ (e2 = e /\ id = k)
      BY <1>2, <2>2
    <2> HIDE DEF x
    <2> QED
      BY <1>1, <1>2, <2>1, <2>2, <2>3, TurnKeeps
  <1>10. ASSUME NEW e \in Executors, NEW id \in Tasks, CheckMpcTimeOutTasks(e, id) PROVE Kept(k)
    <2> DEFINE x == Failed([Free EXCEPT !.task = id])
    <2>1. x.task = id /\ x.pc = "report"
      BY DEF Free, Failed
    <2>2. /\ thread[e][Loop].pc = "idle" /\ UNCHANGED <<pool, calc, retryList, up>>
          /\ id \in pool[e] /\ thread' = [thread EXCEPT ![e][Loop] = x]
      BY <1>10 DEF CheckMpcTimeOutTasks, At
    <2> HIDE DEF x
    <2> QED
      BY <1>1, <1>2, <2>1, <2>2, TurnKeeps
  <1>11. ASSUME NEW e \in Executors, NEW id \in Tasks, SaveModel(e, id) \/ SavePredictOut(e, id)
         PROVE  Kept(k)
    <2>1. /\ thread[e][MPC(id)].pc = "idle" /\ UNCHANGED <<pool, retryList, up>>
          /\ id \in calc[e] /\ calc' = [calc EXCEPT ![e] = @ \ {id}]
          /\ \E pc, err, r :
                /\ thread' = [thread EXCEPT ![e][MPC(id)] =
                                [Free EXCEPT !.pc = pc, !.task = id, !.err = err, !.res = r]]
                /\ id # k \/ pc = "report"
      <3>1. CASE SaveModel(e, id)
        BY <3>1 DEF SaveModel, MpcResult, At, Callback
      <3>2. CASE SavePredictOut(e, id)
        <4>1. id # k
          BY <1>2, <3>2 DEF SavePredictOut
        <4> QED
          BY <3>2, <4>1 DEF SavePredictOut, MpcResult, At, Callback
      <3> QED
        BY <1>11, <3>1, <3>2
    <2>2. PICK pc, err, r :
                /\ thread' = [thread EXCEPT ![e][MPC(id)] =
                                [Free EXCEPT !.pc = pc, !.task = id, !.err = err, !.res = r]]
                /\ id # k \/ pc = "report"
      BY <2>1
    <2> DEFINE x == [Free EXCEPT !.pc = pc, !.task = id, !.err = err, !.res = r]
    <2>3. x.task = id /\ x.pc = pc
      BY DEF Free
    <2>4. \A e2 \in Executors : calc'[e2] \subseteq calc[e2]
      BY <1>2, <2>1
    <2>5. thread' = [thread EXCEPT ![e][MPC(id)] = x]
      BY <2>2
    <2> HIDE DEF x
    <2>6. x.task = k => /\ x.pc \in {"avail", "report"}
                        /\ k \in pool[e] \cup retryList[e] \cup calc[e]
      BY <2>1, <2>2, <2>3
    <2>7. /\ UNCHANGED <<pool, up>> /\ thread[e][MPC(id)].pc = "idle" /\ MPC(id) \in Threads
          /\ \A e2 \in Executors :
                /\ calc'[e2] \subseteq calc[e2] /\ retryList'[e2] \subseteq retryList[e2]
                /\ k \in retryList[e2] => k \in retryList'[e2] \/ (e2 = e /\ x.task = k)
      BY <1>2, <2>1, <2>4
    <2> QED
      BY <1>1, <2>5, <2>6, <2>7, TurnKeeps
  <1>12. ASSUME NEW e \in Executors, RetryProcessingTask(e) PROVE Kept(k)
    <2>1. /\ thread[e][Retry].pc = "list"
          /\ UNCHANGED <<chainVars, pool, calc, up>>
          /\ retryList' = [retryList EXCEPT ![e] = ListTask(e, TaskProcessing)]
          /\ thread' = [thread EXCEPT ![e][Retry] = Free]
      BY <1>12 DEF RetryProcessingTask, At, Leave
    <2>2. /\ thread'[e][Retry].pc = "idle"
          /\ \A e2 \in Executors, th2 \in Threads :
                e2 # e \/ th2 # Retry => thread'[e2][th2] = thread[e2][th2]
      BY <1>1, <1>2, <2>1 DEF ThreadsIn, Free
    <2>3. k \in ListTask(e, TaskProcessing) <=> ledger[k].status = TaskProcessing
      <3>1. k \in Published /\ e \in Parties(k)
        BY <1>2 DEF ExecInv, ExecTyped, AllParties
      <3> QED
        BY <3>1 DEF ListTask, checkExecutor, Parties
    <2>4. TaskToProcess # TaskProcessing
      BY DEF TaskToProcess, TaskProcessing
    <2>5. ledger[k].status = TaskToProcess /\ Untouched(k) => Untouched(k)'
      BY <1>2, <2>1, <2>2, <2>3, <2>4 DEF Untouched
    <2>6. Steady(k) => Steady(k)'
      BY <2>1, <2>2 DEF Steady
    <2>7. ASSUME ledger[k].status = TaskProcessing, NEW e2 \in Executors, InCharge(e2, k)
          PROVE  InCharge(e2, k)'
      <3>1. CASE e2 = e
        BY <1>2, <2>1, <2>3, <2>7, <3>1 DEF InCharge
      <3>2. CASE e2 # e
        <4>1. pool'[e2] = pool[e2] /\ retryList'[e2] = retryList[e2] /\ up' = up
          BY <1>2, <2>1, <3>2
        <4>2. \A th2 \in Threads : thread'[e2][th2] = thread[e2][th2]
          BY <2>2, <3>2
        <4> QED
          BY <1>2, <2>7, <4>1, <4>2 DEF InCharge
      <3> QED
        BY <3>1, <3>2
    <2> QED
      BY <2>5, <2>6, <2>7 DEF Kept
  <1>13. ASSUME NEW e \in Executors, Crash(e) PROVE Kept(k)
    <2>1. /\ pool' = [pool EXCEPT ![e] = {}] /\ calc' = [calc EXCEPT ![e] = {}]
          /\ retryList' = [retryList EXCEPT ![e] = {}] /\ up' = up \ {e}
          /\ thread' = [thread EXCEPT ![e] = [th \in Threads |-> Free]]
      BY <1>13 DEF Crash
    <2>2. /\ \A th \in Threads : thread'[e][th].pc = "idle"
          /\ \A e2 \in Executors, th2 \in Threads :
                e2 # e => thread'[e2][th2] = thread[e2][th2]
      BY <1>1, <2>1 DEF ThreadsIn, Free
    <2>3. /\ pool'[e] = {} /\ calc'[e] = {} /\ retryList'[e] = {} /\ e \notin up'
          /\ \A e2 \in Executors : e2 # e =>
                /\ pool'[e2] = pool[e2] /\ calc'[e2] = calc[e2] /\ retryList'[e2] = retryList[e2]
                /\ e2 \in up' <=> e2 \in up
      BY <1>2, <2>1
    <2>4. Untouched(k) => Untouched(k)'
      BY <2>2, <2>3 DEF Untouched
    <2>5. Steady(k) => Steady(k)'
      BY <2>2, <2>3 DEF Steady
    <2>6. ASSUME NEW e2 \in Executors, InCharge(e2, k) PROVE InCharge(e2, k)'
      <3>1. CASE e2 = e
        BY <2>3, <3>1 DEF InCharge
      <3>2. CASE e2 # e
        BY <1>2, <2>2, <2>3, <2>6, <3>2 DEF InCharge
      <3> QED
        BY <3>1, <3>2
    <2> QED
      BY <2>4, <2>5, <2>6 DEF Kept
  <1>14. ASSUME NEW e \in Executors, Restart(e) PROVE Kept(k)
    <2>1. /\ UNCHANGED <<pool, calc, retryList>> /\ up' = up \cup {e}
          /\ thread' = [thread EXCEPT ![e][Retry] = [Free EXCEPT !.pc = "list"]]
      BY <1>14 DEF Restart
    <2>2. /\ thread'[e][Retry].pc = "list"
          /\ \A e2 \in Executors, th2 \in Threads :
                e2 # e \/ th2 # Retry => thread'[e2][th2] = thread[e2][th2]
      BY <1>1, <1>2, <2>1 DEF ThreadsIn, Free
    <2>3. Untouched(k) => Untouched(k)'
      BY <2>1, <2>2 DEF Untouched
    <2>4. Steady(k) => Steady(k)'
      BY <2>1, <2>2 DEF Steady
    <2>5. ASSUME NEW e2 \in Executors, InCharge(e2, k) PROVE InCharge(e2, k)'
      <3>1. CASE e2 = e
        BY <2>2, <3>1 DEF InCharge
      <3>2. CASE e2 # e
        BY <1>2, <2>1, <2>2, <2>5, <3>2 DEF InCharge
      <3> QED
        BY <3>1, <3>2
    <2> QED
      BY <2>3, <2>4, <2>5 DEF Kept
  <1> QED
    BY <1>4, <1>5, <1>6, <1>7, <1>8, <1>9, <1>10, <1>11, <1>12, <1>13, <1>14 DEF ExecNext

\* Who invokes the contract, and what is counted.
LEMMA Invocations ==
    ASSUME ExecTyped, [ExecNext]_vars
    PROVE  \/ \E id \in Tasks : ClientStart(id)
           \/ /\ starts' = starts /\ chainErrors' \in {chainErrors, chainErrors + 1}
              /\ \/ UNCHANGED chainVars
                 \/ \E id \in Tasks, e \in Executors : ConfirmTask(id, e)
                 \/ \E id \in Tasks, e \in Executors : VisitToProcess(e, id)
                 \/ \E id \in Tasks, e \in Executors : \E err, res : FinishTask(id, e, err, res)
  <1> DEFINE Counted == starts' = starts /\ chainErrors' \in {chainErrors, chainErrors + 1}
  <1>1. ChainError => Counted
    BY DEF ChainError
  <1>2. UNCHANGED counters => Counted
    BY DEF counters
  <1> HIDE DEF Counted
  <1>3. ASSUME NEW e \in Executors, NEW th \in Threads, ThreadStep(e, th)
        PROVE  /\ Counted
               /\ \/ UNCHANGED chainVars
                  \/ \E id \in Tasks : \E err, res : FinishTask(id, e, err, res)
    <2>1. CASE UpdateTaskFinishStatus(e, th)
      <3>1. /\ Counted
            /\ \/ UNCHANGED chainVars
               \/ FinishTask(thread[e][th].task, e, thread[e][th].err, thread[e][th].res)
        BY <1>1, <1>2, <2>1 DEF UpdateTaskFinishStatus, counters
      <3>2. FinishTask(thread[e][th].task, e, thread[e][th].err, thread[e][th].res)
              => thread[e][th].task \in Tasks
        BY DEF FinishTask, ExecTyped
      <3> QED
        BY <3>1, <3>2
    <2>2. CASE ~ UpdateTaskFinishStatus(e, th)
      BY <1>2, <1>3, <2>2 DEF ThreadStep, CountTasks, AddTask, SendStartRequest, StartRequestFails,
                              StartMpcTask, stopLocalMpcTask
    <2> QED
      BY <2>1, <2>2
  <1>4. ASSUME NEW e \in Executors, NEW id \in Tasks,
               \/ VisitProcessing(e, id) \/ CheckMpcTimeOutTasks(e, id) \/ DropResult(e, id)
               \/ SaveModel(e, id) \/ SavePredictOut(e, id) \/ SaveResultStops(e, id)
        PROVE  Counted /\ UNCHANGED chainVars
    BY <1>2, <1>4 DEF VisitProcessing, CheckMpcTimeOutTasks, DropResult, SaveModel, SavePredictOut,
                      SaveResultStops, MpcResult
  <1>5. ASSUME NEW e \in Executors, NEW id \in Tasks, VisitConfirming(e, id)
        PROVE  Counted /\ ConfirmTask(id, e)
    BY <1>2, <1>5 DEF VisitConfirming
  <1>6. ASSUME NEW e \in Executors, NEW id \in Tasks, VisitToProcess(e, id)
        PROVE  Counted
    BY <1>1, <1>2, <1>6 DEF VisitToProcess
  <1>7. ASSUME NEW e \in Executors, RetryProcessingTask(e) \/ Crash(e) \/ Restart(e)
        PROVE  starts' = starts /\ chainErrors' = chainErrors /\ UNCHANGED chainVars
    BY <1>7 DEF RetryProcessingTask, Crash, Restart, counters
  <1>8. ASSUME UNCHANGED vars
        PROVE  starts' = starts /\ chainErrors' = chainErrors /\ UNCHANGED chainVars
    BY <1>8 DEF vars
  <1> QED
    BY <1>3, <1>4, <1>5, <1>6, <1>7, <1>8 DEF ExecNext, Counted

\* What becomes of the status of a task in a step: every start is the client's,
\* and it is set to Processing by the visit of a monitor.
StatusStep(k) ==
    \/ ledger'[k].status = ledger[k].status
    \/ ~ InUse(k)'
    \/ ledger'[k].status = TaskToProcess /\ ClientStart(k)
    \/ /\ ledger[k].status = TaskToProcess /\ ledger'[k].status = TaskProcessing
       /\ \E e \in Executors : VisitToProcess(e, k)
    \/ ledger[k].status = TaskProcessing /\ ledger'[k].status \in {TaskFinished, TaskFailed}

LEMMA StatusMoves ==
    ASSUME ExecInv, [ExecNext]_vars, NEW k \in Tasks
    PROVE  StatusStep(k)
  <1> USE DEF TaskConfirming, TaskReady, TaskToProcess, TaskProcessing, TaskFinished, TaskFailed,
              TaskRejected
  <1>1. DOMAIN ledger = Tasks /\ \A id \in Tasks : ledger[id] \in FLTask
    BY DEF ExecInv, ExecTyped, TypeOK, Published
  <1>2. CASE UNCHANGED chainVars
    BY <1>2 DEF chainVars, StatusStep
  <1>3. ASSUME NEW id \in Tasks, NEW e \in Executors, ConfirmTask(id, e) PROVE StatusStep(k)
    <2>1. ledger'[k].status = ledger[k].status \/ ledger'[k].status \in {TaskConfirming, TaskReady}
      BY <1>1, <1>3 DEF ConfirmTask, CanConfirm, FLTask
    <2> QED
      BY <2>1 DEF StatusStep, InUse
  <1>4. ASSUME NEW id \in Tasks, ClientStart(id) PROVE StatusStep(k)
    <2>1. IF id = k THEN ledger'[k].status = TaskToProcess ELSE ledger'[k] = ledger[k]
      BY <1>1, <1>4 DEF ClientStart, StartTask, FLTask
    <2> QED
      BY <1>4, <2>1 DEF StatusStep
  <1>5. ASSUME NEW id \in Tasks, NEW e \in Executors, VisitToProcess(e, id) PROVE StatusStep(k)
    <2>1. IF id = k THEN ledger[k].status = TaskToProcess /\ ledger'[k].status = TaskProcessing
                    ELSE ledger'[k] = ledger[k]
      BY <1>1, <1>5 DEF VisitToProcess, ExecuteTask, FLTask
    <2> QED
      BY <1>5, <2>1 DEF StatusStep
  <1>6. ASSUME NEW id \in Tasks, NEW e \in Executors, NEW err, NEW res, FinishTask(id, e, err, res)
        PROVE  StatusStep(k)
    <2>1. IF id = k
          THEN ledger[k].status = TaskProcessing /\ ledger'[k].status \in {TaskFinished, TaskFailed}
          ELSE ledger'[k] = ledger[k]
      BY <1>1, <1>6 DEF FinishTask, FLTask
    <2> QED
      BY <2>1 DEF StatusStep
  <1> QED
    BY <1>2, <1>3, <1>4, <1>5, <1>6, Invocations DEF ExecInv

\* A task is set to Processing by a goroutine that then sees to it.
LEMMA ProcessingBegins ==
    ASSUME Calm, ExecInv, WatchInv, NEW k \in Trainings, Untouched(k),
           NEW e \in Executors, VisitToProcess(e, k)
    PROVE  Steady(k)' /\ \E f \in Executors : InCharge(f, k)'
  <1>1. PICK O : ThreadsIn(O)
    BY DEF ExecInv, ExecTyped
  <1> DEFINE x == [Free EXCEPT !.pc = "avail", !.task = k]
  <1>2. x.task = k /\ x.pc = "avail" /\ Loop \in Threads
    BY ThreadNames DEF Free
  <1>3. thread' = [thread EXCEPT ![e][Loop] = x]
    <2>1. ~ ChainError
      BY DEF ChainError, Calm, WatchInv
    <2> QED
      BY <2>1 DEF VisitToProcess
  <1> HIDE DEF x
  <1>4. /\ thread'[e][Loop] = x
        /\ \A e2 \in Executors, th2 \in Threads :
              e2 # e \/ th2 # Loop => thread'[e2][th2] = thread[e2][th2]
    BY <1>1, <1>2, <1>3 DEF ThreadsIn
  <1>5. Steady(k)'
    BY <1>2, <1>4 DEF Steady, Untouched
  <1>6. InCharge(e, k)'
    BY <1>2, <1>4 DEF InCharge, AtWork
  <1> QED
    BY <1>5, <1>6

\* A task that is not in use is in no pool and with no goroutine.
LEMMA UnusedIsUntouched ==
    ASSUME ExecInv, NEW k \in Trainings, ~ InUse(k)
    PROVE  Untouched(k)
  BY DEF ExecInv, UseInv, ThreadsGood, Good, Untouched

\* The first start of a task touches nothing.
LEMMA StartTouchesNothing ==
    ASSUME NEW k \in Trainings, NEW id \in Tasks, ClientStart(id), Untouched(k)
    PROVE  Untouched(k)'
  BY DEF ClientStart, execVars, Untouched

LEMMA WatchStep ==
    ASSUME Calm, ExecInv, WatchInv, [ExecNext]_vars
    PROVE  WatchInv'
  <1> USE DEF TaskConfirming, TaskReady, TaskToProcess, TaskProcessing, TaskFinished, TaskFailed,
              TaskRejected
  <1>1. /\ starts \in [Tasks -> Nat] /\ chainErrors \in Nat
        /\ \A k \in Tasks : InUse(k) => starts[k] >= 1
        /\ \A k \in Tasks : StatusStep(k)
    BY StatusMoves DEF WatchInv
  <1>2. ASSUME NEW id \in Tasks, ClientStart(id)
        PROVE  starts' = [starts EXCEPT ![id] = @ + 1] /\ chainErrors' = chainErrors
    BY <1>2 DEF ClientStart
  <1>3. /\ starts' \in [Tasks -> Nat] /\ chainErrors' \in Nat
        /\ \A k \in Tasks : starts'[k] >= starts[k]
    BY <1>1, <1>2, Invocations DEF ExecInv
  <1>4. ASSUME NEW k \in Tasks, InUse(k)' PROVE starts'[k] >= 1
    <2>1. CASE ClientStart(k)
      BY <1>1, <1>2, <2>1
    <2>2. CASE ~ ClientStart(k)
      <3>1. InUse(k)
        BY <1>1, <1>4, <2>2 DEF StatusStep, InUse
      <3> QED
        BY <1>1, <1>3, <3>1
    <2> QED
      BY <2>1, <2>2
  <1>5. ASSUME NEW k \in Trainings, starts'[k] <= 1
        PROVE  /\ ledger'[k].status = TaskToProcess => Untouched(k)'
               /\ ledger'[k].status = TaskProcessing =>
                     Steady(k)' /\ \E e \in Executors : InCharge(e, k)'
    <2>1. k \in Tasks /\ starts[k] <= 1 /\ Kept(k)
      BY <1>1, <1>3, <1>5, TasksKept DEF Trainings
    <2>2. /\ ledger[k].status = TaskToProcess => Untouched(k)
          /\ ledger[k].status = TaskProcessing => Steady(k) /\ \E e \in Executors : InCharge(e, k)
      BY <2>1 DEF WatchInv, FirstTry
    <2>3. CASE ledger'[k].status = TaskToProcess
      <3>1. CASE ledger[k].status = TaskToProcess
        BY <2>1, <2>2, <2>3, <3>1 DEF Kept
      <3>2. CASE ledger[k].status # TaskToProcess
        <4>1. ClientStart(k)
          BY <1>1, <2>1, <2>3, <3>2 DEF StatusStep, InUse
        <4>2. starts[k] = 0
          BY <1>1, <1>2, <1>5, <2>1, <4>1
        <4>3. ~ InUse(k)
          BY <1>1, <2>1, <4>2
        <4> QED
          BY <2>1, <2>3, <4>1, <4>3, UnusedIsUntouched, StartTouchesNothing
      <3> QED
        BY <3>1, <3>2
    <2>4. CASE ledger'[k].status = TaskProcessing
      <3>1. CASE ledger[k].status = TaskProcessing
        BY <2>1, <2>2, <2>4, <3>1 DEF Kept
      <3>2. CASE ledger[k].status # TaskProcessing
        <4>1. ledger[k].status = TaskToProcess /\ \E e \in Executors : VisitToProcess(e, k)
          BY <1>1, <2>1, <2>4, <3>2 DEF StatusStep, InUse
        <4> QED
          BY <2>2, <2>4, <4>1, ProcessingBegins
      <3> QED
        BY <3>1, <3>2
    <2> QED
      BY <2>3, <2>4
  <1> QED
    BY <1>3, <1>4, <1>5 DEF WatchInv, FirstTry

\* A training task that is Processing for the first time is watched by some
\* executor, as long as the pools have room for all training tasks
\* (TrainTaskLimit) and the chain answers, across crashes of any of them: the
\* monitor's goroutines (loopRequest, RetryProcessingTask), its RPCs and the time
\* outs do not leave it to each other.
THEOREM TrainingsAreWatched ==
    ASSUME Calm
    PROVE  ExecSpec =>
              [](\A id \in Trainings :
                    ledger[id].status = TaskProcessing /\ starts[id] <= 1 => Watched(id))
  <1>1. ExecInit => WatchInv
    <2> SUFFICES ASSUME ExecInit PROVE WatchInv
      OBVIOUS
    <2>1. \A id \in Tasks : ledger[id].status = TaskConfirming
      BY DEF ExecInit, NewTask
    <2> QED
      BY <2>1 DEF ExecInit, WatchInv, FirstTry, Trainings, InUse, TaskConfirming, TaskToProcess,
                  TaskProcessing, TaskFinished, TaskFailed
  <1>2. ExecInv /\ WatchInv /\ [ExecNext]_vars => WatchInv'
    BY WatchStep
  <1>3. ExecInv /\ WatchInv =>
            (\A id \in Trainings :
                ledger[id].status = TaskProcessing /\ starts[id] <= 1 => Watched(id))
    <2> SUFFICES ASSUME ExecInv, WatchInv, NEW id \in Trainings,
                        ledger[id].status = TaskProcessing, starts[id] <= 1
                 PROVE  Watched(id)
      OBVIOUS
    <2>1. PICK e \in Executors : InCharge(e, id)
      BY DEF WatchInv, FirstTry
    <2>2. e \in Parties(id)
      BY DEF ExecInv, AllParties, Trainings
    <2> QED
      BY <2>1, <2>2 DEF Watched, InCharge, AtWork
  <1> QED
    BY <1>1, <1>2, <1>3, ExecStart, ExecStep, PTL DEF ExecSpec

\* Where executors only train, no Processing task is abandoned in its first
\* attempt (ProcessingIsWatched), what task.go:242 sets out to prevent.
THEOREM NoneIsAbandoned ==
    ASSUME Calm, PredictTasks = {}
    PROVE  ExecSpec => []ProcessingIsWatched
  <1>1. (\A id \in Trainings : ledger[id].status = TaskProcessing /\ starts[id] <= 1 => Watched(id))
          => ProcessingIsWatched
    BY DEF Trainings, ProcessingIsWatched
  <1> QED
    BY <1>1, TrainingsAreWatched, PTL
==============================================================================
