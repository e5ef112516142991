# A TLA+ model of PaddleDTX

PaddleDTX is a decentralised platform for storing sample files (XuperDB, `src/xdb`) and for training
and predicting with them across owners (Distributed AI, `src/dai`). This directory holds TLA+ modules
translated from the code, the TLC configurations that check them, and proofs for TLAPS.
`PROJECT.json` lists every component, run, mutant, mapped definition, finding, hazard and theorem.

## 1. The system

| Part | State | Operations | Talks to |
|---|---|---|---|
| Task contract (`dai/blockchain/xchain/contract/task.go`) | one record per task: status, data sets with their answers, times, message, result | PublishTask, ConfirmTask, RejectTask, StartTask, ExecuteTask, FinishTask, ListTask | invoked by requesters and executors; invocations are atomic and ordered |
| Requester client (`dai/requester/client`) | none | checks and publishes tasks, starts them | task contract |
| Task monitor (`dai/executor/monitor/task.go`) | none but its goroutines | loop: confirm, start, time out; once at start: retry Processing tasks | contract, MPC handler |
| MPC handler (`dai/executor/handler/mpc.go`) | the execution pool `MpcTasks` behind a lock | add, start (with RPCs to the other parties), time out, save results, report, stop | contract, `Mpc`, other executors |
| Executor engine (`dai/executor/engine`) | - | start-task RPC, start and stop of the node | MPC handler |
| Mpc, trainer, predictor (`dai/mpc/mpc.go`, `trainer`, `predictor`) | tables of learners and models by task | start, stop, dispatch of messages, SaveResult | handler by callback, learners |
| Vertical learners (`dai/mpc/learners/linear_reg_vl`, `logic_reg_vl`, `dai/mpc/psi`) | status, round, process of a round | 20 message types, local and remote | the learner of the other party, trainer |
| Evaluators (`dai/mpc/evaluator`, `livaluator`) | split, results of k learners and models | start, pause, continue, collect | mpc, learners |
| Models (`dai/mpc/models`) | status, alignment, parts | predict | the other party's model |
| xdb contracts (`xdb/blockchain/xchain/contract/core`) | files, namespaces, slices, nodes, heartbeats, challenges, authorization applications | one handler each | data owners, storage nodes, executors |
| Data owner (`xdb/engine`) | - | write (a pipeline of goroutines), read, namespaces, authorization; monitors: challenge requests, migration, replica expansion | contracts, storage nodes |
| Storage node (`xdb/engine`) | slices on disk | push, pull; monitors: heartbeats, challenge answers, clearing of expired slices | contracts |

**What is hard.** Nothing is sent over ordered channels. An executor is a handful of goroutines that
share a map; what they read of it and of the chain is stale when they act. Two executors run the same
task, each may time out, crash and be restarted, the requester may start a failed task again, and
neither requests, computations nor reports carry the attempt they belong to. A learner has no loop:
every message to itself is a goroutine, every message to its peer a blocking call that is tried three
times, and the round is compared without a lock. In xdb, bounded queues connect goroutines that fail
separately, and owners rewrite slice lists that they read earlier.

**What makes it correct.**
- Contract: status, answers, times and messages agree; answers are final, and only a failed task goes back.
- Executors: samples are only used for tasks that all parties agreed to; Finished means that a model
  is stored; a Processing task has someone in charge, ends, and leaves the pools.
- Learners: data of two rounds are not mixed; no calculation lacks its inputs; both parties stop at
  the same round, with one model each; the training ends. (A learner that overtakes the handler of a
  message breaks the first and the third, section 5.)
- After training: a model is scored with all folds or none; every share is there when it is used (that
  it has been written to the end is not ensured, section 5); a prediction that is reported was
  delivered; a task in which nothing fails is answered.
- xdb: what the chain lists is stored, on distinct nodes and under distinct indexes; the authorization
  that nodes and executors look at is in force whenever any is; what is published is whole and in order;
  writes return; challenges are judged once and fairly; a node's status and health are what it has earned.
- Arithmetic: encrypted vertical regression is plain regression, except that the linear one takes the
  features of the party without the label to the nearest whole number (section 5); both parties work on
  the same samples; secrets, trees, roots and slices come back as they went in.

## 2. Modules

| Module | Models | Extends |
|---|---|---|
| `FLTaskContract` | the task contract under any sequence of invocations | |
| `TaskExecution` | monitor, engine, MPC handler and pool of every executor on top of the contract | `FLTaskContract` |
| `VLLearner` | two learners: alignment, key exchange, rounds, stop, hand-over | |
| `Evaluation` | k-fold evaluation of a trained model by two parties | |
| `DNNTask` | training and prediction of three parties with PaddleFL | |
| `Prediction` | a vertical prediction of two parties | |
| `FileContract` | namespaces, files, names, slice lists and the nodes' slice index of the xdb contract | |
| `SliceMaintenance` | migration, replica expansion, clearing of expired slices, health of files | `FileContract` |
| `FileAccess` | applications for files, the owner's answers, the executor's download, the storage nodes' check | `FileContract` |
| `WritePipeline` | the goroutines and queues of one write | |
| `StorageProof` | abstract: what the challenge protocol promises | |
| `Challenges` | requests, material, answers, verdicts, extension, moves, health; implements `StorageProof` | |
| `NodeHealth` | registration, online status, heartbeats, health of one storage node | |
| `VerticalRegression` | the arithmetic of a round and of a prediction, over Paillier, against plain regression | |
| `SampleSets` | alignment, batches, folds, scores | |
| `DecisionTree` | growth, pruning and use of a classification tree | |
| `Primitives` | secret sharing, oblivious transfer, Merkle roots, pairing proofs, slicing and reading back | |
| `..._proofs` | theorems about `TaskExecution` (with `FLTaskContract`), `VLLearner`, `FileAccess` (with `FileContract`), `SliceMaintenance`, `WritePipeline`, `Challenges` and `NodeHealth`; `Protocols_proofs` about `Evaluation`, `DNNTask` and `Prediction` | the module, TLAPS and its library |
| `MC...` | instances for TLC. `MCProtocols` runs one of Evaluation, DNNTask and Prediction, `MCAlgorithms` one case of an algorithm or one storage node | |

### FLTaskContract

`ledger` maps the published tasks to their records, `files` is the set of data ids that the file
contract knows. One action per method; `setTaskConfirmStatus` is split into `ConfirmTask` and
`RejectTask` with the common guard `CanConfirm`, `setTaskExecuteStatus` into `ExecuteTask` and
`FinishTask`. Times are abstracted to 0 (unset) and 1, since the code only tells these apart.
Signatures are taken to be valid, so that an action stands for an invocation by the named party.
`AddFile` stands for the file contract.

### TaskExecution

Each executor has a loop, a retry goroutine, one RPC handler per task and one callback per task.
`thread[e][th]` is where a goroutine is; its steps end where another goroutine can come between:

| pc | next step | code |
|---|---|---|
| `avail` | `CountTasks` | `GetAvailableTasksNum` under the read lock |
| `add` | `AddTask` | insertion under the write lock, then `getMpcStartTaskParam` |
| `send`, `wait` | `SendStartRequest`, `StartRequestFails` | `sendTaskStartRequest` to the parties, one after the other |
| `start` | `StartMpcTask` | `Mpc.StartTask` |
| `report` | `UpdateTaskFinishStatus` | the invocation of FinishTask |
| `stop` | `stopLocalMpcTask` | `Mpc.StopTask`, deletion from the pool |

`calc` holds computations that may still report, also after their learner was deleted; `lateStop` the
asynchronous `StopTask` that follows a result. A crash keeps the chain and the stored models only.
A chain error may come with or without the effect of the invocation. Clocks are left out: a task in the
pool may time out at any visit of the loop.

### VLLearner

`go[p]` is the bag of goroutines of party p, each with its message, its round, and where it is (new,
past the comparison of rounds, in a call with its number of failed tries). `proc[p]` is the `process`:
ciphertexts are abstracted to the round that they were calculated in, parameters to the number of
updates since `init`, the stop criterion to a choice that round 0 cannot meet. A call is answered
(`Deliver`), refused, finds no learner yet or no more, or times out, in which case it may be executed at
any later time too (`late`). The code compares the round of a message without a lock and enters the process
afterwards (`linear_reg_vl.go:422`, `:471`, `:515`, `:564`): a goroutine can be held in between
(`Suspend`), and so can the handler of a remote message (`Hold`, `LateHold`). If its learner has
gone on to the next round by then, the message is set in that round all the same, and the fault
`overtaken` is recorded. The second comparison, after a part was set (`PartBytes`), is in the same step as
the setting.
A goroutine that has not compared its round yet and can only find another one ends at once when the
learner enters the next round (`EntersRound`); since it would do nothing else, its order does not matter.
`logic_reg_vl` differs from `linear_reg_vl` in arithmetic, logging and comments only; the
definitions stand for both, and the map points to the one or the other.

### xdb modules

`FileContract` is one owner's view of the contract; time stamps are the time of the invocation, and a
refused invocation writes nothing. `SliceMaintenance` follows one file: `worker` holds what the
migration loop and the handler of UpdateNsReplica have read and not written back yet. A step ends at
every read of the chain, at every slice that is worked on, and at the write. `clearTime` is the stored
end of the range that a node has cleared. `FileAccess` has one owner and one executor of type Proxy:
monitor, ConfirmAuth and the download each read in one step and act in a later one; a key is the set of
(slice, node) pairs it opens; `moves` are the slices and the nodes that they were moved to. `WritePipeline` has one variable per channel and, for each stage, the
number of workers that have not returned; a push ends well, does not reach the node, is refused, is
broken off, or loses its answer, and the reader of a retry keeps what the push before it left.
`Challenges` follows one file, with merkle ranges as a number that is left and pairing rounds as times
with a sigma, each marked if it was made from a damaged copy; the health of a node is taken from the
challenges and heartbeats of the last `HealthDays` whole days before today, as `GetHeartBeatStats` has it,
and the length of a segment of rounds is a constant (`SegmentSize`), below which no goroutines run side by
side. `NodeHealth` keeps the node by id and
in the list, as the contract does.

**Refinement.** `StorageProof` has five variables: whether proofs sample, which copies are damaged,
which have material from damaged content, what was asked, and the verdicts. `Challenges` maps to it
(`Abstract`), and `ImplementsStorageProof` is the abstract specification as a property of the detailed one:
a question is judged once, undamaged copies do not fail, damaged ones do not pass a whole-slice proof
unless the owner renewed the material from them.

### Protocols after training

`Evaluation` has one record per goroutine: callbacks between trainer, evaluator and predictor run in
goroutines, starts and stops are serialised by `mpc.run`. A fold that `mpc.StartTask` refuses makes its
party panic (`StartRefused`: the error that is formatted is another one, and nil), scores that cannot be
calculated end the evaluation in silence (`ScoreFails`). `DNNTask` has flags for goroutines with the
same message and counts files in a folder as the code does; the container is external. A file that is
received is created in one step, and counted from then on, and written to the end in a later one
(`Exchange` and `ExchangeWrites`, `ResultExchange` and `ResultWrites`, and `Encrypting` for the command
that writes a party's own share where it is counted); `partial` and `cut` are the files in between.
`Prediction`
counts goroutines per message; a call is answered, loses its answer, or gets nowhere, up to three times.

### Algorithms

One step calculates one case; a tree grows node by node. Reals are multiples of a fraction, ciphertexts
what they decrypt to modulo the key, points of a curve their discrete logarithm, Gini indices fractions.
The properties compare with reference definitions that do not follow the code: one learner with all
features, sets of ids, counts over the whole file, the rank statistic for the area below the curve.

## 3. Runs

All runs use two workers; state counts are of distinct states.

| Run | Checks | Bounds | States | Shows |
|---|---|---|---|---|
| `task_contract` | TypeOK, StatusAgreesWithAnswers, TimesAgreeWithStatus, AnswersAreFinal | 2 tasks, 2 executors, up to 2 data sets, 2 files | @@task_contract | the contract keeps its records consistent under any invocations |
| `exec_faults` | ConsentBeforeUse, FinishedIsBacked, ProcessingIsWatched | a training task and the prediction with its model, 2 executors, pool limit 1; one crash at any step, or a second start | @@exec_faults | recovery by RetryProcessingTask; leftovers of a first attempt do no harm to the second |
| `exec_live` | ProcessingEnds, PoolIsReleased | 1 task, 1 chain error, 1 crash of the executor that set the task to Processing, or a second start while the other party's pool and computation may hold the first attempt | @@exec_live | tasks end after a crash and the retry, and after a clean restart; pools are released even after chain errors and with leftovers |
| `train_live` | TrainingSucceeds | 2 rounds | @@train_live | both learners hand over a model in every order of steps in which the training is started in time |
| `train_faults` | InputsPresent, DataOfRound, ModelsAgree | 2 rounds, 1 suspension of a goroutine or handler, error, or time out with late delivery of PartBytes, GradAndCost or Status of round 0 | @@train_faults | lags between comparison and use, failing calculations, retries |
| `xdb_maintain` | ListedIsStored, SlicesWellIndexed, ReplicasKept, HealthReportTrue | 1 file of 2 slices, 3 nodes, replica 1 or 2, 1 change of health, extension or failure | @@xdb_maintain | stale slice lists that two workers and the clear loops write back lose nothing |
| `xdb_access` | OneFilePerName, AuthorizationsSound, NewestInForce, FailureExplained | 2 files of one name, 2 tasks, 2 applications, 1 move, 1 failed pull, 3 instants | @@xdb_access | what is answered and granted, whatever was read too early, and why downloads fail |
| `xdb_write` | FullyReplicated, PublishedWhole, StructureInOrder, WriteReturns | 1x2, 2x1 and 1x3 slices and replicas, 3 nodes, 2 workers, failedQueue of 2, 4 faults, the client may leave | @@xdb_write | what is published, and when the call hangs |
| `xdb_challenge` | MaterialLasts, HonestNotRed, ImplementsStorageProof, CoveredStays, AnswerableIsJudged | 3 nodes, both algorithms, 2 challenges, 1 extension, 1 move, 1 fault; 3 instants, a health over 1 day of 1 interval, so that challenges leave the period | @@xdb_challenge | the refinement, fairness to honest nodes, answers in the end |
| `algorithms` | RegressionMatches, SamplesMatch, TreeMatches, PrimitivesMatch, NodeStatusTrue, HealthEarned | 2 samples and 3 features, 2 scales, with and without noise and regularisation; up to 6 rows, 3 parties; 4 samples; fields of order 7; a node for 15 heartbeats in days of 4 | @@algorithms | the calculations match their references; status and health of a node |
| `protocols` | EvaluationSound, SharesSound, OkMeansDelivered, TasksAnswered | 2 folds and 2 failures; 3 parties, 1 fault, data prepared twice by the party with the label in training; 3 tries and 1 fault | @@protocols | evaluation, PaddleFL tasks, prediction |
| `read_restores` | ReadRestores (violated) | as `algorithms` | | the owner's read trims zeros of inner slices too |

RegressionMatches, SamplesMatch, TreeMatches, PrimitivesMatch, NodeStatusTrue, HealthEarned, ModelsAgree,
AuthorizationsSound, EvaluationSound and SharesSound are conjunctions of parts that have names and
comments of their own. Type invariants other than the contract's (ExecTypeOK, TypeOK of VLLearner and
SliceMaintenance, AccessTypeOK, WriteTypeOK, ChallengeTypeOK, EvalTypeOK) are no property of a run;
adding one to the cfg of its module's run checks it, and those of VLLearner, SliceMaintenance, FileAccess and
Challenges are proved.

**Why the bounds suffice.** The contract treats tasks independently, so that two tasks show what one
does to the other, and two data sets are what "all but the last" needs. Two executors are the number of
parties of the vertical algorithms. A second start is the only way to meet leftovers, and leftovers of
two attempts meet the third in the same way. In `exec_live` the leftovers are those of one executor, whose
pool entry and computation outlive the failure that the other one has reported. A limit of 1 is reached by one task. Two rounds contain a
round that cannot be the last, the transition between rounds, and a round that can be the last.
Maintenance workers work slice by slice: two slices show a list that is partly changed, and three
nodes leave one that is new. Two applications for one file show an answer meeting a newer one. In the
write, failedQueue holds ten in the code and two here, so that it overflows with three copies. The key
modulus is far above all numbers of a round. Days have four heartbeats, and the health looks
back two days, so that 15 instants cross midnight with full and partial windows. Deadlock is not
checked where the system rests: tasks that have ended, learners that are gone, calculations that are done.

**Assumed timing in VLLearner.** With `LateStart = FALSE` the goroutines which start the training have
run before the first round is over; that takes two Paillier exchanges, but the code does not enforce it
(see "Disagreements"). InputsPresent and DataOfRound are stated for learners that were not initialised
again. DataOfRound leaves out suspensions: a calculation suspended across a round uses what it finds in
the next one (hazard at `linear_reg_vl.go:390`). DataOfRound and StopTogether, the second half of
ModelsAgree, leave out learners that have overtaken the handler of a message (section 5). Time outs of
the alignment (`ReEnc`) are left out, as a repeated one starts another MsgPsiIntersect; a late
EncGradCost, which round 0 would take for that of round 1 like a late GradAndCost, is left out of the
run to keep it short, not of the theorems.

**Exceptions in the properties.** They are what the code does, not what it should do.
ProcessingEnds speaks of first attempts and of those that begin with nothing left of the one before; with
leftovers a late stop may take the new attempt out of the pool.
ProcessingIsWatched speaks of first attempts, and it holds for a pool that is not overrun: with two
training tasks and room for one, a task set to Processing while the pool fills up is left to nobody
(section 5). HonestNotRed speaks of nodes that were asked in the period that their health is taken from, or that sent
a heartbeat in one of sixty intervals of it: a node that is not asked gets 0.85 for its challenges, which
alone is below the limit. GradientsMatch compares the linear regression with a learner that has the
features of the party without the label to the nearest whole number; CostsAgree is about the cost of
each sample, not about the sum. SharesSound says of a share that is not whole that it is being written,
not that a container waits for it; the same of the parts of a result.
PlainDeleted allows plain samples after the command that encrypts them has failed. ListedIsStored leaves out files whose life was extended,
FullyReplicated writes whose client left, PublishedWhole copies of which a push was broken off,
WriteReturns a context that ends or a failedQueue that overflows, MaterialLasts copies which an
extension missed. TasksAnswered takes as answers what ends otherwise with the time out of the task:
evaluations in which something has failed, PaddleFL tasks in which a party has reported a failure or
whose data were prepared twice, predictions of which one party has failed or was stopped.

**Fairness.** `ExecFairness`: a goroutine that can step does (weak fairness: Go's scheduler), a crashed
node is restarted, the retry goroutine visits its list. Each tick of the loop visits all listed tasks
and, after `MpcTaskMaxExecTime`, all tasks of the pool; as the loop is busy in between, this is strong
fairness of `VisitToProcess` and `CheckMpcTimeOutTasks`. Computations need not report. `FairSpec` of
VLLearner: weak fairness of each party's steps, which include calls that are answered. `Spec` of
WritePipeline and `ProtocolSpec`: the goroutines as a whole go on; clients need not leave, nothing has
to fail. `Spec` of Challenges: the answer loop of a running node ticks, and nothing else has to
happen. Faults are never fair.

Each property of a passing run has a mutant of a mapped definition (named
`<definition>_<what is wrong>`, next to it) that violates it.

## 4. Proofs

All theorems are about the specifications that TLC runs and hold for every value of the constants that
their assumptions allow. Those of `VLLearner_proofs` but `Typing` assume `Timely`, and two of `TaskExecution_proofs`
`Calm` (below). Two forms need a word: `ExecutorsKeepContract` and its neighbours start from `ExecSpec`,
and `NodeHealthSpec` is the storage node of `MCAlgorithms` on its own, with any instant to begin with.

| Module | Theorem | Property | Beyond the run's bounds |
|---|---|---|---|
| `TaskExecution_proofs` | `Typing`, `StatusAgreement`, `TimesAgreement`, `Finality` | TypeOK, StatusAgreesWithAnswers, TimesAgreeWithStatus, AnswersAreFinal | tasks, executors, data sets |
| | `ExecutorsKeepContract` | `[][Next]_chainVars` of the contract and StatusAgreesWithAnswers | executors, tasks, limits, crashes, starts, chain errors |
| | `Consent`, `Backing` | ConsentBeforeUse, FinishedIsBacked | the same |
| | `TrainingsAreWatched`, `NoneIsAbandoned` | ProcessingIsWatched (of training tasks) | the same, without chain errors |
| `VLLearner_proofs` | `Typing` | TypeOK | rounds, goroutines, tries, faults |
| | `Inputs`, `Agreement`, `Finality` | InputsPresent, ModelsAgree, HandedOverIsFinal, until a learner overtakes a handler | the same |
| | `RoundsApart` | DataOfRound | the same |
| `FileAccess_proofs` | `TypeCorrect`, `NamesAreUnique` | AccessTypeOK, OneFilePerName | files, tasks, applications, nodes, instants |
| | `AuthorizationsAreSound`, `NewestDecides`, `FailuresAreExplained` | AuthorizationsSound, NewestInForce, FailureExplained | the same, moves and failed pulls |
| `SliceMaintenance_proofs` | `MaintenanceTyped`, `WellIndexed`, `NoReplicaLost` | TypeOK, SlicesWellIndexed, ReplicasKept | slices, nodes, replicas, events, instants |
| | `ListedSlicesAreStored`, `ReportedHealthIsTrue` | ListedIsStored, HealthReportTrue | the same |
| `WritePipeline_proofs` | `StructureIsInOrder`, `PublishedIsWhole`, `PublishedIsReplicated` | StructureInOrder, PublishedWhole, FullyReplicated | slices, replicas, nodes, workers, queues, faults |
| `Challenges_proofs` | `ChallengesTyped`, `StorageProofImplemented` | ChallengeTypeOK, ImplementsStorageProof (the refinement) | copies, challenges, moves, extensions |
| | `CoveredRoundsStay`, `MaterialIsThere`, `HonestNodesAreNotRed` | CoveredStays, MaterialLasts, HonestNotRed | the same, lengths of days and of the period |
| `Protocols_proofs` | `EvaluationIsSound`, `InputsArePresent`, `SuccessIsDelivered` | EvaluationSound, SharesSound, OkMeansDelivered | folds, failures, faults, tries |
| `NodeHealth_proofs` | `StatusIsTrue` | NodeStatusTrue | length of days, requests, breaks |

**Assumptions.** They are the named ASSUMEs of the modules: sets of nodes and slices are finite where
they are counted, bounds are natural numbers, times lie in the modelled range. Those that say something
about the program: `RetainAssumption`, the retention period is positive (`FileRetainPeriod` is seven days;
with none, a slice could be cleared in the instant in which its file can still be read);
`MaintenanceAssumption`, a namespace begins with one replica at least and slices have an order, the one
of the list; `PipelineAssumption`, no more replicas than nodes, which Write checks; `FailureAssumption`,
there is an error message; `EvaluationAssumption`, two executors and at least one fold; the assumption on `SegmentSize`, an extension
has fewer rounds than one goroutine makes. `Timely`, the
hypothesis of the theorems about VLLearner but its types, is the timing of section 3: the goroutines that start the
training are in time, and no time out repeats the last message of the alignment. Both runs satisfy it.
It is needed: otherwise `process.init` and `TrainLoop(0)` may come in the middle of a training, and set
the round and the parameters of one learner back. `Calm`, the hypothesis of `TrainingsAreWatched` and
`NoneIsAbandoned`: pools have room for all training tasks and no invocation of the chain fails, the
exceptions of section 3. `exec_faults` satisfies it; `NoneIsAbandoned` adds that no task is a prediction.

**The arguments.**
- *Contract.* `TypeOK /\ StatusAgreesWithAnswers` is inductive: the contract decides "all confirmed" from
  the other executors' stamps only, which is right because a task that is still Confirming has no
  rejected data set and no data set carries both stamps. Finality cites both agreement invariants: a
  final status is recognised by its answers and its times.
- *Executors.* `ExecInv` says of every goroutine what it may rely on at its place: all tasks in pools,
  learners, computations and retry lists have been confirmed by all and started (`UseInv`), a goroutine
  about to report without an error has stored its model (`ThreadsGood`), and these facts survive all
  steps of the others (`GoodStays`), since answers are final and stored models stay. That each step is
  one of the contract's (`ContractStep`) then carries StatusAgreement over.
- *Watching.* `WatchInv` says that a training task which has been started once is untouched until it is
  Processing, and that while it is nobody is about to take it out of a pool without having reported it
  (`Steady`). Then whoever is in charge stays in charge (`Kept`): with room in the pool every goroutine
  puts the task there or finds it there (`Room`), and a node that crashes lists it again. A second attempt
  is left out because leftovers of the first may stop it.
- *Learners.* None of the three invariants is inductive. `Inv` adds to the types (`TypeInv`) what the two
  learners have to do with each other: each asks the other once before round 0, and nothing that starts a
  training is left after it (`StartInv`); without the peer's key nothing that needs it is under way (`KeyInv`);
  the learners are at most one round apart, and the one ahead has made up its mind to go on (`RoundInv`);
  a model that was handed over belongs to a learner that stays where it is (`ModelInv`); and as long as no
  goroutine was suspended, what a learner holds or sends is of the round it is marked with (`DataInv`). All
  this holds until a learner overtakes the handler of a message: from then on only the types do, and the
  theorems say so. The lemmas about bags of
  goroutines speak of members, and of numbers only where a goroutine is the only one of its kind (`Solo`).
  For the invariants each step is one of eight transitions (`OneOf`): nothing that matters changes, a round
  is entered, the local part, the encrypted part, the decryption, the update or the status check is done, or a
  message is received. Each part of `Inv` is shown once per transition instead of once per handler.
- *Names.* OneFilePerName is not inductive; `NameInv` is: a file its name's index does not point to is
  past its retention period, and so can neither be found nor extended.
- *Authorizations.* `AuthInv` adds that an open application is the newest of its file, that the one the
  monitor has seen is the newest, and that what the owner is about to grant ends with the file. `ForceInv`
  says that an authorization with a later one has expired (`OlderExpired`), since the monitor applies only
  when the newest one has, and time does not go back while it acts on what it has read.
  `DeliveryInv` adds for failures: nodes hold what is listed, and keys lack only those of nodes that a
  slice was moved to after they were made.
- *Maintenance.* `Inv` says that everything that is or will be written is a `Listing` (distinct indexes
  on a node, no replica below the first policy), phase by phase of both workers, and that it is stored
  until the retention period of the first expire time is over (`StoredInv`). The two workers need to know
  nothing of each other: a stale list is still a listing, and what it lists is still stored. While a
  worker expands, the slices it has yet to visit have the holders that it read. `GreatestExists` and
  `IdxIsNew` show that getNodeSliceIdx returns an index that is free.
- *Write.* `OrderInv` follows the slices down the line, `WholeInv` says that a reader is used up only if the copy is
  there. `ReplicaInv` has a part per phase: in the drain no copy is in two places and those of a slice
  are as many as wanted (`DrainInv`), a stage ends only after the one before it (`ClosingInv`), so nothing
  is left behind when the retries begin (`RetryInv`), and other nodes are tried only once (`OtherInv`).
- *Challenges.* The refinement needs `DamageInv`: material and questions made from damaged content, and
  failed challenges, are about copies that are damaged, and stay so. `MaterialInv` says up to which
  round each copy is covered while an extension is under way, which differs between copies that were
  listed before it and those that moved since. For HonestNotRed, the challenges of the period are a subset
  of those there are, and heartbeats are counted at most once per interval of it.
- *Protocols.* In each the code counts where it should look: files in a folder, results of folds.
  `CountedIsAll` and `EnoughIsAll` show that there are no others; the invariants (`DNNInv`, `EvalInv`,
  `PredictInv`) say what each goroutine that is still to run has behind it. In `DNNInv`, `WriteInv` pairs
  every file that is not whole with the goroutine that writes it; every step that moves one goroutine on
  is an instance of `LinkStep`.

Proving was a review of the modules as well. It found alternatives of CASE that overlapped (Kept and
Advance), a fault of DataGenerate that was missing, a late reply of an RPC handler that reached another
call of its caller (Waiting), the exception of HonestNotRed, and assumptions on constants that were not
written down; they are corrected.

**Only model-checked.**
- Liveness (ProcessingEnds, PoolIsReleased, TrainingSucceeds, WriteReturns, AnswerableIsJudged,
  TasksAnswered): fairness and ENABLED are out of this prover's reach.
- RegressionMatches, SamplesMatch, TreeMatches, PrimitivesMatch, and HealthEarned, which sums heartbeats
  over days: what recursive functions compute for every input needs an induction over data.
- ProcessingIsWatched of predictions: a party without the label leaves its pool silently, so that the one
  with the label must have been asked by then, which takes an order of the replies among any number of
  parties that crash. Without room in the pools it does not hold (section 3).
- InputsPresent after a learner has overtaken a handler, which holds in `train_faults`.
- VLLearner without `Timely`: the properties do not hold there.

## 5. Disagreements of code and documentation

`read_restores` has a run. The others were met while modelling; where a property makes an exception of
one, it is the one named.

- StartTask also starts Failed tasks; the client's comment says Ready ones (`dai/requester/client/client.go:288`).
- The pool can exceed its limit by one: counting and inserting are two critical sections (`handler/mpc.go:146`, `:148`).
- A task that is set to Processing while the pool fills up is left to nobody until its node is restarted,
  although the monitor sets out to prevent that (`monitor/task.go:279` against `:243`).
- process.init runs "after PSI, before training" (`process.go:68`), but a late MsgPsiIntersect goroutine runs it
  again in the middle of a training (`linear_reg_vl.go:265`).
- A message is meant for the round it carries, but its handler compares that round with the learner's
  without a lock and enters the process afterwards (`linear_reg_vl.go:471`, `:515`, `:564`). A learner that
  gets to the next round in between takes a repeated GradAndCost, EncGradCost or Status of the last round
  for one of the new round: it may calculate with old gradients, or stop while the other party goes on. TLC
  finds both within `train_faults` when the exceptions of DataOfRound and StopTogether are dropped.
- Linear regression: the features of the party without the label are rounded to whole numbers in the
  encrypted gradient (`linear_regression/.../regression.go:736`, `:754`), against the formula in the comment
  of the same function (`:687-688`), although they are standardised before (`vl/linear/train.go:43`) and so
  mostly between -2 and 2. GradientsMatch says what comes out instead.
- The costs which decide whether the training stops are sums of floats in the random order of a map
  (`regression.go:1222-1231`), so that the parties' costs may differ in the last bit although those of each
  sample are the same.
- evaluator.go formats the error of the step before, which is nil, when the task of a fold cannot be started
  (`:319`, `:416`): the node panics where a failure was to be reported.
- A PaddleFL party counts files from their creation on, and starts its container with shares that may
  still be empty or half written (learner `dnn_paddlefl_vl.go:470-476` against `:493-502`, model `:380-392`
  against `:404-418`); the parts of a result likewise (model `:522-528` against `:546-552`). A party that
  prepares its data twice has encrypt_data append to shares there are (`process_data.py:29`).
- A party whose MsgPredictStop was carried out, but not answered, is told again and is gone: the party with
  the label reports a failure although all others have succeeded (model `:587-593`).
- The goroutines that make the sigmas of an extension append to one slice without a lock
  (`challenge.go:277-310`, `setup.go:89`): with more rounds than one segment some may be lost.
- Write: "both finishedQueue and failedQueue will be closed when encryptedSliceQueue is closed"
  (`handler_write.go:164`), but not when more than ten pushes fail: all distributors wait for room, and Write hangs
  (WriteReturns). It hangs as well when the context ends before the slicer has closed its channel
  (`slicer.go:75`). After a client left, a file may be published of which nodes hold nothing
  (FullyReplicated). The goroutine that collects the structure is not waited for, so that its last
  slices may be missing. A retry sends the same reader again, from where the failed push left it (PublishedWhole).
- "Passing means holding" (`xdb/README.md:36`) is not so for a copy whose material was renewed from what the node
  itself sent (`challenge.go:89`, StorageProof's `renewed`).
- Replicas are expanded "firstly" (`migrate.go:39`), unless a surplus of one slice makes up for the lack of another.
- Slices of extended files are cleared by the expiry they were published with (`sliceclear.go:78`, ListedIsStored).
- Outcomes of a prediction are returned "for just once" (`models/linear_reg_vl.go:294`), but a late goroutine
  makes a second result, which nobody looks at.
- evaluator.Stop starts goroutines that share the loop variable (`evaluator.go:349`): after a failure
  learners of folds may remain.
- A stopping node's offline transaction is signed in another form than the contract verifies (`answer.go:41`),
  so that it stays online.

## 6. Not modelled

- The live evaluator: a second protocol that pauses the rounds of VLLearner; their product is beyond the
  minutes of a run. Its arithmetic and the predictions it makes are those of SampleSets and Prediction.
- The executor-node contract: it registers keys once and lists them.
- The Fabric chaincode: the same contracts again; blockchain clients: marshalling.
- Storage backends, peer connections, servers, configuration, command lines, generated code: I/O and wiring.
- Encryption, signatures and hash functions are assumed to work; floating point is replaced by fractions.
- Steps of the code that are one here: the unlocked look into the pool, StopTask and the locked deletion
  in `stopLocalMpcTask` (`handler/mpc.go:235-248`); the two comparisons of rounds around the setting of a
  part; the goroutines of an extension (above).
- The errors of metrics for an empty fold (`classification.go:52-54`, `:388`), which the evaluator excludes
  (`evaluator.go:283-286`).
- Queries that change no state, except where another action reads through them.

## 7. Plan

1. Live evaluation, with a learner reduced to its rounds.
2. Composition of SliceMaintenance and FileAccess: keys of migrated slices under a changing replica.
