---------------------------- MODULE WritePipeline ----------------------------
(***************************************************************************)
(* Engine.Write of a data owner (xdb/engine/handler_write.go): a file is   *)
(* cut into slices, a pipeline of goroutines joined by bounded channels    *)
(* finds nodes for each slice, encrypts a copy per node and pushes it;     *)
(* failed pushes are retried, then sent to other nodes; then the file is   *)
(* published.                                                              *)
(*                                                                         *)
(* A worker that takes an item, works and hands the result on does so in   *)
(* one step, taken when there is room for the result.  `pool' counts the   *)
(* workers of a stage that have not returned.  The workers look at the     *)
(* context before they receive, never while they wait: once the context    *)
(* is cancelled, a worker may return or may still take one more item.      *)
(* Once Write is past the pipeline, of the goroutines that still run only  *)
(* those before sliceMetas touch anything it reads.                        *)
(* A copy is a pair <<slice, node>>.                                       *)
(***************************************************************************)
EXTENDS Integers, Sequences, FiniteSets, SequencesExt

CONSTANTS
    Shapes,       \* numbers <<of slices, of replicas>> of the file written
    Nodes,        \* the healthy storage nodes, listed once by Write
    Green,        \* those of them in good health; the others are yellow
    Workers,      \* goroutines of a stage
    QueueCap,     \* capacity of the channels between the stages
    FailedCap,    \* capacity of failedQueue, finishedQueue2, failedQueue2
    Retries,      \* pushes of one retry loop
    MaxFaults     \* bound: pushes that the network or a node spoils

ASSUME PipelineAssumption ==
    /\ \A s \in Shapes : s \in (Nat \ {0}) \X (1..Cardinality(Nodes))
    /\ {Workers, QueueCap, FailedCap, Retries} \subseteq Nat \ {0}
    /\ MaxFaults \in Nat
    /\ IsFiniteSet(Nodes) /\ Green \subseteq Nodes

VARIABLES
    shape,        \* slices of the file and replicas of its namespace
    main,         \* where Write is
    cancelled,    \* the context is done
    err,          \* errOccurred
    slicer,       \* "run", "closed" (its channel), "left" without closing
    cut,          \* slices cut so far
    sliceQ,       \* sliceQueue
    fed,          \* the feeder of locateRoutine has returned
    metaQ,        \* sliceMetaQueue
    metas,        \* sliceMetas, appended by a goroutine nobody waits for
    locQ,         \* taskQueue of locateRoutine
    locatedQ,     \* locatedSliceQueue, with the nodes chosen
    encFed,       \* the feeder of encryptRoutine has returned
    encQ,         \* taskQueue of encryptRoutine
    encryptedQ,   \* encryptedSliceQueue
    pool,         \* stage -> workers that have not returned
    stuck,        \* copies whose distributor waits for room in failedQueue
    finished,     \* copies pushed
    failedQ,      \* failedQueue: read when finishedQueue is closed
    retrying,     \* copy -> state of its retry loop
    failedTwice,  \* failedQueue2
    moving,       \* the copy pushToOtherNode works at, in a set
    tried,        \* alreadySelected of pushToOtherNode
    stored,       \* copy -> what the node keeps of it
    spoilt,       \* copies of which a push was refused or cut
    faults,       \* pushes spoilt so far
    structure     \* the published structure, or << >>

pipeVars == <<slicer, cut, sliceQ, fed, metaQ, metas, locQ, locatedQ,
              encFed, encQ, encryptedQ>>
otherVars == <<failedTwice, moving, tried>>
pushVars == <<stored, spoilt, faults>>
restVars == <<shape, main, cancelled, err, pool, stuck, finished, failedQ,
              retrying, otherVars, pushVars, structure>>
vars == <<shape, main, cancelled, err, pipeVars, pool, stuck, finished,
          failedQ, retrying, otherVars, pushVars, structure>>

NSlices == shape[1]
Replica == shape[2]
SliceNos == 1..NSlices
Copies == SliceNos \X Nodes
Stages == {"locate", "encrypt", "distribute"}
Content == {"none", "whole", "part", "empty"}
Ended == {"published", "error"}

Init ==
    /\ shape \in Shapes
    /\ main = "drain"
    /\ cancelled = FALSE
    /\ err = FALSE
    /\ slicer = "run" /\ cut = 0
    /\ sliceQ = << >> /\ fed = FALSE
    /\ metaQ = << >> /\ metas = << >>
    /\ locQ = << >> /\ locatedQ = << >>
    /\ encFed = FALSE
    /\ encQ = << >> /\ encryptedQ = << >>
    /\ pool = [s \in Stages |-> Workers]
    /\ stuck = {} /\ finished = {} /\ failedQ = {}
    /\ retrying = << >>
    /\ failedTwice = {} /\ moving = {} /\ tried = {}
    /\ stored = [c \in Copies |-> "none"]
    /\ spoilt = {} /\ faults = 0
    /\ structure = << >>

HasRoom(q) == Len(q) < QueueCap

-----------------------------------------------------------------------------
(***************************************************************************)
(* Slicer and locateRoutine.                                               *)
(***************************************************************************)

\* Slice: cut the next slice or close the channel; return on cancellation.
Slice ==
    /\ main = "drain" /\ slicer = "run"
    /\ \/ /\ cancelled
          /\ slicer' = "left"
          /\ UNCHANGED <<cut, sliceQ>>
       \/ /\ ~cancelled /\ cut < NSlices /\ HasRoom(sliceQ)
          /\ cut' = cut + 1
          /\ sliceQ' = Append(sliceQ, cut')
          /\ UNCHANGED slicer
       \/ /\ ~cancelled /\ cut = NSlices
          /\ slicer' = "closed"
          /\ UNCHANGED <<cut, sliceQ>>
    /\ UNCHANGED <<restVars, fed, metaQ, metas, locQ, locatedQ, encFed,
                   encQ, encryptedQ>>

\* Mutant of Feed: the slice cut last is handed on first.
Feed_newest ==
    /\ main \notin Ended /\ ~fed
    /\ sliceQ # << >> /\ HasRoom(metaQ) /\ HasRoom(locQ)
    /\ metaQ' = Append(metaQ, Last(sliceQ))
    /\ locQ' = Append(locQ, Last(sliceQ))
    /\ sliceQ' = Front(sliceQ)
    /\ UNCHANGED <<restVars, slicer, cut, fed, metas, locatedQ, encFed, encQ,
                   encryptedQ>>

\* The feeder of the locators receives a slice, sends its meta to
\* sliceMetaQueue and the slice to taskQueue.
Feed ==
    /\ main \notin Ended /\ ~fed
    /\ sliceQ # << >> /\ HasRoom(metaQ) /\ HasRoom(locQ)
    /\ metaQ' = Append(metaQ, Head(sliceQ))
    /\ locQ' = Append(locQ, Head(sliceQ))
    /\ sliceQ' = Tail(sliceQ)
    /\ UNCHANGED <<restVars, slicer, cut, fed, metas, locatedQ, encFed, encQ,
                   encryptedQ>>

\* It ends with its channel, and never looks at the context.
FeedEnds ==
    /\ main = "drain" /\ ~fed /\ sliceQ = << >> /\ slicer = "closed"
    /\ fed' = TRUE
    /\ UNCHANGED <<restVars, slicer, cut, sliceQ, metaQ, metas, locQ, locatedQ,
                   encFed, encQ, encryptedQ>>

\* The goroutine of Write that appends to sliceMetas.
CollectMeta ==
    /\ main \notin Ended /\ metaQ # << >>
    /\ metas' = Append(metas, Head(metaQ))
    /\ metaQ' = Tail(metaQ)
    /\ UNCHANGED <<restVars, slicer, cut, sliceQ, fed, locQ, locatedQ,
                   encFed, encQ, encryptedQ>>

\* Select: green nodes while there are enough, else all of them and yellow
\* ones (getSliceOptimalNodes), in any choice.
Select ==
    {S \in SUBSET Nodes :
        /\ Cardinality(S) = Replica
        /\ Green \subseteq S \/ S \subseteq Green}

\* A locator chooses the nodes of a slice.
Locate ==
    /\ main = "drain" /\ pool["locate"] > 0
    /\ locQ # << >> /\ HasRoom(locatedQ)
    /\ \E S \in Select : locatedQ' = Append(locatedQ, <<Head(locQ), S>>)
    /\ locQ' = Tail(locQ)
    /\ UNCHANGED <<restVars, slicer, cut, sliceQ, fed, metaQ, metas,
                   encFed, encQ, encryptedQ>>

LocatedClosed == fed /\ pool["locate"] = 0

-----------------------------------------------------------------------------
(***************************************************************************)
(* encryptRoutine.                                                         *)
(***************************************************************************)

\* The feeder of the encryptors hands on one copy per node of a slice; it
\* looks at the context before it receives.
FeedCopies ==
    /\ main = "drain" /\ ~encFed
    /\ \/ /\ locatedQ # << >> /\ Len(encQ) + Replica <= QueueCap
          /\ encQ' = encQ \o SetToSeq({Head(locatedQ)[1]} \X Head(locatedQ)[2])
          /\ locatedQ' = Tail(locatedQ)
          /\ UNCHANGED encFed
       \/ /\ cancelled \/ (locatedQ = << >> /\ LocatedClosed)
          /\ encFed' = TRUE
          /\ UNCHANGED <<encQ, locatedQ>>
    /\ UNCHANGED <<restVars, slicer, cut, sliceQ, fed, metaQ, metas, locQ,
                   encryptedQ>>

\* An encryptor encrypts a copy with the key of its node.
Encrypt ==
    /\ main = "drain" /\ pool["encrypt"] > 0
    /\ encQ # << >> /\ HasRoom(encryptedQ)
    /\ encryptedQ' = Append(encryptedQ, Head(encQ))
    /\ encQ' = Tail(encQ)
    /\ UNCHANGED <<restVars, slicer, cut, sliceQ, fed, metaQ, metas, locQ,
                   locatedQ, encFed>>

\* Encryption fails: errOccurred, the context is cancelled, the worker returns.
EncryptFails ==
    /\ main = "drain" /\ pool["encrypt"] > 0
    /\ encQ # << >> /\ faults < MaxFaults
    /\ encQ' = Tail(encQ)
    /\ pool' = [pool EXCEPT !["encrypt"] = @ - 1]
    /\ err' = TRUE
    /\ cancelled' = TRUE
    /\ faults' = faults + 1
    /\ UNCHANGED <<shape, main, slicer, cut, sliceQ, fed, metaQ, metas, locQ,
                   locatedQ, encFed, encryptedQ, stuck, finished,
                   failedQ, retrying, otherVars, stored, spoilt, structure>>

EncryptedClosed == encFed /\ pool["encrypt"] = 0

\* Mutant of Return: the workers miss that their channel was closed.
Return_onCancel(stage) ==
    /\ main = "drain" /\ pool[stage] > 0 /\ cancelled
    /\ pool' = [pool EXCEPT ![stage] = @ - 1]
    /\ UNCHANGED <<shape, main, cancelled, err, pipeVars, stuck, finished,
                   failedQ, retrying, otherVars, pushVars, structure>>

\* A worker returns: the context is done, or its channel is closed and empty.
Return(stage) ==
    /\ main = "drain" /\ pool[stage] > 0
    /\ \/ cancelled
       \/ stage = "locate" /\ fed /\ locQ = << >>
       \/ stage = "encrypt" /\ encFed /\ encQ = << >>
       \/ stage = "distribute" /\ EncryptedClosed /\ encryptedQ = << >>
    /\ pool' = [pool EXCEPT ![stage] = @ - 1]
    /\ UNCHANGED <<shape, main, cancelled, err, pipeVars, stuck, finished,
                   failedQ, retrying, otherVars, pushVars, structure>>

\* The client closes the connection (server/controllers.go), while Write runs.
ClientLeaves ==
    /\ ~cancelled /\ main \notin Ended
    /\ cancelled' = TRUE
    /\ UNCHANGED <<shape, main, err, pipeVars, pool, stuck, finished, failedQ,
                   retrying, otherVars, pushVars, structure>>

-----------------------------------------------------------------------------
(***************************************************************************)
(* Pushing one copy to its node.  The node keeps what reaches it; a key it *)
(* has already is answered with success and nothing is written (Engine.Push*)
(* and Save of the local storage).  What can happen to a push:             *)
(*   ok           stored and answered                                      *)
(*   unreachable  not sent: the reader is untouched                        *)
(*   refused      read by the node, which answers with an error            *)
(*   cut          broken off: the node keeps the first part                *)
(*   lost         stored, but the answer is lost                           *)
(***************************************************************************)
Outcomes == {"ok", "unreachable", "refused", "cut", "lost"}

\* With the context done a request is not sent.
CanHappen(outcome) ==
    IF cancelled THEN outcome = "unreachable"
                 ELSE outcome = "ok" \/ faults < MaxFaults

\* What the node keeps of copy c after a push of content `sent'.
Kept(c, sent, outcome) ==
    IF outcome \in {"unreachable", "refused"} \/ stored[c] # "none" THEN stored[c]
    ELSE IF outcome = "cut" /\ sent # "empty" THEN "part" ELSE sent

Push(c, sent, outcome) ==
    /\ CanHappen(outcome)
    /\ stored' = [stored EXCEPT ![c] = Kept(c, sent, outcome)]
    /\ spoilt' = IF outcome \in {"refused", "cut"} THEN spoilt \cup {c} ELSE spoilt
    /\ faults' = IF outcome = "ok" \/ cancelled THEN faults ELSE faults + 1

\* A distributor pushes a copy; a failure waits for room in failedQueue.
Distribute(outcome) ==
    /\ main = "drain" /\ pool["distribute"] > Cardinality(stuck)
    /\ encryptedQ # << >>
    /\ LET c == Head(encryptedQ) IN
         /\ Push(c, "whole", outcome)
         /\ finished' = IF outcome = "ok" THEN finished \cup {c} ELSE finished
         /\ failedQ' = IF outcome # "ok" /\ Cardinality(failedQ) < FailedCap
                       THEN failedQ \cup {c} ELSE failedQ
         /\ stuck' = IF outcome # "ok" /\ Cardinality(failedQ) >= FailedCap
                     THEN stuck \cup {c} ELSE stuck
    /\ encryptedQ' = Tail(encryptedQ)
    /\ UNCHANGED <<shape, main, cancelled, err, slicer, cut, sliceQ, fed,
                   metaQ, metas, locQ, locatedQ, encFed, encQ, pool,
                   retrying, otherVars, structure>>

\* A distributor that waits for room has not returned.
FinishedClosed == pool["distribute"] = 0 /\ stuck = {}

-----------------------------------------------------------------------------
(***************************************************************************)
(* Write itself: drain, retry, other nodes, publish.                       *)
(***************************************************************************)

\* finishedQueue is closed: the failed copies go to retryRoutine.  What a
\* cancelled pipeline left in its channels is never read.
StartRetry ==
    /\ main = "drain" /\ FinishedClosed
    /\ main' = "retry"
    /\ retrying' = [c \in failedQ |-> [left |-> Retries, reader |-> "whole", at |-> "run"]]
    /\ failedQ' = {}
    /\ locQ' = << >> /\ locatedQ' = << >> /\ encQ' = << >> /\ encryptedQ' = << >>
    /\ encFed' = TRUE
    /\ pool' = [s \in Stages |-> 0]
    /\ UNCHANGED <<shape, cancelled, err, slicer, cut, sliceQ, fed, metaQ, metas, stuck,
                   finished, otherVars, pushVars, structure>>

Loops(at) == {c \in DOMAIN retrying : retrying[c].at = at}

\* What the reader still holds after a failed push of it.
ReaderAfter(reader, outcome) ==
    CASE outcome = "unreachable" -> reader
      [] outcome = "cut" -> IF reader = "empty" THEN "empty" ELSE "part"
      [] OTHER -> "empty"

\* Mutant of Retry: it counts a failed push as finished.
Retry_ignoresError(c, outcome) ==
    /\ main = "retry" /\ c \in Loops("run") /\ retrying[c].left > 0
    /\ Push(c, retrying[c].reader, outcome)
    /\ retrying' = [retrying EXCEPT ![c].at = "ok"]
    /\ finished' = finished \cup {c}
    /\ UNCHANGED <<shape, main, cancelled, err, pipeVars, pool, stuck,
                   failedQ, otherVars, structure>>

\* One tick of the retry loop of a copy: the same reader is sent again.
\* finishedQueue2 is read only after all loops have ended.
Retry(c, outcome) ==
    /\ main = "retry" /\ c \in Loops("run") /\ retrying[c].left > 0
    /\ outcome = "ok" => Cardinality(Loops("ok")) < FailedCap
    /\ Push(c, retrying[c].reader, outcome)
    /\ IF outcome = "ok"
       THEN /\ retrying' = [retrying EXCEPT ![c].at = "ok"]
            /\ finished' = finished \cup {c}
       ELSE /\ retrying' = [retrying EXCEPT
                    ![c] = [left |-> retrying[c].left - 1, at |-> "run",
                            reader |-> ReaderAfter(retrying[c].reader, outcome)]]
            /\ UNCHANGED finished
    /\ UNCHANGED <<shape, main, cancelled, err, pipeVars, pool, stuck,
                   failedQ, otherVars, structure>>

\* The time of a loop is over, after at least one push of any duration.
RetryTimeout(c) ==
    /\ main = "retry" /\ c \in Loops("run")
    /\ retrying[c].left < Retries
    /\ Cardinality(failedTwice) < FailedCap
    /\ retrying' = [retrying EXCEPT ![c].at = "failed"]
    /\ failedTwice' = failedTwice \cup {c}
    /\ UNCHANGED <<shape, main, cancelled, err, pipeVars, pool, stuck,
                   finished, failedQ, moving, tried, pushVars, structure>>

\* All loops have ended; pushToOtherNode notes the nodes of the pushed copies.
RetryEnds ==
    /\ main = "retry" /\ Loops("run") = {}
    /\ main' = "other"
    /\ tried' = finished
    /\ retrying' = << >>
    /\ UNCHANGED <<shape, cancelled, err, pipeVars, pool, stuck, finished, failedQ,
                   failedTwice, moving, pushVars, structure>>

\* Mutant of TriedNodes: the nodes that hold the slice are not left out.
TriedNodes_failed(s) == {n \in Nodes : <<s, n>> \in tried \ finished}

\* alreadySelected: the nodes that hold slice s or were tried for it.
TriedNodes(s) == {n \in Nodes : <<s, n>> \in tried}

\* FindNewNodes leaves out the tried nodes and puts the green ones first.
NextNodes(s) ==
    LET new == Nodes \ TriedNodes(s) IN
    IF new \cap Green # {} THEN new \cap Green ELSE new

\* pushToOtherNode takes up the next copy that failed twice.
OtherBegin(c) ==
    /\ main = "other" /\ ~err /\ moving = {} /\ c \in failedTwice
    /\ moving' = {c}
    /\ tried' = tried \cup {c}
    /\ UNCHANGED <<shape, main, cancelled, err, pipeVars, pool, stuck, finished,
                   failedQ, retrying, failedTwice, pushVars, structure>>

\* The copy is encrypted anew for the next node and pushed there.
OtherPush(c, n, outcome) ==
    /\ main = "other" /\ ~err /\ c \in moving /\ n \in NextNodes(c[1])
    /\ Push(<<c[1], n>>, "whole", outcome)
    /\ tried' = tried \cup {<<c[1], n>>}
    /\ IF outcome = "ok"
       THEN /\ finished' = finished \cup {<<c[1], n>>}
            /\ failedTwice' = failedTwice \ {c}
            /\ moving' = {}
       ELSE UNCHANGED <<finished, failedTwice, moving>>
    /\ UNCHANGED <<shape, main, cancelled, err, pipeVars, pool, stuck,
                   failedQ, retrying, structure>>

\* No node is left for the copy: errOccurred, and the context is cancelled.
OtherFails ==
    /\ main = "other" /\ ~err
    /\ \E c \in moving : NextNodes(c[1]) = {}
    /\ err' = TRUE
    /\ cancelled' = TRUE
    /\ UNCHANGED <<shape, main, pipeVars, pool, stuck, finished, failedQ,
                   retrying, failedTwice, moving, tried, pushVars, structure>>

\* The check of errOccurred, packChainFile and PublishFile, which uses what
\* sliceMetas holds by now and does not look at the context.
Publish ==
    /\ main = "other" /\ ~err /\ failedTwice = {}
    /\ finished # {}
    /\ main' = "published"
    /\ structure' = metas
    /\ UNCHANGED <<shape, cancelled, err, pipeVars, pool, stuck, finished,
                   failedQ, retrying, otherVars, pushVars>>

\* Write gives up: an error occurred, the challenge material or the
\* contract failed (the contract refuses a file without slices).
GiveUp ==
    /\ main = "other" /\ (err \/ failedTwice = {})
    /\ main' = "error"
    /\ UNCHANGED <<shape, cancelled, err, pipeVars, pool, stuck, finished,
                   failedQ, retrying, otherVars, pushVars, structure>>

\* Nothing more happens once Write has returned.
Done == main \in Ended /\ UNCHANGED vars

Pipeline ==
    \/ Slice \/ Feed \/ FeedEnds \/ CollectMeta
    \/ Locate \/ FeedCopies \/ Encrypt \/ EncryptFails
    \/ \E s \in Stages : Return(s)

Pushing ==
    \/ \E o \in Outcomes : Distribute(o)
    \/ \E c \in Copies, o \in Outcomes : Retry(c, o)
    \/ \E c \in Copies : RetryTimeout(c) \/ OtherBegin(c)
    \/ \E c \in Copies, n \in Nodes, o \in Outcomes : OtherPush(c, n, o)
    \/ OtherFails

System ==
    \/ Pipeline \/ Pushing
    \/ StartRetry \/ RetryEnds \/ Publish \/ GiveUp

Next == System \/ ClientLeaves \/ Done

\* Every goroutine that can go on does so in the end; nothing makes the
\* client leave.
Spec == Init /\ [][Next]_vars /\ WF_vars(System)

-----------------------------------------------------------------------------
(***************************************************************************)
(* Properties.                                                             *)
(***************************************************************************)

\* The type invariant: queues, workers and the outcome of Write are well formed.
WriteTypeOK ==
    /\ main \in {"drain", "retry", "other"} \cup Ended
    /\ cut \in 0..NSlices
    /\ {Len(sliceQ), Len(metaQ), Len(locQ), Len(locatedQ), Len(encQ),
        Len(encryptedQ)} \subseteq 0..QueueCap
    /\ pool \in [Stages -> 0..Workers]
    /\ stored \in [Copies -> Content]
    /\ faults \in 0..MaxFaults

Holders(s) == {n \in Nodes : <<s, n>> \in finished}

(***************************************************************************)
(* When Write has published a file and its client waited for it, every     *)
(* slice is on exactly Replica different nodes, whichever pushes failed,   *)
(* were retried or went to other nodes.                                    *)
(***************************************************************************)
FullyReplicated ==
    (main = "published" /\ ~cancelled) =>
        \A s \in SliceNos : Cardinality(Holders(s)) = Replica

(***************************************************************************)
(* The node of a published copy holds it whole, unless a push of it was    *)
(* refused or broken off before: a lost answer or a retry never costs      *)
(* content.                                                                *)
(***************************************************************************)
PublishedWhole ==
    main = "published" =>
        \A c \in finished : stored[c] = "whole" \/ c \in spoilt

(***************************************************************************)
(* The published structure names the slices in the order of the file,      *)
(* although several goroutines handle them: a reader never gets a file     *)
(* with its parts exchanged.                                               *)
(***************************************************************************)
StructureInOrder ==
    \A i \in DOMAIN structure : structure[i] = i

(***************************************************************************)
(* Write returns, unless its context ends while the pipeline runs, or more *)
(* pushes of the pipeline fail than failedQueue has room for: it is read   *)
(* only when finishedQueue is closed, for which the distributors wait.     *)
(***************************************************************************)
WriteReturns ==
    \/ <>(main \in Ended)
    \/ <>(main = "drain" /\ (cancelled \/ stuck # {}))

=============================================================================
