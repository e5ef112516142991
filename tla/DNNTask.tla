------------------------------ MODULE DNNTask ------------------------------
(***************************************************************************)
(* Vertical training and prediction with PaddleFL, between three parties   *)
(* (dai/mpc/learners/dnn_paddlefl_vl, dai/mpc/models/dnn_paddlefl_vl).     *)
(*                                                                         *)
(* Every local message is handled by a goroutine of its own; a party's     *)
(* pending goroutines are the flags below.  The parties intersect their    *)
(* samples pair by pair, write them to a file, have the PaddleFL container *)
(* turn it into one share for each party, send the shares, and run the     *)
(* container as soon as enough files have arrived.  In prediction the      *)
(* parties without the label then send what came out to the one that has   *)
(* it, which recovers the result.                                          *)
(*                                                                         *)
(* Goroutines with the same message are one flag: they do the same.  The   *)
(* contents of samples are left to SampleSets.  A container that runs ends *)
(* once those of all parties run; this and the docker commands are         *)
(* external.  A learner or model is forgotten with its first result, while *)
(* its goroutines go on; what they report later is not looked at.          *)
(*                                                                         *)
(* A file is there, and counted, from its creation on, and whole only when *)
(* it has been written to the end: the two are different steps.  What is   *)
(* in a whole file is left out, also when a party prepares its data twice, *)
(* and encrypt_data (dai/python/dnn/process_data.py:29) then appends to    *)
(* the shares there are.                                                   *)
(***************************************************************************)
EXTENDS Integers, Sequences, FiniteSets, FiniteSetsExt

CONSTANTS
    Tag,         \* the party with the label, in the order of the task's data sets
    Twice,       \* bound: jobs and parties whose data may be prepared a second time
    MaxFaults    \* bound: failures of the network and of the container

ASSUME DNNAssumption == Tag \in 1..3 /\ Twice \subseteq {"train", "predict"} \X (1..3) /\ MaxFaults \in Nat

VARIABLES
    job,        \* "train" or "predict", or "none" if there is no task
    created,    \* parties whose learner or model was created
    asked,      \* asked[p]: the parties that have re-encrypted p's ids
    final,      \* final[p]: the parties whose ids p has re-encrypted
    late,       \* parties with a goroutine with MsgPsiIntersect that is late
    status,     \* status[p]
    env,        \* parties with a MsgFLENVPrepare pending
    chain,      \* chain[p]: the goroutines that prepare and send p's data
    folder,     \* parties that have made their folders
    raw,        \* parties whose samples lie in a file in the clear
    shares,     \* shares[p]: p's own shares before they are moved
    files,      \* files[p]: the shares in the folder of p
    partial,    \* partial[p]: those that have not been written to the end
    start,      \* parties with a MsgFLDataStatus pending, or what it leads to
    running,    \* running[p]: the container, "no", "yes" or "over"
    sending,    \* sending[p]: parties p still sends its part of the result to
    parts,      \* parts of the result at the party with the label
    cut,        \* those that have not been written to the end
    recount,    \* a MsgPredictResultStatus is pending there
    recovery,   \* "no", "ready", "stop" (telling the others) or "over"
    saved,      \* saved[p]: the first result, "none", "ok" or "failed"
    faults

psiVars == <<created, asked, final, late>>
dataVars == <<folder, raw, shares, files, partial>>
outVars == <<sending, parts, cut, recount, recovery>>
dnnVars == <<job, psiVars, status, env, chain, dataVars, start, running, outVars, saved, faults>>

Parties == 1..3        \* PaddleFL's protocol is one for three parties
Others(p) == Parties \ {p}
NextOf(todo) == Min(todo)   \* parties are served in the order of the data sets
Alive(p) == p \in created /\ saved[p] = "none"
First(p, r) == IF saved[p] = "none" THEN r ELSE saved[p]
Save(p, r) == saved' = [saved EXCEPT ![p] = First(p, r)]
Fault == faults < MaxFaults /\ faults' = faults + 1

DNNInit(jobs) ==
    /\ job \in jobs
    /\ created = {} /\ late = {} /\ env = {} /\ folder = {} /\ raw = {} /\ start = {}
    /\ asked = [p \in Parties |-> {}] /\ final = [p \in Parties |-> {}]
    /\ status = [p \in Parties |-> "StartPSI"]
    /\ chain = [p \in Parties |-> <<>>]
    /\ shares = [p \in Parties |-> {}]
    /\ files = [p \in Parties |-> {}] /\ partial = [p \in Parties |-> {}]
    /\ running = [p \in Parties |-> "no"]
    /\ sending = [p \in Parties |-> {}] /\ parts = {} /\ cut = {}
    /\ recount = FALSE /\ recovery = "no"
    /\ saved = [p \in Parties |-> "none"]
    /\ faults = 0

Created(p) ==
    /\ p \notin created
    /\ created' = created \cup {p}
    /\ UNCHANGED <<job, asked, final, late, status, env, chain, dataVars, start, running, outVars, saved, faults>>

NewLearner(p) == job = "train" /\ Created(p)
NewModel(p) == job = "predict" /\ Created(p)

-----------------------------------------------------------------------------
(* Private set intersection, pair by pair. *)

\* IntersectParts has everything.
PsiDone(p) == asked[p] = Others(p) /\ final[p] = Others(p)

\* MsgPsiIntersect, at the parties where it comes now.
Intersects(now) ==
    /\ status' = [p \in Parties |-> IF p \in now /\ PsiDone(p)' THEN "EndPSI" ELSE status[p]]
    /\ env' = env \cup {p \in now : PsiDone(p)'}

\* MsgPsiReEnc at q for the ids of p: they are re-encrypted and remembered, and
\* a MsgPsiIntersect follows, as it does at p when the last party has answered.
\* Both come at once, or one of them late.
ReEnc(p, q, answered) ==
    LET started == {q} \cup (IF answered /\ asked[p] \cup {q} = Others(p) THEN {p} ELSE {})
    IN  /\ final' = [final EXCEPT ![q] = @ \cup {p}]
        /\ asked' = IF answered THEN [asked EXCEPT ![p] = @ \cup {q}] ELSE asked
        /\ \/ /\ Intersects(started) /\ UNCHANGED late
              /\ IF answered THEN UNCHANGED faults ELSE Fault
           \/ /\ answered /\ Fault
              /\ \E r \in started : late' = late \cup {r} /\ Intersects(started \ {r})

\* MsgPsiAskReEnc at p, for the party q.  A party that does not answer three
\* times fails the task at p; a message whose answer is lost is sent again.
AskReEnc(p, q) ==
    /\ Alive(p) /\ asked[p] # Others(p) /\ q = NextOf(Others(p) \ asked[p])
    /\ \/ Alive(q) /\ (\E answered \in BOOLEAN : ReEnc(p, q, answered)) /\ UNCHANGED saved
       \/ ~Alive(q) /\ Save(p, "failed") /\ UNCHANGED <<asked, final, late, status, env, faults>>
    /\ UNCHANGED <<job, created, chain, dataVars, start, running, outVars>>

\* MsgPsiIntersect on the late goroutine: the status is set again.
Intersect(p) ==
    /\ p \in late
    /\ late' = late \ {p}
    /\ UNCHANGED <<asked, final>>
    /\ Intersects({p})
    /\ UNCHANGED <<job, created, chain, dataVars, start, running, outVars, saved, faults>>

-----------------------------------------------------------------------------
(* The data.  A chain of goroutines prepares the files and sends them. *)

Link(at, todo) == [at |-> at, todo |-> todo]
Locked(p) == running[p] = "yes"   \* procMutex is held while the container runs

\* exportRawSamples makes the folders and writes the samples.
Exports(p) == folder' = folder \cup {p} /\ raw' = raw \cup {p}
NewLink(p, link) == chain' = [chain EXCEPT ![p] = Append(@, link)]

\* MsgFLENVPrepare; the model goes on with MsgFLDataPrepare at once.
ENVPrepare(p) ==
    /\ p \in env /\ ~Locked(p)
    /\ env' = env \ {p}
    /\ \/ status[p] # "EndPSI" /\ UNCHANGED <<status, chain, folder, raw, saved, faults>>
       \/ /\ status[p] = "EndPSI"
          /\ chain[p] = <<>> \/ (<<job, p>> \in Twice /\ Len(chain[p]) = 1)
          /\ status' = [status EXCEPT ![p] = "ENVPrepare"]
          /\ IF job = "train" THEN NewLink(p, Link("prepare", {})) /\ UNCHANGED <<folder, raw>>
             ELSE NewLink(p, Link("generate", {})) /\ Exports(p)
          /\ UNCHANGED <<saved, faults>>
       \/ /\ status[p] = "EndPSI" /\ Fault     \* the container does not run
          /\ status' = [status EXCEPT ![p] = "ENVPrepare"]
          /\ Save(p, "failed")
          /\ UNCHANGED <<chain, folder, raw>>
    /\ UNCHANGED <<job, psiVars, shares, files, partial, start, running, outVars>>

At(p, c, where) == c \in DOMAIN chain[p] /\ chain[p][c].at = where
Goes(p, c, link) == chain' = [chain EXCEPT ![p][c] = link]
Breaks(p, c) == Goes(p, c, Link("broken", {})) /\ Save(p, "failed")

\* MsgFLDataPrepare of the learner.
DataPrepare(p, c) ==
    /\ At(p, c, "prepare")
    /\ Exports(p)
    /\ Goes(p, c, Link("generate", {}))
    /\ UNCHANGED <<job, psiVars, status, env, shares, files, partial, start, running, outVars, saved, faults>>

Kinds(p) == IF job = "train" /\ p = Tag THEN {"sample", "label"} ELSE {"sample"}
Own(kind) == IF kind = "sample" THEN "own sample" ELSE "own label"
Share(kind, p) == [kind |-> kind, from |-> p]
Put(p, f) == [files EXCEPT ![p] = @ \cup {f}]

\* The file is created, and a file of that name is emptied ...
Creates(p, f) ==
    /\ files' = Put(p, f)
    /\ partial' = [partial EXCEPT ![p] = @ \cup {f}]
\* ... and written to the end.
Completes(p, f) == partial' = [partial EXCEPT ![p] = @ \ {f}]

\* "must delete raw data"
DeletesRaw(p) == raw' = raw \ {p}

\* What encrypt_data leaves.  In prediction a party's own share is where it will
\* be read from; in training it has still to be moved there.
TrainShares(p, c) ==
    /\ shares' = [shares EXCEPT ![p] = Kinds(p)]
    /\ Goes(p, c, Link(Own("sample"), {}))
    /\ UNCHANGED <<files, partial>>
PredictShares(p, c) ==
    /\ files' = Put(p, Share("sample", p))
    /\ Completes(p, Share("sample", p))
    /\ Goes(p, c, Link("sample", Others(p)))
    /\ UNCHANGED shares

\* MsgFLDataGenerate of the model: the command writes p's own share, row by row,
\* where it is counted while the command runs.
Encrypting(p, c) ==
    /\ job = "predict" /\ At(p, c, "generate") /\ p \in raw
    /\ Share("sample", p) \notin partial[p]
    /\ Creates(p, Share("sample", p))
    /\ UNCHANGED <<job, psiVars, status, env, chain, folder, raw, shares, start, running, outVars, saved, faults>>

\* MsgFLDataGenerate: the command reads the samples and writes the shares; then
\* the samples are deleted, but not if the command has failed.
DataGenerate(p, c) ==
    /\ At(p, c, "generate")
    /\ \/ /\ p \in raw
          /\ DeletesRaw(p)
          /\ IF job = "train" THEN TrainShares(p, c) ELSE PredictShares(p, c)
          /\ UNCHANGED <<saved, faults>>
       \/ p \notin raw /\ Breaks(p, c) /\ UNCHANGED <<raw, shares, files, partial, faults>>
       \/ /\ Goes(p, c, Link("not encrypted", {})) /\ Save(p, "failed")
          /\ Fault
          /\ UNCHANGED <<raw, shares, files, partial>>
    /\ UNCHANGED <<job, psiVars, status, env, folder, start, running, outVars>>

\* MsgFLDataSend of the learner: p's own share of its samples, and later that of
\* the labels, is moved to the folder of shares.
MoveOwn(p, c, kind) ==
    /\ At(p, c, Own(kind))
    /\ IF kind \notin shares[p]
       THEN Breaks(p, c) /\ UNCHANGED <<shares, files>>
       ELSE /\ shares' = [shares EXCEPT ![p] = @ \ {kind}]
            /\ files' = Put(p, Share(kind, p))
            /\ Goes(p, c, Link(kind, Others(p)))
            /\ UNCHANGED saved
    /\ UNCHANGED <<job, psiVars, status, env, folder, raw, partial, start, running, outVars, faults>>

\* What p does when q has the share.
SentTo(p, c, q, kind) ==
    LET left == chain[p][c].todo \ {q}
    IN  IF left # {} THEN Link(kind, left)
        ELSE IF kind = "sample" /\ "label" \in Kinds(p) THEN Link(Own("label"), {})
        ELSE Link("sent", {})

\* ... and each of the others gets its share: MsgFLDataExchange at q creates the
\* file, if the folder is there.  Otherwise q fails, and p, which finds no learner
\* there any more when it tries again.
Writes(kind) == IF kind = "sample" THEN "writing sample" ELSE "writing label"
BothFail(p, c, q) ==
    /\ Goes(p, c, Link("broken", {}))
    /\ saved' = [r \in Parties |-> IF r \in {p, q} THEN First(r, "failed") ELSE saved[r]]

Exchange(p, c, q, kind) ==
    /\ At(p, c, kind) /\ q = NextOf(chain[p][c].todo)
    /\ IF Alive(q) /\ q \in folder
       THEN /\ Creates(q, Share(kind, p))
            /\ Goes(p, c, Link(Writes(kind), chain[p][c].todo))
            /\ UNCHANGED saved
       ELSE BothFail(p, c, q) /\ UNCHANGED <<files, partial>>
    /\ UNCHANGED <<job, psiVars, status, env, folder, raw, shares, start, running, outVars, faults>>

\* Then q writes it, answers, and counts the files it has; when p has sent all, it
\* counts its own.  An answer may be lost, and p sends the share again; or q cannot
\* write, and leaves the file as it is.
ExchangeWrites(p, c, q, kind) ==
    /\ At(p, c, Writes(kind)) /\ q = NextOf(chain[p][c].todo)
    /\ \/ /\ Completes(q, Share(kind, p))
          /\ \/ /\ Goes(p, c, SentTo(p, c, q, kind))
                /\ start' = start \cup {q}
                        \cup IF SentTo(p, c, q, kind).at = "sent" THEN {p} ELSE {}
                /\ UNCHANGED faults
             \/ /\ Fault
                /\ Goes(p, c, Link(kind, chain[p][c].todo))
                /\ start' = start \cup {q}
          /\ UNCHANGED saved
       \/ Fault /\ BothFail(p, c, q) /\ UNCHANGED <<partial, start>>
    /\ UNCHANGED <<job, psiVars, status, env, folder, raw, shares, files, running, outVars>>

\* Mutant of EnoughToTrain: one file less.
EnoughToTrain_less(fs) == Cardinality(fs) >= 3

\* "three mpc sample file from different executor and one lable mpc file", of which
\* the folder holds nothing else; in prediction the files for this party are picked
\* by their names.
EnoughToTrain(fs) == Cardinality(fs) >= 4
EnoughToPredict(fs) == Cardinality(fs) >= 3

EnoughFiles(fs) == IF job = "train" THEN EnoughToTrain(fs) ELSE EnoughToPredict(fs)

\* MsgFLDataStatus: the files in the folder are counted, whole or not.  With too
\* few it ends; otherwise the goroutine it starts waits for the lock, and as files
\* only get more, they may as well be counted when it has it (MsgTrain, MsgPredictHup).
DataStatus(p) ==
    /\ p \in start /\ ~EnoughFiles(files[p])
    /\ start' = start \ {p}
    /\ UNCHANGED <<job, psiVars, status, env, chain, dataVars, running, outVars, saved, faults>>
Counted(p) ==
    /\ p \in start /\ EnoughFiles(files[p]) /\ ~Locked(p)
    /\ start' = start \ {p}

-----------------------------------------------------------------------------
(* The calculation. *)

\* Every goroutine with MsgPredictHup goes on with MsgPredictResultSend.
ResultSend(p) ==
    IF p = Tag THEN recount' = TRUE /\ UNCHANGED sending
    ELSE sending' = [sending EXCEPT ![p] = Others(p)] /\ UNCHANGED recount

\* The container is started once, when the environment is ready.
Starts(p) ==
    /\ status[p] = "ENVPrepare"
    /\ status' = [status EXCEPT ![p] = "Start"]
    /\ running' = [running EXCEPT ![p] = "yes"]
    /\ UNCHANGED <<sending, recount, saved>>

MsgTrain(p) ==
    /\ job = "train" /\ Counted(p)
    /\ \/ Starts(p)
       \/ status[p] # "ENVPrepare" /\ UNCHANGED <<status, running, sending, recount, saved>>
    /\ UNCHANGED <<job, psiVars, env, chain, dataVars, parts, cut, recovery, faults>>

\* In prediction a goroutine that finds the calculation over sends its part
\* again; without a part to read, p fails.
MsgPredictHup(p) ==
    /\ job = "predict" /\ Counted(p)
    /\ \/ Starts(p)
       \/ /\ status[p] # "ENVPrepare"
          /\ IF p = Tag \/ running[p] = "over" THEN ResultSend(p) /\ UNCHANGED saved
             ELSE Save(p, "failed") /\ UNCHANGED <<sending, recount>>
          /\ UNCHANGED <<status, running>>
    /\ UNCHANGED <<job, psiVars, env, chain, dataVars, parts, cut, recovery, faults>>

\* The container of p ends, when those of the others run or have run; or it fails.
ContainerEnds(p) ==
    /\ running[p] = "yes"
    /\ \/ /\ \A q \in Parties : running[q] # "no"
          /\ running' = [running EXCEPT ![p] = "over"]
          /\ status' = [status EXCEPT ![p] = "End"]
          /\ IF job = "train" THEN Save(p, "ok") /\ UNCHANGED <<parts, sending, recount>>
             ELSE /\ ResultSend(p)
                  /\ parts' = IF p = Tag THEN parts \cup {p} ELSE parts
                  /\ UNCHANGED saved
          /\ UNCHANGED faults
       \/ /\ Fault
          /\ running' = [running EXCEPT ![p] = "failed"]
          /\ Save(p, "failed")
          /\ UNCHANGED <<status, parts, sending, recount>>
    /\ UNCHANGED <<job, psiVars, env, chain, dataVars, start, cut, recovery>>

\* MsgPredictResultSend, and MsgPredictResultExchange at q, which creates the file
\* of p's part, but may be done and gone already.
ResultExchange(p, q) ==
    /\ sending[p] # {} /\ q = NextOf(sending[p]) /\ (q = Tag => p \notin cut)
    /\ IF ~Alive(q)
       THEN /\ sending' = [sending EXCEPT ![p] = @ \cap IF p \in cut THEN {Tag} ELSE {}]
            /\ Save(p, "failed")
            /\ UNCHANGED <<parts, cut>>
       ELSE /\ IF q = Tag
               THEN parts' = parts \cup {p} /\ cut' = cut \cup {p} /\ UNCHANGED sending
               ELSE sending' = [sending EXCEPT ![p] = @ \ {q}] /\ UNCHANGED <<parts, cut>>
            /\ UNCHANGED saved
    /\ UNCHANGED <<job, psiVars, status, env, chain, dataVars, start, running, recount, recovery, faults>>

\* Then the part is written.
ResultWrites(p) ==
    /\ p \in cut
    /\ cut' = cut \ {p} /\ recount' = TRUE
    /\ sending' = [sending EXCEPT ![p] = IF NextOf(@) = Tag THEN @ \ {Tag} ELSE @]
    /\ UNCHANGED <<job, psiVars, status, env, chain, dataVars, start, running, parts, recovery, saved, faults>>

\* All parts are in the folder, whole or not.
Whole == Cardinality(parts) >= 3

\* MsgPredictResultStatus.
ResultStatus ==
    /\ recount /\ ~Locked(Tag)
    /\ recount' = FALSE
    /\ IF Whole /\ status[Tag] = "End"
       THEN status' = [status EXCEPT ![Tag] = "Recovery"] /\ recovery' = "ready"
       ELSE UNCHANGED <<status, recovery>>
    /\ UNCHANGED <<job, psiVars, env, chain, dataVars, start, running, sending, parts, cut, saved, faults>>

\* MsgPredictResultRecovery: the command puts the parts together ...
Recovery ==
    /\ recovery = "ready"
    /\ \/ recovery' = "stop" /\ UNCHANGED <<saved, faults>>
       \/ Fault /\ recovery' = "over" /\ Save(Tag, "failed")
    /\ UNCHANGED <<job, psiVars, status, env, chain, dataVars, start, running, sending, parts, cut, recount>>

\* ... the others are told with MsgPredictStop, which is their success.  One that
\* has answered, but whose answer is lost, is told again and is gone by then.
PredictStop(q) ==
    /\ recovery = "stop" /\ q \in Others(Tag) /\ saved[q] # "ok"
    /\ \A r \in Others(Tag) : r < q => saved[r] = "ok"
    /\ \/ Alive(q) /\ Save(q, "ok") /\ UNCHANGED <<recovery, faults>>
       \/ /\ Alive(q) /\ Fault /\ recovery' = "over"
          /\ saved' = [saved EXCEPT ![q] = "ok", ![Tag] = First(Tag, "failed")]
       \/ ~Alive(q) /\ Save(Tag, "failed") /\ recovery' = "over" /\ UNCHANGED faults
    /\ UNCHANGED <<job, psiVars, status, env, chain, dataVars, start, running, sending, parts, cut, recount>>

\* When all have answered, the outcomes are read from the file and saved; only now
\* may it turn out that they cannot be read.
RecoveryOver ==
    /\ recovery = "stop" /\ \A q \in Others(Tag) : saved[q] = "ok"
    /\ recovery' = "over"
    /\ \/ /\ Save(Tag, "ok") /\ UNCHANGED faults
          /\ status' = [status EXCEPT ![Tag] = "EndRecovery"]
       \/ Fault /\ Save(Tag, "failed") /\ UNCHANGED status
    /\ UNCHANGED <<job, psiVars, env, chain, dataVars, start, running, sending, parts, cut, recount>>

-----------------------------------------------------------------------------
\* The goroutines with the data of p, and those with the result.
DataWork(p) ==
    \E c \in DOMAIN chain[p] :
        \/ DataPrepare(p, c)
        \/ Encrypting(p, c) \/ DataGenerate(p, c)
        \/ \E kind \in Kinds(p) :
              \/ MoveOwn(p, c, kind)
              \/ \E q \in chain[p][c].todo : Exchange(p, c, q, kind) \/ ExchangeWrites(p, c, q, kind)

ResultWork ==
    \/ \E p \in Parties : ResultWrites(p) \/ \E q \in sending[p] : ResultExchange(p, q)
    \/ ResultStatus
    \/ Recovery \/ (\E q \in Parties : PredictStop(q)) \/ RecoveryOver

DNNWork ==
    \/ \E p \in Parties :
          \/ NewLearner(p) \/ NewModel(p)
          \/ Intersect(p) \/ \E q \in Others(p) : AskReEnc(p, q)
          \/ ENVPrepare(p)
          \/ DataWork(p) \/ DataStatus(p)
          \/ MsgTrain(p) \/ MsgPredictHup(p)
          \/ ContainerEnds(p)
    \/ job = "predict" /\ ResultWork

-----------------------------------------------------------------------------
(* Properties. *)

\* The container calculates only when the share of every party's samples, and
\* in training that of the labels, is there: files are counted, not looked for.
SharesPresent ==
    \A p \in Parties : running[p] # "no" =>
        \A q \in Parties : \A kind \in Kinds(q) : Share(kind, q) \in files[p]

\* The goroutine c writes the share f at p.
Writing(f, c, p) ==
    IF f.from = p THEN At(p, c, "generate")
    ELSE At(f.from, c, Writes(f.kind)) /\ p = NextOf(chain[f.from][c].todo)

\* A share that is there but not whole is being written just now, and so is a part
\* of the result, however often it is sent; or the party has its result already.
\* That a container waits for these writes is not so: it may start on such a share.
SharesWritten ==
    /\ \A p \in Parties : \A f \in partial[p] :
          saved[p] # "none" \/ \E c \in DOMAIN chain[f.from] : Writing(f, c, p)
    /\ \A p \in cut : Tag \in sending[p]

\* The samples of a party lie on disk in the clear ("must delete raw data") only
\* while the command that encrypts them is still to come, or after it has failed.
PlainDeleted ==
    \A p \in raw : \E c \in DOMAIN chain[p] : At(p, c, "generate") \/ At(p, c, "not encrypted")

\* The outcome is put together from the parts of all parties, each of which may
\* be read while it is written.
RecoveredFromAll == recovery # "no" => parts = Parties

\* Every input of a container is there, though not always whole, and nothing is
\* left in the clear.
SharesSound == SharesPresent /\ SharesWritten /\ RecoveredFromAll /\ PlainDeleted

\* Every party has a result, or one of them has reported a failure, or a goroutine
\* with MsgPsiIntersect came so late that a party prepared its data again.
DNNOver ==
    \/ job = "none" \/ \A p \in Parties : saved[p] # "none"
    \/ \E p \in Parties : saved[p] = "failed" \/ (status[p] = "EndPSI" /\ chain[p] # <<>>)
=============================================================================
