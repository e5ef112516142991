----------------------------- MODULE VLLearner ------------------------------
(***************************************************************************)
(* Two parties train a vertical linear-regression model: Learner.advance   *)
(* (dai/mpc/learners/linear_reg_vl/linear_reg_vl.go) on top of process     *)
(* (process.go) and of the two-party PSI (dai/mpc/psi/psi.go).             *)
(* dai/mpc/learners/logic_reg_vl holds the same code but for the           *)
(* arithmetic, so that every definition stands for both.                   *)
(*                                                                         *)
(* A learner has no loop of its own.  Every message to itself is a new     *)
(* goroutine, every message to the other party a blocking call that is     *)
(* tried three times, and whatever is still under way may meet any later   *)
(* stage.  Ciphertexts are abstracted to the round they were computed in,  *)
(* the parameters (thetas) to the number of updates they have gone         *)
(* through, the cost criterion to a choice.                                *)
(*                                                                         *)
(* Most handlers compare the round of the message with the learner's       *)
(* without a lock, and only then enter the process under its mutex, so     *)
(* that the learner may move on in between: these are two steps, of a      *)
(* goroutine (Suspend) and of the handler of a remote message (Hold), or   *)
(* one where nothing comes in between.  Live evaluation (lEvaluated,       *)
(* stopSigNeglected) is off.                                               *)
(***************************************************************************)
EXTENDS Integers, Sequences, FiniteSets, Bags

CONSTANTS
    Parties,
    MaxRound,     \* bound: rounds that are entered
    Unreliable,   \* the messages, with their rounds, whose calls may time out
    Errors,       \* calculations may fail, and calls may find no learner yet
    Lags,         \* goroutines and handlers may be suspended before they use
                  \* a round that they have compared with the learner's
    LateStart,    \* the goroutines that start the training may lag a whole
                  \* round behind (TrainLoop)
    MaxFaults     \* bound: faults of any of these kinds

ASSUME PartiesAssumption == IsFiniteSet(Parties) /\ Cardinality(Parties) = 2
ASSUME BoundAssumption ==
    /\ MaxRound \in Nat \ {0}
    /\ MaxFaults \in Nat
    /\ {Errors, Lags, LateStart} \subseteq BOOLEAN

VARIABLES
    exists,       \* the trainer's table: "no", "yes" or "deleted"
    status,       \* Learner.status
    loopRound,    \* Learner.loopRound
    locked,       \* Learner.procMutex is held across a call
    psi,          \* what the PSI has received
    proc,         \* Learner.process
    go,           \* the goroutines of every party, a bag
    late,         \* calls that timed out, and may still be executed
    models,       \* successful results handed to SaveResult, in order
    failed,       \* a failure was handed to SaveResult
    panicked,
    faults        \* the kinds of the faults that have happened

vars == <<exists, status, loopRound, locked, psi, proc, go, late, models,
          failed, panicked, faults>>

Other(p) == CHOOSE q \in Parties : q # p

Rounds == 0..MaxRound
None == -1

StartPSI == "StartPSI"
EndPSI == "EndPSI"
StartTrain == "StartTrain"
EndTrain == "EndTrain"

(***************************************************************************)
(* A goroutine: what it does, for which round, and how far it is: "new",   *)
(* "checked" (past the comparison of rounds), or in a call to the other    *)
(* party, with the data it sends and the calls that failed so far.  The    *)
(* handler of a call is "entered" if it is past the comparison of rounds,  *)
(* but not yet in the process.                                             *)
(***************************************************************************)
Local(d, r) == [do |-> d, round |-> r, at |-> "new", data |-> None, tries |-> 0]
Call(d, r, data) == [do |-> d, round |-> r, at |-> "call", data |-> data, tries |-> 0]

Messages == {"ReEnc", "HomoPubkey", "PartBytes", "EncGradCost", "GradAndCost", "Status"}
RoundChecked == {"CalLocalGradCost", "CalEncGradCost", "DecLocalGradCost", "UpdCostGrad"}
Unchecked == {"PsiEnc", "Intersect", "TrainHup", "TrainLoop", "CheckStatus", "TrainModels"}

NewProcess ==
    [round |-> 0, thetas |-> None, rawPart |-> FALSE, part |-> None, nextPart |-> None,
     noise |-> FALSE, encFrom |-> None, dec |-> FALSE, gradFrom |-> None,
     stopped |-> 0, otherStopped |-> 0, pub |-> FALSE]

Init ==
    /\ exists = [p \in Parties |-> "no"]
    /\ status = [p \in Parties |-> StartPSI]
    /\ loopRound = [p \in Parties |-> 0]
    /\ locked = [p \in Parties |-> FALSE]
    /\ psi = [p \in Parties |-> [mine |-> FALSE, others |-> FALSE]]
    /\ proc = [p \in Parties |-> NewProcess]
    /\ go = [p \in Parties |-> EmptyBag]
    /\ late = [p \in Parties |-> {}]
    /\ models = [p \in Parties |-> <<>>]
    /\ failed = [p \in Parties |-> FALSE]
    /\ panicked = FALSE
    /\ faults = <<>>

-----------------------------------------------------------------------------
(***************************************************************************)
(* Helpers.  In all that follows, g is a goroutine of go[p].               *)
(***************************************************************************)

\* "if loopRound == l.loopRound".  The goroutine that TrainLoop starts reads
\* the round only when it runs.
RoundOf(p, g) == IF g.do = "CalLocalGradCost" /\ g.at = "new" THEN loopRound[p] ELSE g.round

\* A goroutine that finds, or has found, the learner in its round goes on.
Past(p, g, d) == g.do = d /\ (g.at = "checked" \/ RoundOf(p, g) = loopRound[p])

\* Goroutine g of p becomes the goroutines of the set gs.
Becomes(p, g, gs) == go' = [go EXCEPT ![p] = (@ (-) SetToBag({g})) (+) SetToBag(gs)]

Calling(g) == g.at \in {"call", "entered"}

\* handleError: the failure is reported, and the goroutine ends.
Fails(p, g) ==
    /\ failed' = [failed EXCEPT ![p] = TRUE]
    /\ Becomes(p, g, {})

FaultHappens(kind) == Len(faults) < MaxFaults /\ faults' = Append(faults, kind)

-----------------------------------------------------------------------------
(***************************************************************************)
(* The trainer: NewLearner, and the StopTask that follows SaveResult.      *)
(***************************************************************************)
NewLearner(p) ==
    /\ exists[p] = "no"
    /\ exists' = [exists EXCEPT ![p] = "yes"]
    /\ go' = [go EXCEPT ![p] = SetToBag({Local("PsiEnc", 0)})]
    /\ UNCHANGED <<status, loopRound, locked, psi, proc, late, models, failed, panicked, faults>>

DeleteLearner(p) ==
    /\ exists[p] = "yes"
    /\ failed[p] \/ models[p] # <<>>
    /\ exists' = [exists EXCEPT ![p] = "deleted"]
    /\ UNCHANGED <<status, loopRound, locked, psi, proc, go, late, models, failed, panicked, faults>>

-----------------------------------------------------------------------------
(***************************************************************************)
(* Sample alignment (PSI).                                                 *)
(***************************************************************************)
\* PsiEnc, and PsiAskReEnc which it starts: the encrypted ids are sent to be
\* encrypted again.
PsiEnc(p, g) ==
    /\ g.do = "PsiEnc"
    /\ Becomes(p, g, {Call("ReEnc", loopRound[p], 0)})
    /\ UNCHANGED <<exists, status, loopRound, locked, psi, proc, late, models, failed, panicked, faults>>

\* A call of p that asks for a re-encryption leaves one set with the peer q
\* that re-encrypts, and one with p when it is answered.
SetOtherFinalReEncryptIDSet(q, g) == [psi[q] EXCEPT !.others = @ \/ g.do = "ReEnc"]

SetReEncryptIDSet(p, g) == [psi[p] EXCEPT !.mine = @ \/ g.do = "ReEnc"]

\* IntersectParts is done once both re-encrypted sets are there.
IntersectParts(p) == psi[p].mine /\ psi[p].others

\* Every call that finds it done sets the status back, without a lock.
PsiIntersect(p, g) ==
    /\ g.do = "Intersect"
    /\ \/ /\ IntersectParts(p)
          /\ status' = [status EXCEPT ![p] = EndPSI]
          /\ Becomes(p, g, {Local("TrainHup", 0)})
       \/ /\ ~ IntersectParts(p)
          /\ Becomes(p, g, {})
          /\ UNCHANGED status
    /\ UNCHANGED <<exists, loopRound, locked, psi, proc, late, models, failed, panicked, faults>>

\* Mutant of TrainHup: the training starts before the key has been sent.
TrainHup_keyLater(p, g) ==
    /\ g.do = "TrainHup"
    /\ ~ locked[p]
    /\ status[p] = EndPSI
    /\ status' = [status EXCEPT ![p] = StartTrain]
    /\ proc' = [proc EXCEPT ![p].thetas = 0]
    /\ Becomes(p, g, {Call("HomoPubkey", loopRound[p], 0), Local("TrainLoop", 0)})
    /\ UNCHANGED <<exists, loopRound, locked, psi, late, models, failed, panicked, faults>>

\* process.init, then the public key is sent while procMutex is held.
TrainHup(p, g) ==
    /\ g.do = "TrainHup"
    /\ ~ locked[p]
    /\ \/ /\ status[p] = EndPSI
          /\ status' = [status EXCEPT ![p] = StartTrain]
          /\ proc' = [proc EXCEPT ![p].thetas = 0]
          /\ locked' = [locked EXCEPT ![p] = TRUE]
          /\ Becomes(p, g, {Call("HomoPubkey", loopRound[p], 0)})
       \/ /\ status[p] # EndPSI
          /\ Becomes(p, g, {})
          /\ UNCHANGED <<status, proc, locked>>
    /\ UNCHANGED <<exists, loopRound, psi, late, models, failed, panicked, faults>>

-----------------------------------------------------------------------------
(***************************************************************************)
(* One round of gradient descent.                                          *)
(***************************************************************************)

\* upRound: everything of the old round is cleared; the part that the other
\* party sent ahead becomes the part of this round.
upRound(pr) ==
    [NewProcess EXCEPT !.round = pr.round + 1, !.thetas = pr.thetas + 1,
                       !.part = pr.nextPart, !.pub = pr.pub]

\* A goroutine that has still to compare its round, and will find the learner
\* past it, only ends.
Outdated(g, r) ==
    /\ g.at = "new"
    /\ \/ g.do \in RoundChecked \ {"CalLocalGradCost"} /\ g.round < r
       \/ g.do = "TrainLoop" /\ g.round \in 1..r

\* TrainLoop g of p becomes the calculation of round r; the goroutines of
\* earlier rounds end, which is the same whenever it happens.
EntersRound(p, g, r) ==
    LET rest == go[p] (-) SetToBag({g})
        kept == {h \in BagToSet(rest) : ~ Outdated(h, r)}
    IN  go' = [go EXCEPT ![p] = [h \in kept |-> rest[h]] (+) SetToBag({Local("CalLocalGradCost", 0)})]

\* Round 0 is always accepted, any other round only after the one before it.
\* Unless LateStart, the goroutines that start the training have run before it
\* gets to the next round.
TrainLoop(p, g) ==
    /\ g.do = "TrainLoop" /\ g.round <= MaxRound
    /\ ~ locked[p]
    /\ ~ LateStart /\ g.round > 0 => \A h \in BagToSet(go[p]) :
          h.do \notin {"Intersect", "TrainHup"} /\ (h.do = "TrainLoop" => h.round > 0)
    /\ \/ /\ g.round # 0 /\ g.round # loopRound[p] + 1
          /\ Becomes(p, g, {})
          /\ UNCHANGED <<loopRound, proc, failed>>
       \/ /\ g.round = 0 \/ g.round = loopRound[p] + 1
          /\ loopRound' = [loopRound EXCEPT ![p] = g.round]
          /\ \/ /\ g.round = proc[p].round
                /\ EntersRound(p, g, g.round)
                /\ UNCHANGED <<proc, failed>>
             \/ /\ g.round = proc[p].round + 1
                /\ proc' = [proc EXCEPT ![p] = upRound(@)]
                /\ EntersRound(p, g, g.round)
                /\ UNCHANGED failed
             \/ /\ g.round \notin {proc[p].round, proc[p].round + 1}
                /\ Fails(p, g)
                /\ UNCHANGED proc
    /\ UNCHANGED <<exists, status, locked, psi, late, models, panicked, faults>>

\* A goroutine of another round ends.
OtherRound(p, g) ==
    /\ g.do \in RoundChecked /\ g.at = "new"
    /\ RoundOf(p, g) # loopRound[p]
    /\ Becomes(p, g, {})
    /\ UNCHANGED <<exists, status, loopRound, locked, psi, proc, late, models, failed, panicked, faults>>

\* A goroutine is suspended after the comparison of rounds.
Suspend(p, g) ==
    /\ g.do \in RoundChecked /\ g.at = "new"
    /\ RoundOf(p, g) = loopRound[p]
    /\ Lags
    /\ FaultHappens("suspended")
    /\ Becomes(p, g, {[g EXCEPT !.round = loopRound[p], !.at = "checked"]})
    /\ UNCHANGED <<exists, status, loopRound, locked, psi, proc, late, models, failed, panicked>>

\* Only the first calculation of a round is sent.
CalLocalGradCost(p, g) ==
    /\ Past(p, g, "CalLocalGradCost")
    /\ proc' = [proc EXCEPT ![p].rawPart = TRUE]
    /\ Becomes(p, g, IF proc[p].rawPart THEN {} ELSE {Call("PartBytes", RoundOf(p, g), proc[p].round)})
    /\ UNCHANGED <<exists, status, loopRound, locked, psi, late, models, failed, panicked, faults>>

\* calEncGradientAndCost waits for the part of the other party; again only the
\* first result is sent.  Without the other party's public key it is an error.
EncReady(pr) == ~ pr.noise /\ pr.part # None /\ pr.rawPart

CalEncGradCost(p, g) ==
    LET first == EncReady(proc[p]) /\ proc[p].pub IN
    /\ Past(p, g, "CalEncGradCost")
    /\ proc' = IF first THEN [proc EXCEPT ![p].noise = TRUE] ELSE proc
    /\ failed' = [failed EXCEPT ![p] = @ \/ (EncReady(proc[p]) /\ ~ proc[p].pub)]
    /\ Becomes(p, g, IF first THEN {Call("EncGradCost", g.round, proc[p].round)} ELSE {})
    /\ UNCHANGED <<exists, status, loopRound, locked, psi, late, models, panicked, faults>>

\* Only the first decryption is sent; decrypting nothing is an error.
DecLocalGradCost(p, g) ==
    LET first == ~ proc[p].dec /\ proc[p].encFrom # None IN
    /\ Past(p, g, "DecLocalGradCost")
    /\ proc' = IF first THEN [proc EXCEPT ![p].dec = TRUE] ELSE proc
    /\ failed' = [failed EXCEPT ![p] = @ \/ (~ proc[p].dec /\ proc[p].encFrom = None)]
    /\ Becomes(p, g, IF first THEN {Call("GradAndCost", g.round, proc[p].encFrom)} ELSE {})
    /\ UNCHANGED <<exists, status, loopRound, locked, psi, late, models, panicked, faults>>

\* StopTraining: the cost criterion, which round 0 never meets.
StopTraining(r) == IF r = 0 THEN {2} ELSE {1, 2}

\* updateCostAndGradient decides once per round; it panics if what it needs
\* is not there.
UpdCostGrad(p, g) ==
    LET pr == proc[p]
        ready == pr.gradFrom # None /\ pr.noise
    IN
    /\ Past(p, g, "UpdCostGrad")
    /\ panicked' = (panicked \/ (pr.stopped = 0 /\ ~ ready))
    /\ \E s \in IF pr.stopped # 0 THEN {pr.stopped} ELSE StopTraining(pr.round) :
          /\ proc' = [proc EXCEPT ![p].stopped = s]
          /\ Becomes(p, g, {Call("Status", g.round, s)})
    /\ UNCHANGED <<exists, status, loopRound, locked, psi, late, models, failed, faults>>

\* Mutant of stop: the other party's decision is ignored.
stop_own(pr) == pr.stopped = 1

decided(pr) == pr.stopped # 0 /\ pr.otherStopped # 0
stop(pr) == pr.stopped = 1 /\ pr.otherStopped = 1

\* Reads the process without its mutex, and whatever round it is in.
CheckStatus(p, g) ==
    /\ g.do = "CheckStatus"
    /\ Becomes(p, g,
         IF ~ decided(proc[p]) THEN {}
         ELSE IF stop(proc[p]) THEN {Local("TrainModels", g.round)}
         ELSE {Local("TrainLoop", g.round + 1)})
    /\ UNCHANGED <<exists, status, loopRound, locked, psi, proc, late, models, failed, panicked, faults>>

\* The model is handed to SaveResult.
TrainModels(p, g) ==
    /\ g.do = "TrainModels"
    /\ ~ locked[p]
    /\ \/ /\ status[p] = StartTrain
          /\ status' = [status EXCEPT ![p] = EndTrain]
          /\ models' = [models EXCEPT ![p] =
                Append(@, [round |-> proc[p].round, thetas |-> proc[p].thetas])]
       \/ status[p] # StartTrain /\ UNCHANGED <<status, models>>
    /\ Becomes(p, g, {})
    /\ UNCHANGED <<exists, loopRound, locked, psi, proc, late, failed, panicked, faults>>

\* A calculation, or the reading of the samples, returns an error.
Computes(p, g) ==
    \/ g.do \in {"PsiEnc", "Intersect"}
    \/ g.do = "TrainHup" /\ ~ locked[p] /\ status[p] = EndPSI
    \/ g.do = "TrainModels" /\ ~ locked[p] /\ status[p] = StartTrain
    \/ Past(p, g, "CalLocalGradCost") /\ ~ proc[p].rawPart
    \/ Past(p, g, "CalEncGradCost") /\ EncReady(proc[p])
    \/ Past(p, g, "DecLocalGradCost") /\ ~ proc[p].dec
    \/ Past(p, g, "UpdCostGrad") /\ proc[p].stopped = 0

CalculationFails(p, g) ==
    /\ ~ Calling(g)
    /\ Computes(p, g)
    /\ Errors
    /\ FaultHappens("error")
    /\ Fails(p, g)
    /\ status' = [status EXCEPT ![p] = CASE g.do = "TrainHup" -> StartTrain
                                         [] g.do = "TrainModels" -> EndTrain
                                         [] OTHER -> @]
    /\ UNCHANGED <<exists, loopRound, locked, psi, proc, late, models, panicked>>

-----------------------------------------------------------------------------
(***************************************************************************)
(* Messages of the other party.                                            *)
(***************************************************************************)

\* The messages whose handlers compare rounds.
Compared == {"PartBytes", "EncGradCost", "GradAndCost", "Status"}

\* The handler at q finds, or has found, the learner in the round of message m;
\* a part may also be of the next round.
Accepts(q, m) ==
    \/ m.at = "entered"
    \/ m.round = loopRound[q]
    \/ m.do = "PartBytes" /\ m.round = loopRound[q] + 1

\* setPartBytesFromOther refuses a round that the process is not near to.
PartRefused(q, m) ==
    /\ m.do = "PartBytes" /\ Accepts(q, m)
    /\ m.round \notin {proc[q].round, proc[q].round + 1}

\* The learner has left the round that the handler compared its own with, and
\* the process, which does not know the rounds of other messages than parts,
\* takes the message for one of its present round.
Overtaken(q, m) == m.at = "entered" /\ m.do # "PartBytes" /\ m.round # loopRound[q]

\* Mutant of SetPart: a part that is sent ahead is not kept for the next round.
SetPart_current(pr, m) == [pr EXCEPT !.part = m.data]

\* Mutant of SetPart: a part that is sent ahead is dropped.
SetPart_drop(pr, m) == IF m.round = pr.round THEN [pr EXCEPT !.part = m.data] ELSE pr

\* setPartBytesFromOther keeps a part that is sent ahead for the next round.
SetPart(pr, m) ==
    IF m.round = pr.round THEN [pr EXCEPT !.part = m.data] ELSE [pr EXCEPT !.nextPart = m.data]

\* What the message leaves in the process of q.
Received(q, m) ==
    LET pr == proc[q] IN
    CASE m.do = "HomoPubkey" -> [pr EXCEPT !.pub = TRUE]
      [] m.do = "PartBytes" /\ Accepts(q, m) -> SetPart(pr, m)
      [] m.do = "EncGradCost" /\ Accepts(q, m) /\ pr.encFrom = None ->
            [pr EXCEPT !.encFrom = m.data]
      [] m.do = "GradAndCost" /\ Accepts(q, m) /\ pr.gradFrom = None ->
            [pr EXCEPT !.gradFrom = m.data]
      [] m.do = "Status" /\ Accepts(q, m) /\ pr.otherStopped = 0 ->
            [pr EXCEPT !.otherStopped = m.data]
      [] OTHER -> pr

\* The goroutines that the message starts at q.  A part is compared with the
\* learner's round once more.
Started(q, m) ==
    CASE m.do = "ReEnc" -> {Local("Intersect", 0)}
      [] m.do = "PartBytes" /\ m.round = loopRound[q] -> {Local("CalEncGradCost", m.round)}
      [] m.do = "EncGradCost" /\ Accepts(q, m) /\ proc[q].encFrom = None ->
            {Local("DecLocalGradCost", m.round)}
      [] m.do = "GradAndCost" /\ Accepts(q, m) /\ proc[q].gradFrom = None ->
            {Local("UpdCostGrad", m.round)}
      [] m.do = "Status" /\ Accepts(q, m) -> {Local("CheckStatus", m.round)}
      [] OTHER -> {}

\* What the caller goes on with when the call has been answered.
Answered(m) ==
    CASE m.do = "ReEnc" -> {Local("Intersect", 0)}
      [] m.do = "HomoPubkey" -> {Local("TrainLoop", 0)}
      [] m.do = "PartBytes" -> {Local("CalEncGradCost", m.round)}
      [] m.do = "Status" -> {Local("CheckStatus", m.round)}
      [] OTHER -> {}

\* The goroutines of p after its call g failed: the call is tried three times.
Retried(p, g) ==
    (go[p] (-) SetToBag({g})) (+)
        IF g.tries < 2 THEN SetToBag({[g EXCEPT !.tries = @ + 1, !.at = "call"]}) ELSE EmptyBag

GivesUp(p, g) ==
    /\ failed' = [failed EXCEPT ![p] = @ \/ g.tries = 2]
    /\ locked' = [locked EXCEPT ![p] = @ /\ ~ (g.do = "HomoPubkey" /\ g.tries = 2)]

\* The trainer finds the learner q of a call; a handler that it was found for
\* goes on although it is deleted.
Found(q, g) == exists[q] = "yes" \/ (exists[q] = "deleted" /\ g.at = "entered")

Marks(q, g) == faults' = IF Overtaken(q, g) THEN Append(faults, "overtaken") ELSE faults

\* The call is executed and answered.
Deliver(p, g) ==
    LET q == Other(p) IN
    /\ Calling(g)
    /\ Found(q, g)
    /\ ~ PartRefused(q, g)
    /\ proc' = [proc EXCEPT ![q] = Received(q, g)]
    /\ psi' = [psi EXCEPT ![p] = SetReEncryptIDSet(p, g), ![q] = SetOtherFinalReEncryptIDSet(q, g)]
    /\ locked' = [locked EXCEPT ![p] = @ /\ g.do # "HomoPubkey"]
    /\ go' = [go EXCEPT ![p] = (@ (-) SetToBag({g})) (+) SetToBag(Answered(g)),
                        ![q] = @ (+) SetToBag(Started(q, g))]
    /\ Marks(q, g)
    /\ UNCHANGED <<exists, status, loopRound, late, models, failed, panicked>>

\* The other party's learner has been deleted: none of the tries succeeds.
PeerDeleted(p, g) ==
    /\ g.at = "call"
    /\ exists[Other(p)] = "deleted"
    /\ locked' = [locked EXCEPT ![p] = @ /\ g.do # "HomoPubkey"]
    /\ Fails(p, g)
    /\ UNCHANGED <<exists, status, loopRound, psi, proc, late, models, panicked, faults>>

\* setPartBytesFromOther fails, which the other party reports and answers.
Refuse(p, g) ==
    LET q == Other(p) IN
    /\ Calling(g)
    /\ Found(q, g) /\ PartRefused(q, g)
    /\ failed' = [failed EXCEPT ![p] = @ \/ g.tries = 2, ![q] = TRUE]
    /\ go' = [go EXCEPT ![p] = Retried(p, g)]
    /\ UNCHANGED <<exists, status, loopRound, locked, psi, proc, late, models, panicked, faults>>

\* The other party has no learner yet.
NotYet(p, g) ==
    /\ g.at = "call"
    /\ exists[Other(p)] = "no"
    /\ Errors
    /\ FaultHappens("no learner")
    /\ GivesUp(p, g)
    /\ go' = [go EXCEPT ![p] = Retried(p, g)]
    /\ UNCHANGED <<exists, status, loopRound, psi, proc, late, models, panicked>>

\* A handler is suspended after the comparison of rounds.
Enters(p, g) ==
    /\ g.do \in Compared /\ g.at = "call"
    /\ exists[Other(p)] = "yes"
    /\ Accepts(Other(p), g)
    /\ Lags

Hold(p, g) ==
    /\ Enters(p, g)
    /\ FaultHappens("delay")
    /\ Becomes(p, g, {[g EXCEPT !.at = "entered"]})
    /\ UNCHANGED <<exists, status, loopRound, locked, psi, proc, late, models, failed, panicked>>

\* The caller's deadline passes; the call may be executed all the same, at any
\* later time, or never.  With a handler that is held this is no other fault.
TimeOut(p, g) ==
    /\ Calling(g)
    /\ <<g.do, g.round>> \in Unreliable
    /\ \/ g.at = "call" /\ FaultHappens("delay")
       \/ g.at = "entered" /\ UNCHANGED faults
    /\ late' = [late EXCEPT ![p] = @ \cup {g}]
    /\ GivesUp(p, g)
    /\ go' = [go EXCEPT ![p] = Retried(p, g)]
    /\ UNCHANGED <<exists, status, loopRound, psi, proc, models, panicked>>

\* The handler of a call that timed out is suspended.
LateHold(p, g) ==
    /\ Enters(p, g)
    /\ late' = [late EXCEPT ![p] = (@ \ {g}) \cup {[g EXCEPT !.at = "entered"]}]
    /\ UNCHANGED <<exists, status, loopRound, locked, psi, proc, go, models, failed, panicked, faults>>

LateDelivery(p, g) ==
    LET q == Other(p) IN
    /\ Found(q, g)
    /\ late' = [late EXCEPT ![p] = @ \ {g}]
    /\ \/ /\ PartRefused(q, g)
          /\ failed' = [failed EXCEPT ![q] = TRUE]
          /\ UNCHANGED <<proc, psi, go>>
       \/ /\ ~ PartRefused(q, g)
          /\ proc' = [proc EXCEPT ![q] = Received(q, g)]
          /\ psi' = [psi EXCEPT ![q] = SetOtherFinalReEncryptIDSet(q, g)]
          /\ go' = [go EXCEPT ![q] = @ (+) SetToBag(Started(q, g))]
          /\ UNCHANGED failed
    /\ Marks(q, g)
    /\ UNCHANGED <<exists, status, loopRound, locked, models, panicked>>

-----------------------------------------------------------------------------
\* A step of the code of party p.
Step(p) ==
    \/ NewLearner(p)
    \/ DeleteLearner(p)
    \/ \E g \in BagToSet(go[p]) :
          \/ PsiEnc(p, g) \/ PsiIntersect(p, g) \/ TrainHup(p, g)
          \/ TrainLoop(p, g) \/ OtherRound(p, g) \/ CalLocalGradCost(p, g)
          \/ CalEncGradCost(p, g) \/ DecLocalGradCost(p, g) \/ UpdCostGrad(p, g)
          \/ CheckStatus(p, g) \/ TrainModels(p, g)
          \/ Deliver(p, g) \/ Refuse(p, g) \/ PeerDeleted(p, g)

Fault(p) ==
    \/ \E g \in BagToSet(go[p]) :
          NotYet(p, g) \/ TimeOut(p, g) \/ Hold(p, g) \/ CalculationFails(p, g) \/ Suspend(p, g)
    \/ \E g \in late[p] : LateHold(p, g) \/ LateDelivery(p, g)

Next == \E p \in Parties : Step(p) \/ Fault(p)

Spec == Init /\ [][Next]_vars

\* Goroutines are scheduled and calls without a fault return.
FairSpec == Spec /\ \A p \in Parties : WF_vars(Step(p))

-----------------------------------------------------------------------------
(***************************************************************************)
(* Properties.                                                             *)
(***************************************************************************)

Goroutines ==
    [do: Messages \cup RoundChecked \cup Unchecked, round: 0..MaxRound + 1,
     at: {"new", "checked", "call", "entered"}, data: Rounds \cup {None, 1, 2}, tries: 0..2]

\* The state of the learners is well formed.
TypeOK ==
    /\ exists \in [Parties -> {"no", "yes", "deleted"}]
    /\ status \in [Parties -> {StartPSI, EndPSI, StartTrain, EndTrain}]
    /\ loopRound \in [Parties -> Rounds]
    /\ locked \in [Parties -> BOOLEAN]
    /\ psi \in [Parties -> [mine: BOOLEAN, others: BOOLEAN]]
    /\ \A p \in Parties :
          /\ proc[p].round \in Rounds /\ proc[p].thetas \in Nat \cup {None}
          /\ proc[p].stopped \in 0..2 /\ proc[p].otherStopped \in 0..2
          /\ BagToSet(go[p]) \subseteq Goroutines
          /\ late[p] \subseteq Goroutines

\* process.init runs "after PSI, before training" (process.go:68): since then
\* the parameters of a learner have been updated once per round.
InitBeforeTraining ==
    \A p \in Parties : proc[p].thetas # None => proc[p].thetas = proc[p].round

\* No calculation runs without its inputs, however goroutines and calls are
\* delayed: updateCostAndGradient does not panic (process.go:284), and the
\* other party's public key, which is set without a lock, is there before the
\* first part that is encrypted with it; unless a learner was initialised
\* again, whose messages carry the wrong round.
InputsPresent ==
    InitBeforeTraining =>
        /\ ~ panicked
        /\ \A p \in Parties : EncReady(proc[p]) => proc[p].pub

Happened(kind) == kind \in {faults[i] : i \in DOMAIN faults}

\* What a party calculates with belongs to its round: no late or repeated
\* message mixes the data of two rounds, unless a learner was initialised
\* again, a goroutine was suspended between comparing its round with the
\* learner's and using it, or the learner overtook the handler of a message.
DataOfRound ==
    InitBeforeTraining /\ ~ Happened("suspended") /\ ~ Happened("overtaken") =>
        \A p \in Parties : LET pr == proc[p] IN
            /\ {pr.part, pr.encFrom, pr.gradFrom} \subseteq {None, pr.round}
            /\ pr.nextPart \in {None, pr.round + 1}

\* The parties agree to stop: neither has a model of a round which the other
\* one has not decided to be the last, has left, or is about to leave.
StopTogether ==
    \A p \in Parties : \A i \in DOMAIN models[p] :
        LET q == Other(p)
            last == models[p][i].round
        IN  /\ proc[q].round = last /\ proc[q].stopped = 1
            /\ \A g \in BagToSet(go[q]) : g.do = "TrainLoop" => g.round <= last

\* A learner hands over one model at most, although two goroutines check the
\* status of every round.
SavedOnce == \A p \in Parties : Len(models[p]) <= 1

\* A party hands over one model at most, and of a round that both have decided
\* to be the last, whichever of its two goroutines comes first (TrainModels);
\* unless a learner overtook the handler of a message.
ModelsAgree == SavedOnce /\ (~ Happened("overtaken") => StopTogether)

\* Both parties finish the training and hand over their models, unless the
\* bound on the rounds is reached; with the goroutines that start the training
\* in time, if LateStart is FALSE.
TrainingSucceeds ==
    <>(\A p \in Parties : \/ models[p] # <<>>
                         \/ BagIn(Local("TrainLoop", MaxRound + 1), go[p]))
=============================================================================
