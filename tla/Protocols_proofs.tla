-------------------------- MODULE Protocols_proofs ---------------------------
(***************************************************************************)
(* Proofs about the protocols that follow training: predictions, tasks of  *)
(* PaddleFL, and evaluations, for any number of folds, tries, repetitions  *)
(* and faults.                                                             *)
(***************************************************************************)
EXTENDS MCProtocols, FiniteSetTheorems, TLAPS

-----------------------------------------------------------------------------
(***************************************************************************)
(* Prediction.                                                             *)
(***************************************************************************)

PredictTyped ==
    /\ pending \in [Sides -> [Messages -> Int]]
    /\ modelStatus \in [Sides -> {"StartPSI", "EndPSI", "StartPredict", "EndPredict"}]
    /\ reported \in [Sides -> Seq({"ok", "failed"})]

\* p and its peer agree on the samples.
Agreed(p) == common /\ BothSets(p)

\* Who has got beyond the intersection has agreed on it, and who is about to
\* report success knows the part of the other to be delivered.
PredictInv ==
    /\ \A p \in Sides : modelStatus[p] # "StartPSI" => Agreed(p)
    /\ delivering => Agreed("feature")
    /\ partFromOther => Agreed("feature")
    /\ pending["feature"]["PredictSum"] > 0 => partFromOther
    /\ \A p \in Sides : pending[p]["ok"] > 0 => partFromOther /\ Agreed(p)
    /\ OkMeansDelivered

\* A goroutine with a message runs and starts others.
LEMMA RunsMoves ==
    ASSUME PredictTyped, NEW p \in Sides, NEW m \in Messages, NEW new \in SUBSET Messages,
           Runs(p, m, new)
    PROVE  /\ pending' \in [Sides -> [Messages -> Int]]
           /\ pending[p][m] > 0
           /\ \A q \in Sides : q # p => pending'[q] = pending[q]
           /\ \A x \in Messages : pending'[p][x] > 0 => pending[p][x] > 0 \/ x \in new
  <1>1. pending[p] \in [Messages -> Int] /\ pending[p][m] > 0
    BY DEF Runs, PredictTyped
  <1>2. \A x \in Messages : /\ After(p, m, new)[x] \in Int
                            /\ After(p, m, new)[x] > 0 => pending[p][x] > 0 \/ x \in new
    BY <1>1 DEF After
  <1>3. After(p, m, new) \in [Messages -> Int]
    BY <1>2 DEF After
  <1>4. pending' = [pending EXCEPT ![p] = After(p, m, new)]
    BY DEF Runs
  <1>5. pending \in [Sides -> [Messages -> Int]]
    BY DEF PredictTyped
  <1> HIDE DEF After
  <1> QED
    BY <1>1, <1>2, <1>3, <1>4, <1>5

LEMMA PredictStart == ProtocolInit => PredictTyped /\ PredictInv
  <1> SUFFICES ASSUME NEW algos, PredictInit(algos) PROVE PredictTyped /\ PredictInv
    BY DEF ProtocolInit
  <1> USE DEF PredictInit
  <1>1. PredictTyped
    <2>1. pending \in [Sides -> [Messages -> Int]] /\ reported \in [Sides -> Seq({"ok", "failed"})]
      OBVIOUS
    <2> QED
      BY <2>1 DEF PredictTyped
  <1>2. "feature" \in Sides /\ "PredictSum" \in Messages /\ "ok" \in Messages
    BY DEF Sides, Messages
  <1>3. \A p \in Sides : reported[p] = <<>> /\ pending[p]["ok"] = 0 /\ modelStatus[p] = "StartPSI"
    BY <1>2
  <1> QED
    BY <1>1, <1>2, <1>3 DEF PredictInv, OkMeansDelivered

LEMMA PredictStep ==
    PredictTyped /\ PredictInv /\ [ProtocolNext]_protocolVars => (PredictTyped /\ PredictInv)'
  <1> SUFFICES ASSUME PredictTyped, PredictInv, [ProtocolNext]_protocolVars
               PROVE  (PredictTyped /\ PredictInv)'
    OBVIOUS
  <1> DEFINE Goal == (PredictTyped /\ PredictInv)'
  <1>0. /\ \A p \in Sides : p \in {"label", "feature"}
        /\ "feature" \in Sides /\ "label" \in Sides
        /\ \A m \in {"PsiEnc", "PsiAskReEnc", "PsiIntersect", "PredictHup", "PredictSum",
                     "ok", "failed", "StopTask"} : m \in Messages
    BY DEF Sides, Messages
  \* Steps that only end goroutines or start others than those for success.
  <1>1. ASSUME UNCHANGED <<common, modelStatus, delivering, partFromOther, reEncrypted, finalOfOther, reported>>,
               NEW p \in Sides, NEW m \in Messages, NEW new \in SUBSET Messages,
               "ok" \notin new, "PredictSum" \notin new, Runs(p, m, new)
        PROVE  Goal
    <2>1. /\ pending' \in [Sides -> [Messages -> Int]]
          /\ \A q \in Sides : q # p => pending'[q] = pending[q]
          /\ \A x \in Messages : pending'[p][x] > 0 => pending[p][x] > 0 \/ x \in new
      BY <1>1, RunsMoves
    <2>2. /\ \A q \in Sides : pending'[q]["ok"] > 0 => pending[q]["ok"] > 0
          /\ pending'["feature"]["PredictSum"] > 0 => pending["feature"]["PredictSum"] > 0
      BY <1>0, <1>1, <2>1
    <2>3. \A q : Agreed(q)' = Agreed(q) /\ BothSets(q)' = BothSets(q)
      BY <1>1 DEF Agreed, BothSets
    <2>4. PredictTyped'
      BY <1>1, <2>1 DEF PredictTyped
    <2> QED
      BY <1>1, <2>2, <2>3, <2>4 DEF PredictInv, OkMeansDelivered
  <1>2. ASSUME NEW p \in Sides, StartModel(p) PROVE Goal
    <2>1. UNCHANGED <<common, modelStatus, delivering, partFromOther, reEncrypted, finalOfOther>>
      BY <1>2 DEF StartModel
    <2>2. \A q : Agreed(q)' = Agreed(q) /\ BothSets(q)' = BothSets(q)
      BY <2>1 DEF Agreed, BothSets
    <2>3. CASE pending' = [pending EXCEPT ![p]["PsiEnc"] = 1] /\ UNCHANGED reported
      <3>1. pending' \in [Sides -> [Messages -> Int]]
            /\ \A q \in Sides : pending'[q]["ok"] = pending[q]["ok"]
            /\ pending'["feature"]["PredictSum"] = pending["feature"]["PredictSum"]
        <4>1. PICK h : h = [pending[p] EXCEPT !["PsiEnc"] = 1]
          OBVIOUS
        <4>2. h \in [Messages -> Int] /\ h["ok"] = pending[p]["ok"] /\ h["PredictSum"] = pending[p]["PredictSum"]
          BY <1>0, <4>1 DEF PredictTyped
        <4>3. pending' = [pending EXCEPT ![p] = h]
          BY <2>3, <4>1
        <4> QED
          BY <1>0, <4>2, <4>3 DEF PredictTyped
      <3> QED
        BY <2>1, <2>2, <2>3, <3>1 DEF PredictTyped, PredictInv, OkMeansDelivered
    <2>4. CASE reported' = [reported EXCEPT ![p] = Append(@, "failed")] /\ UNCHANGED pending
      <3>1. /\ reported' \in [Sides -> Seq({"ok", "failed"})]
            /\ \A q \in Sides : \A i \in DOMAIN reported'[q] : reported'[q][i] = "ok" =>
                  i \in DOMAIN reported[q] /\ reported[q][i] = "ok"
        BY <2>4 DEF PredictTyped
      <3> QED
        BY <2>1, <2>2, <2>4, <3>1 DEF PredictTyped, PredictInv, OkMeansDelivered
    <2> QED
      BY <1>2, <2>3, <2>4 DEF StartModel
  <1>3. ASSUME NEW p \in Sides, NEW m \in {"ok", "failed"}, SavePrediction(p, m) PROVE Goal
    <2>1. UNCHANGED <<common, modelStatus, delivering, partFromOther, reEncrypted, finalOfOther>>
          /\ Runs(p, m, {"StopTask"}) /\ reported' = [reported EXCEPT ![p] = Append(@, m)]
      BY <1>3 DEF SavePrediction
    <2>2. \A q : Agreed(q)' = Agreed(q) /\ BothSets(q)' = BothSets(q)
      BY <2>1 DEF Agreed, BothSets
    <2>3. /\ pending' \in [Sides -> [Messages -> Int]]
          /\ pending[p][m] > 0
          /\ \A q \in Sides : q # p => pending'[q] = pending[q]
          /\ \A x \in Messages : pending'[p][x] > 0 => pending[p][x] > 0 \/ x \in {"StopTask"}
      BY <1>0, <2>1, RunsMoves
    <2>4. /\ \A q \in Sides : pending'[q]["ok"] > 0 => pending[q]["ok"] > 0
          /\ pending'["feature"]["PredictSum"] > 0 => pending["feature"]["PredictSum"] > 0
      BY <1>0, <2>3
    <2>5. reported' \in [Sides -> Seq({"ok", "failed"})]
      BY <2>1 DEF PredictTyped
    <2>6. ASSUME NEW q \in Sides, NEW i \in DOMAIN reported'[q], reported'[q][i] = "ok"
          PROVE  \/ i \in DOMAIN reported[q] /\ reported[q][i] = "ok"
                 \/ pending[q]["ok"] > 0
      BY <2>1, <2>3, <2>6 DEF PredictTyped
    <2>7. PredictTyped'
      BY <2>1, <2>3, <2>5 DEF PredictTyped
    <2>8. OkMeansDelivered'
      <3> SUFFICES ASSUME NEW q \in Sides, NEW i \in DOMAIN reported'[q], reported'[q][i] = "ok"
                   PROVE  partFromOther /\ common /\ BothSets(q) /\ BothSets("feature")
        BY <2>1, <2>2 DEF OkMeansDelivered
      <3>1. CASE i \in DOMAIN reported[q] /\ reported[q][i] = "ok"
        BY <3>1 DEF PredictInv, OkMeansDelivered
      <3>2. CASE pending[q]["ok"] > 0
        BY <3>2 DEF PredictInv, Agreed
      <3> QED
        BY <2>6, <3>1, <3>2
    <2> QED
      BY <2>1, <2>2, <2>4, <2>7, <2>8 DEF PredictInv
  <1>4. ASSUME NEW p \in Sides, StopTask(p) \/ PsiEnc(p) PROVE Goal
    <2>1. UNCHANGED <<common, modelStatus, delivering, partFromOther, reEncrypted, finalOfOther, reported>>
      BY <1>4 DEF StopTask, PsiEnc
    <2>2. \/ Runs(p, "StopTask", {}) \/ Runs(p, "PsiEnc", {"PsiAskReEnc"}) \/ Runs(p, "PsiEnc", {"failed"})
      BY <1>4 DEF StopTask, PsiEnc
    <2> HIDE DEF Goal
    <2>3. CASE Runs(p, "StopTask", {})
      BY <1>0, <1>1, <2>1, <2>3
    <2>4. CASE Runs(p, "PsiEnc", {"PsiAskReEnc"})
      BY <1>0, <1>1, <2>1, <2>4
    <2>5. CASE Runs(p, "PsiEnc", {"failed"})
      BY <1>0, <1>1, <2>1, <2>5
    <2> QED
      BY <2>2, <2>3, <2>4, <2>5
  <1>5. ASSUME NEW p \in Sides, NEW got \in Got, PsiAskReEnc(p, got) PROVE Goal
    <2> DEFINE q == Peer(p)
               new == CASE got = "answered" -> {"PsiIntersect"}
                        [] got # "answered" /\ LastTry(p) -> {"failed"}
                        [] OTHER -> {"PsiAskReEnc"}
    <2>1. /\ UNCHANGED <<common, modelStatus, delivering, partFromOther, reported>>
          /\ reEncrypted \subseteq reEncrypted' /\ finalOfOther \subseteq finalOfOther'
          /\ pending[p]["PsiAskReEnc"] > 0
          /\ pending' = [pending EXCEPT ![p] = After(p, "PsiAskReEnc", new), ![q] = Started(q, got)]
      BY <1>5 DEF PsiAskReEnc, PsiReEnc
    <2>2. \A r : (Agreed(r) => Agreed(r)') /\ (BothSets(r) => BothSets(r)')
      BY <2>1 DEF Agreed, BothSets
    <2>3. q \in Sides /\ q # p /\ \A r \in Sides : r = p \/ r = q
      BY DEF Peer, Sides
    <2>4. new \in {{"PsiIntersect"}, {"failed"}, {"PsiAskReEnc"}}
      BY DEF Got
    <2> HIDE DEF q, new
    <2>5. /\ After(p, "PsiAskReEnc", new) \in [Messages -> Int]
          /\ \A x \in {"ok", "PredictSum"} : After(p, "PsiAskReEnc", new)[x] = pending[p][x]
      <3>1. pending[p] \in [Messages -> Int]
        BY DEF PredictTyped
      <3>2. ASSUME NEW x \in Messages
            PROVE  /\ After(p, "PsiAskReEnc", new)[x] \in Int
                   /\ x \in {"ok", "PredictSum"} => After(p, "PsiAskReEnc", new)[x] = pending[p][x]
        BY <2>4, <3>1 DEF After
      <3>3. After(p, "PsiAskReEnc", new) \in [Messages -> Int]
        BY <3>2 DEF After
      <3> QED
        BY <1>0, <3>2, <3>3
    <2>6. /\ Started(q, got) \in [Messages -> Int]
          /\ \A x \in {"ok", "PredictSum"} : Started(q, got)[x] = pending[q][x]
      <3>1. pending[q] \in [Messages -> Int]
        BY <2>3 DEF PredictTyped
      <3> QED
        BY <1>0, <3>1 DEF Started
    <2>7. /\ pending' \in [Sides -> [Messages -> Int]]
          /\ pending'[p] = After(p, "PsiAskReEnc", new) /\ pending'[q] = Started(q, got)
      BY <2>1, <2>3, <2>5, <2>6 DEF PredictTyped
    <2>8. \A r \in Sides : pending'[r]["ok"] = pending[r]["ok"]
                           /\ pending'[r]["PredictSum"] = pending[r]["PredictSum"]
      BY <2>3, <2>5, <2>6, <2>7
    <2>9. PredictTyped'
      BY <2>1, <2>7 DEF PredictTyped
    <2> QED
      BY <1>0, <2>1, <2>2, <2>8, <2>9 DEF PredictInv, OkMeansDelivered
  <1>6. ASSUME NEW p \in Sides, PsiIntersect(p) PROVE Goal
    <2>1. UNCHANGED <<common, delivering, partFromOther, reported, reEncrypted, finalOfOther>>
      BY <1>6 DEF PsiIntersect
    <2>2. \A q : Agreed(q)' = Agreed(q) /\ BothSets(q)' = BothSets(q)
      BY <2>1 DEF Agreed, BothSets
    <2>3. CASE UNCHANGED modelStatus
      <3>1. \E new \in {{}, {"failed"}, {"PredictHup"}} : Runs(p, "PsiIntersect", new)
        BY <1>6 DEF PsiIntersect
      <3> HIDE DEF Goal
      <3>2. PICK new \in {{}, {"failed"}, {"PredictHup"}} : Runs(p, "PsiIntersect", new)
        BY <3>1
      <3>3. new \in SUBSET Messages /\ "ok" \notin new /\ "PredictSum" \notin new
        BY <1>0, <3>2
      <3> QED
        BY <1>0, <1>1, <2>1, <2>3, <3>2, <3>3
    <2>4. CASE /\ Agreed(p) /\ Runs(p, "PsiIntersect", {"PredictHup"})
               /\ modelStatus' = [modelStatus EXCEPT ![p] = "EndPSI"]
      <3>1. /\ pending' \in [Sides -> [Messages -> Int]]
            /\ \A q \in Sides : q # p => pending'[q] = pending[q]
            /\ \A x \in Messages : pending'[p][x] > 0 => pending[p][x] > 0 \/ x \in {"PredictHup"}
        BY <1>0, <2>4, RunsMoves
      <3>2. /\ \A q \in Sides : pending'[q]["ok"] > 0 => pending[q]["ok"] > 0
            /\ pending'["feature"]["PredictSum"] > 0 => pending["feature"]["PredictSum"] > 0
        BY <1>0, <3>1
      <3>3. PredictTyped'
        BY <2>1, <2>4, <3>1 DEF PredictTyped
      <3>4. \A q \in Sides : modelStatus'[q] # "StartPSI" => Agreed(q)
        BY <2>4 DEF PredictInv, PredictTyped
      <3> QED
        BY <2>1, <2>2, <3>2, <3>3, <3>4 DEF PredictInv, OkMeansDelivered
    <2> QED
      BY <1>6, <2>3, <2>4 DEF PsiIntersect, Agreed
  <1>7. ASSUME NEW p \in Sides, PredictHup(p) PROVE Goal
    <2>1. UNCHANGED <<common, partFromOther, reported, reEncrypted, finalOfOther>>
      BY <1>7 DEF PredictHup
    <2>2. \A q : Agreed(q)' = Agreed(q) /\ BothSets(q)' = BothSets(q)
      BY <2>1 DEF Agreed, BothSets
    <2>3. CASE UNCHANGED <<modelStatus, delivering>> /\ Runs(p, "PredictHup", {})
      BY <1>0, <1>1, <2>1, <2>3
    <2>4. CASE modelStatus[p] = "EndPSI"
      <3>1. Agreed(p)
        BY <2>4 DEF PredictInv
      <3>2. modelStatus' = [modelStatus EXCEPT ![p] = "StartPredict"]
        BY <1>7, <2>4 DEF PredictHup
      <3>3. delivering' => delivering \/ p = "feature"
        BY <1>7, <2>4 DEF PredictHup
      <3>4. PICK new \in {{"PredictSum"}, {"PredictHup"}, {"failed"}} :
                 Runs(p, "PredictHup", new) /\ (new = {"PredictSum"} => p = "label")
        BY <1>0, <1>7, <2>4 DEF PredictHup
      <3>5. new \in SUBSET Messages /\ "ok" \notin new
        BY <1>0, <3>4
      <3>6. /\ pending' \in [Sides -> [Messages -> Int]]
            /\ \A q \in Sides : q # p => pending'[q] = pending[q]
            /\ \A x \in Messages : pending'[p][x] > 0 => pending[p][x] > 0 \/ x \in new
        BY <1>0, <3>4, <3>5, RunsMoves
      <3>7. \A q \in Sides : pending'[q]["ok"] > 0 => pending[q]["ok"] > 0
        BY <1>0, <3>5, <3>6
      <3>8. pending'["feature"]["PredictSum"] > 0 => pending["feature"]["PredictSum"] > 0
        BY <1>0, <3>4, <3>6
      <3>9. PredictTyped'
        BY <2>1, <3>2, <3>3, <3>6 DEF PredictTyped
      <3>10. \A q \in Sides : modelStatus'[q] # "StartPSI" => Agreed(q)
        BY <3>1, <3>2 DEF PredictInv, PredictTyped
      <3>11. delivering' => Agreed("feature")
        BY <3>1, <3>3 DEF PredictInv
      <3> QED
        BY <2>1, <2>2, <3>7, <3>8, <3>9, <3>10, <3>11 DEF PredictInv, OkMeansDelivered
    <2> QED
      BY <1>7, <2>3, <2>4 DEF PredictHup
  <1>8. ASSUME NEW got \in Got, PredictPart(got) PROVE Goal
    <2>1. /\ UNCHANGED <<common, modelStatus, reported, reEncrypted, finalOfOther>>
          /\ delivering
          /\ partFromOther' = (partFromOther \/ got # "nothing")
          /\ pending' = [pending EXCEPT !["feature"] = After("feature", "PredictHup", DeliveredThen(got)),
                                        !["label"] = PartArrived(got)]
      BY <1>8 DEF PredictPart
    <2>a. Agreed("feature")
      BY <2>1 DEF PredictInv
    <2>2. \A q : Agreed(q)' = Agreed(q) /\ BothSets(q)' = BothSets(q)
      BY <2>1 DEF Agreed, BothSets
    <2>3. DeliveredThen(got) \in {{"PredictSum"}, {"failed"}, {"PredictHup"}}
          /\ (DeliveredThen(got) = {"PredictSum"} => got = "answered")
      BY DEF DeliveredThen, Got
    <2> DEFINE f == After("feature", "PredictHup", DeliveredThen(got))
               g == PartArrived(got)
    <2>4. /\ f \in [Messages -> Int]
          /\ f["ok"] = pending["feature"]["ok"]
          /\ f["PredictSum"] > 0 => pending["feature"]["PredictSum"] > 0 \/ got = "answered"
      <3>1. pending["feature"] \in [Messages -> Int]
        BY <1>0 DEF PredictTyped
      <3> QED
        BY <1>0, <2>3, <3>1 DEF After
    <2>5. g \in [Messages -> Int] /\ g["ok"] = pending["label"]["ok"]
      <3>1. pending["label"] \in [Messages -> Int]
        BY <1>0 DEF PredictTyped
      <3> QED
        BY <1>0, <3>1 DEF PartArrived
    <2> HIDE DEF f, g
    <2>6. /\ pending' \in [Sides -> [Messages -> Int]]
          /\ pending'["feature"] = f /\ pending'["label"] = g
      BY <1>0, <2>1, <2>4, <2>5 DEF PredictTyped, f, g
    <2>7. \A q \in Sides : pending'[q]["ok"] = pending[q]["ok"]
      BY <1>0, <2>4, <2>5, <2>6
    <2>8. pending'["feature"]["PredictSum"] > 0 => partFromOther'
      BY <2>1, <2>4, <2>6 DEF PredictInv
    <2>9. PredictTyped'
      BY <2>1, <2>6 DEF PredictTyped
    <2> QED
      BY <2>a, <2>1, <2>2, <2>7, <2>8, <2>9 DEF PredictInv, OkMeansDelivered
  <1>9. ASSUME NEW p \in Sides, Finish(p) PROVE Goal
    <2>1. UNCHANGED <<common, delivering, partFromOther, reported, reEncrypted, finalOfOther>>
      BY <1>9 DEF Finish
    <2>2. \A q : Agreed(q)' = Agreed(q) /\ BothSets(q)' = BothSets(q)
      BY <2>1 DEF Agreed, BothSets
    <2>3. CASE UNCHANGED modelStatus /\ Runs(p, "PredictSum", {})
      BY <1>0, <1>1, <2>1, <2>3
    <2>4. CASE /\ modelStatus[p] = "StartPredict" /\ (p = "label" => PartsThere)
               /\ modelStatus' = [modelStatus EXCEPT ![p] = "EndPredict"]
               /\ Runs(p, "PredictSum", {"ok"})
      <3>1. /\ pending' \in [Sides -> [Messages -> Int]]
            /\ pending[p]["PredictSum"] > 0
            /\ \A q \in Sides : q # p => pending'[q] = pending[q]
            /\ \A x \in Messages : pending'[p][x] > 0 => pending[p][x] > 0 \/ x \in {"ok"}
        BY <1>0, <2>4, RunsMoves
      <3>2. Agreed(p) /\ partFromOther
        BY <1>0, <2>4, <3>1 DEF PredictInv, PartsThere
      <3>3. \A q \in Sides : pending'[q]["ok"] > 0 => partFromOther /\ Agreed(q)
        BY <1>0, <3>1, <3>2 DEF PredictInv
      <3>4. pending'["feature"]["PredictSum"] > 0 => pending["feature"]["PredictSum"] > 0
        BY <1>0, <3>1
      <3>5. PredictTyped'
        BY <2>1, <2>4, <3>1 DEF PredictTyped
      <3>6. \A q \in Sides : modelStatus'[q] # "StartPSI" => Agreed(q)
        BY <2>4, <3>2 DEF PredictInv, PredictTyped
      <3> QED
        BY <2>1, <2>2, <3>3, <3>4, <3>5, <3>6 DEF PredictInv, OkMeansDelivered
    <2> QED
      BY <1>9, <2>3, <2>4 DEF Finish
  <1>10. ASSUME NEW p \in Sides, TaskTimeOut(p) PROVE Goal
    <2>1. /\ UNCHANGED <<common, modelStatus, delivering, partFromOther, reEncrypted, finalOfOther, pending>>
          /\ reported' = [reported EXCEPT ![p] = Append(@, "failed")]
      BY <1>10 DEF TaskTimeOut
    <2>2. \A q : Agreed(q)' = Agreed(q) /\ BothSets(q)' = BothSets(q)
      BY <2>1 DEF Agreed, BothSets
    <2>3. /\ reported' \in [Sides -> Seq({"ok", "failed"})]
          /\ \A q \in Sides : \A i \in DOMAIN reported'[q] : reported'[q][i] = "ok" =>
                i \in DOMAIN reported[q] /\ reported[q][i] = "ok"
      BY <2>1 DEF PredictTyped
    <2> QED
      BY <2>1, <2>2, <2>3 DEF PredictTyped, PredictInv, OkMeansDelivered
  <1>11. ASSUME UNCHANGED <<common, modelStatus, delivering, partFromOther, reEncrypted,
                            finalOfOther, pending, reported>>
         PROVE  Goal
    BY <1>11 DEF PredictTyped, PredictInv, OkMeansDelivered, Agreed, BothSets
  <1>12. ASSUME NEW p \in Sides, StopMpc(p) PROVE Goal
    BY <1>11, <1>12 DEF StopMpc
  <1>13. ASSUME UNCHANGED predictVars PROVE Goal
    BY <1>11, <1>13 DEF predictVars
  <1> HIDE DEF Goal
  <1>14. Goal
    BY <1>2, <1>3, <1>4, <1>5, <1>6, <1>7, <1>8, <1>9, <1>10, <1>12, <1>13
       DEF ProtocolNext, PredictWork, PredictFaults, PredictSum, PredictFinal, protocolVars
  <1> QED
    BY <1>14 DEF Goal

\* A party reports a prediction as a success only when the part of the party
\* without the label has arrived and both have agreed on the samples, whatever
\* messages, answers and nodes are lost and however the goroutines interleave.
THEOREM SuccessIsDelivered == ProtocolSpec => []OkMeansDelivered
  <1>1. ProtocolInit => PredictTyped /\ PredictInv
    BY PredictStart
  <1>2. PredictTyped /\ PredictInv /\ [ProtocolNext]_protocolVars => (PredictTyped /\ PredictInv)'
    BY PredictStep
  <1>3. PredictInv => OkMeansDelivered
    BY DEF PredictInv
  <1> QED
    BY <1>1, <1>2, <1>3, PTL DEF ProtocolSpec

-----------------------------------------------------------------------------
(***************************************************************************)
(* Tasks of PaddleFL.                                                      *)
(***************************************************************************)

\* The shares there are of the samples of all parties and of the labels.
AllShares ==
    {Share("sample", 1), Share("sample", 2), Share("sample", 3)}
        \cup (IF job = "train" THEN {Share("label", Tag)} ELSE {})

LinkNames == {"prepare", "generate", "own sample", "own label", "sample", "label",
              "writing sample", "writing label", "sent", "broken", "not encrypted"}
LinkRec == [at : LinkNames, todo : SUBSET Parties]

InClear(p) == \E c \in DOMAIN chain[p] : At(p, c, "generate") \/ At(p, c, "not encrypted")

\* Only the party with the labels sends them, and nobody sends to itself.
LinkOk(p, link) ==
    /\ link.at \in {"label", "writing label"} => "label" \in Kinds(p)
    /\ p \notin link.todo

DataInv ==
    /\ chain \in [Parties -> Seq(LinkRec)]
    /\ \A p \in Parties : \A c \in DOMAIN chain[p] : LinkOk(p, chain[p][c])
    /\ shares \in [Parties -> SUBSET {"sample", "label"}]
    /\ \A p \in Parties : shares[p] \subseteq Kinds(p)
    /\ files \in [Parties -> SUBSET AllShares]
    /\ partial \in [Parties -> SUBSET AllShares]
    /\ raw \in SUBSET Parties
    /\ \A p \in raw : InClear(p)

SavedInv == saved \in [Parties -> {"none", "ok", "failed"}]

\* A share that is not whole is being written, unless its party has a result; only
\* in prediction is a party's own share written where it is counted.
WriteInv ==
    \A p \in Parties : \A f \in partial[p] :
        /\ f.from = p => job # "train"
        /\ saved[p] # "none" \/ \E c \in DOMAIN chain[f.from] : Writing(f, c, p)

\* Who has started the container has all of the shares.
RunInv ==
    /\ start \in SUBSET Parties
    /\ running \in [Parties -> {"no", "yes", "over", "failed"}]
    /\ \A p \in Parties : running[p] # "no" => files[p] = AllShares

PartsInv ==
    /\ parts \in SUBSET Parties /\ cut \in SUBSET Parties
    /\ sending \in [Parties -> SUBSET Parties]
    /\ \A p \in cut : Tag \in sending[p]
    /\ recovery # "no" => parts = Parties

DNNInv == DataInv /\ SavedInv /\ WriteInv /\ RunInv /\ PartsInv

\* Files are counted, and there are no others than the shares.
LEMMA CountedIsAll ==
    ASSUME NEW F \in SUBSET AllShares,
           EnoughFiles(F)
    PROVE  F = AllShares
  <1> DEFINE A1 == {Share("sample", 1)}
             A2 == A1 \cup {Share("sample", 2)}
             A3 == A2 \cup {Share("sample", 3)}
             A4 == A3 \cup {Share("label", Tag)}
  <1>1. IsFiniteSet(A1) /\ Cardinality(A1) = 1
    BY FS_Singleton
  <1>2. IsFiniteSet(A2) /\ Cardinality(A2) = 2
    <2>1. Share("sample", 2) \notin A1
      BY DEF Share
    <2> HIDE DEF A1
    <2> QED
      BY <1>1, <2>1, FS_AddElement
  <1>3. IsFiniteSet(A3) /\ Cardinality(A3) = 3
    <2>1. Share("sample", 3) \notin A2
      BY DEF Share
    <2> HIDE DEF A2
    <2> QED
      BY <1>2, <2>1, FS_AddElement
  <1>4. IsFiniteSet(A4) /\ Cardinality(A4) = 4
    <2>1. Share("label", Tag) \notin A3
      BY DEF Share
    <2> HIDE DEF A3
    <2> QED
      BY <1>3, <2>1, FS_AddElement
  <1>5. AllShares = IF job = "train" THEN A4 ELSE A3
    BY DEF AllShares
  <1> HIDE DEF A3, A4
  <1>6. IsFiniteSet(AllShares) /\ IsFiniteSet(F) /\ Cardinality(F) \in Nat
        /\ Cardinality(F) <= Cardinality(AllShares)
        /\ (Cardinality(F) = Cardinality(AllShares) => F = AllShares)
    BY <1>3, <1>4, <1>5, FS_Subset, FS_CardinalityType
  <1>7. CASE job = "train"
    BY <1>4, <1>5, <1>6, <1>7 DEF EnoughFiles, EnoughToTrain
  <1>8. CASE job # "train"
    BY <1>3, <1>5, <1>6, <1>8 DEF EnoughFiles, EnoughToPredict
  <1> QED
    BY <1>7, <1>8

\* A share of a kind that its party has is one of them.
LEMMA ShareIsOne ==
    ASSUME NEW p \in Parties, NEW kind \in Kinds(p)
    PROVE  Share(kind, p) \in AllShares
  BY DEF Kinds, AllShares, Parties

\* What becomes of a share: its record has a kind, and a party it is from.
LEMMA ShareFields ==
    ASSUME NEW f \in AllShares
    PROVE  f.kind \in {"sample", "label"} /\ f.from \in Parties /\ f = Share(f.kind, f.from)
           /\ (job # "train" => f.kind = "sample")
  BY DNNAssumption DEF AllShares, Share, Parties

\* The chains of p become those of t; the others stay.
LEMMA ChainMoves ==
    ASSUME DataInv, UNCHANGED job, NEW p \in Parties, NEW t \in Seq(LinkRec),
           chain' = [chain EXCEPT ![p] = t],
           \A d \in DOMAIN t : LinkOk(p, t[d])
    PROVE  /\ chain' \in [Parties -> Seq(LinkRec)]
           /\ \A q \in Parties : \A d \in DOMAIN chain'[q] : LinkOk(q, chain[q][d])'
           /\ chain'[p] = t
           /\ \A q \in Parties : q # p => chain'[q] = chain[q] /\ InClear(q)' = InClear(q)
  <1>1. chain \in [Parties -> Seq(LinkRec)]
    BY DEF DataInv
  <1>2. chain' \in [Parties -> Seq(LinkRec)] /\ chain'[p] = t /\ \A q \in Parties : q # p => chain'[q] = chain[q]
    BY <1>1
  <1>4. \A q \in Parties : \A d \in DOMAIN chain'[q] : LinkOk(q, chain[q][d])'
    <2> SUFFICES ASSUME NEW q \in Parties, NEW d \in DOMAIN chain'[q] PROVE LinkOk(q, chain[q][d])'
      OBVIOUS
    <2>1. LinkOk(q, chain'[q][d])
      BY <1>2 DEF DataInv
    <2> QED
      BY <2>1 DEF LinkOk, Kinds
  <1>5. \A q \in Parties : q # p => InClear(q)' = InClear(q)
    BY <1>2 DEF InClear, At
  <1> QED
    BY <1>2, <1>4, <1>5

\* The goroutine c of p goes on to another link.
LEMMA GoesMoves ==
    ASSUME DataInv, UNCHANGED job, NEW p \in Parties, NEW c \in DOMAIN chain[p], NEW link \in LinkRec,
           LinkOk(p, link), Goes(p, c, link)
    PROVE  /\ chain' \in [Parties -> Seq(LinkRec)]
           /\ \A q \in Parties : \A d \in DOMAIN chain'[q] : LinkOk(q, chain[q][d])'
           /\ \A q \in Parties : q # p => chain'[q] = chain[q] /\ InClear(q)' = InClear(q)
           /\ DOMAIN chain'[p] = DOMAIN chain[p] /\ chain'[p][c] = link
           /\ \A d \in DOMAIN chain[p] : d # c => chain'[p][d] = chain[p][d]
           /\ link.at \in {"generate", "not encrypted"} => InClear(p)'
           /\ (InClear(p) /\ chain[p][c].at \notin {"generate", "not encrypted"}) => InClear(p)'
  <1>1. PICK t : t = [chain[p] EXCEPT ![c] = link]
    OBVIOUS
  <1>2. chain' = [chain EXCEPT ![p] = t]
    BY <1>1 DEF Goes
  <1>3. chain \in [Parties -> Seq(LinkRec)]
    BY DEF DataInv
  <1>4. /\ t \in Seq(LinkRec) /\ DOMAIN t = DOMAIN chain[p] /\ t[c] = link
        /\ \A d \in DOMAIN t : d # c => t[d] = chain[p][d]
    BY <1>1, <1>3
  <1>5. \A d \in DOMAIN t : LinkOk(p, t[d])
    BY <1>4 DEF DataInv
  <1>6. /\ chain' \in [Parties -> Seq(LinkRec)]
        /\ \A q \in Parties : \A d \in DOMAIN chain'[q] : LinkOk(q, chain[q][d])'
        /\ chain'[p] = t
        /\ \A q \in Parties : q # p => chain'[q] = chain[q] /\ InClear(q)' = InClear(q)
    BY <1>2, <1>4, <1>5, ChainMoves
  <1>7. link.at \in {"generate", "not encrypted"} => InClear(p)'
    BY <1>4, <1>6 DEF InClear, At
  <1>8. ASSUME InClear(p), chain[p][c].at \notin {"generate", "not encrypted"} PROVE InClear(p)'
    <2>1. PICK d \in DOMAIN chain[p] : At(p, d, "generate") \/ At(p, d, "not encrypted")
      BY <1>8 DEF InClear
    <2>2. d # c
      BY <1>8, <2>1 DEF At
    <2> QED
      BY <1>4, <1>6, <2>1, <2>2 DEF InClear, At
  <1> QED
    BY <1>4, <1>6, <1>7, <1>8

\* The writes of the other goroutines go on when the goroutine c of p does.
LEMMA WritesGoOn ==
    ASSUME DataInv, WriteInv, DataInv', UNCHANGED job, NEW p \in Parties, NEW c \in DOMAIN chain[p],
           \A q \in Parties : q # p => chain'[q] = chain[q],
           DOMAIN chain'[p] = DOMAIN chain[p],
           \A d \in DOMAIN chain[p] : d # c => chain'[p][d] = chain[p][d],
           \A r \in Parties : saved[r] # "none" => saved'[r] # "none",
           \A r \in Parties : \A f \in partial'[r] :
              \/ f \in partial[r] /\ (saved'[r] # "none" \/ ~(f.from = p /\ Writing(f, c, r)))
              \/ f.from = p /\ (r = p => job # "train") /\ Writing(f, c, r)'
    PROVE  WriteInv'
  <1> SUFFICES ASSUME NEW r \in Parties, NEW f \in partial'[r]
               PROVE  /\ f.from = r => job # "train"
                      /\ saved'[r] # "none" \/ \E d \in DOMAIN chain'[f.from] : Writing(f, d, r)'
    BY DEF WriteInv
  <1>1. f \in AllShares' /\ AllShares' = AllShares
    BY DEF DataInv, AllShares
  <1>2. f.from \in Parties
    BY <1>1, ShareFields
  <1>3. CASE f.from = p /\ (r = p => job # "train") /\ Writing(f, c, r)'
    BY <1>3
  <1>4. CASE f \in partial[r] /\ (saved'[r] # "none" \/ ~(f.from = p /\ Writing(f, c, r)))
    <2>1. f.from = r => job # "train"
      BY <1>4 DEF WriteInv
    <2>2. CASE saved'[r] # "none"
      BY <2>1, <2>2
    <2>3. CASE saved'[r] = "none"
      <3>1. PICK d \in DOMAIN chain[f.from] : Writing(f, d, r)
        BY <1>4, <2>3 DEF WriteInv
      <3>2. f.from = p => d # c
        BY <1>4, <2>3, <3>1
      <3>3. DOMAIN chain'[f.from] = DOMAIN chain[f.from] /\ chain'[f.from][d] = chain[f.from][d]
        BY <1>2, <3>1, <3>2
      <3>4. Writing(f, d, r)'
        BY <3>1, <3>3 DEF Writing, At
      <3> QED
        BY <2>1, <3>1, <3>3, <3>4
    <2> QED
      BY <2>2, <2>3
  <1> QED
    BY <1>3, <1>4

\* A party's first result stays.
LEMMA SavedStays ==
    ASSUME SavedInv, NEW p \in Parties, NEW q \in Parties, NEW r \in {"ok", "failed"}
    PROVE  /\ (Save(p, r) \/ UNCHANGED saved)
                => SavedInv' /\ \A x \in Parties : saved[x] # "none" => saved'[x] # "none"
           /\ Save(p, r) => saved'[p] # "none"
           /\ (saved' = [x \in Parties |-> IF x \in {p, q} THEN First(x, "failed") ELSE saved[x]])
                => /\ SavedInv' /\ saved'[q] # "none"
                   /\ \A x \in Parties : saved[x] # "none" => saved'[x] # "none"
           /\ (saved' = [saved EXCEPT ![p] = "ok", ![q] = First(q, "failed")])
                => SavedInv' /\ \A x \in Parties : saved[x] # "none" => saved'[x] # "none"
  BY DEF SavedInv, Save, First

LEMMA DNNStart == ProtocolInit => DNNInv
  <1> SUFFICES ASSUME NEW jobs, DNNInit(jobs) PROVE DNNInv
    BY DEF ProtocolInit
  <1>1. chain \in [Parties -> Seq(LinkRec)] /\ \A p \in Parties : DOMAIN chain[p] = {}
    BY DEF DNNInit
  <1>2. DataInv
    BY <1>1 DEF DNNInit, DataInv
  <1>3. SavedInv
    BY DEF DNNInit, SavedInv
  <1>4. WriteInv
    BY DEF DNNInit, WriteInv
  <1>5. RunInv
    BY DEF DNNInit, RunInv
  <1>6. PartsInv
    BY DEF DNNInit, PartsInv
  <1> QED
    BY <1>2, <1>3, <1>4, <1>5, <1>6 DEF DNNInv

\* Steps that leave the data alone.
LEMMA DataQuiet ==
    ASSUME DataInv, WriteInv, UNCHANGED <<job, chain, shares, files, partial, raw>>,
           \A r \in Parties : saved[r] # "none" => saved'[r] # "none"
    PROVE  DataInv' /\ WriteInv' /\ AllShares' = AllShares
  <1>1. DataInv' /\ AllShares' = AllShares
    BY DEF DataInv, At, Kinds, AllShares, InClear, LinkOk
  <1>2. \A f, c, p : Writing(f, c, p)' = Writing(f, c, p)
    BY DEF Writing, At
  <1>3. WriteInv'
    BY <1>2 DEF WriteInv
  <1> QED
    BY <1>1, <1>3

\* Steps that touch neither data, container nor result.
LEMMA Quiet ==
    ASSUME DNNInv, UNCHANGED <<job, chain, shares, files, partial, raw, running, parts, cut, sending, recovery>>,
           start' \in SUBSET Parties, SavedInv',
           \A r \in Parties : saved[r] # "none" => saved'[r] # "none"
    PROVE  DNNInv'
  BY DataQuiet DEF DNNInv, RunInv, PartsInv

\* The goroutine c of p goes on to another link.
LEMMA LinkStep ==
    ASSUME DNNInv, UNCHANGED <<job, running, parts, cut, sending, recovery>>,
           NEW p \in Parties, NEW c \in DOMAIN chain[p], NEW link \in LinkRec,
           LinkOk(p, link), Goes(p, c, link), start' \in SUBSET Parties,
           shares' \in [Parties -> SUBSET {"sample", "label"}],
           \A q \in Parties : shares'[q] \subseteq Kinds(q),
           files' \in [Parties -> SUBSET AllShares],
           \A q \in Parties : files[q] \subseteq files'[q],
           raw' \in SUBSET (raw \cup {p}),
           p \in raw' => \/ link.at \in {"generate", "not encrypted"}
                         \/ p \in raw /\ chain[p][c].at \notin {"generate", "not encrypted"},
           SavedInv', \A r \in Parties : saved[r] # "none" => saved'[r] # "none",
           partial' \in [Parties -> SUBSET AllShares],
           \A r \in Parties : \A f \in partial'[r] :
              \/ f \in partial[r] /\ (saved'[r] # "none" \/ ~(f.from = p /\ Writing(f, c, r)))
              \/ f.from = p /\ (r = p => job # "train") /\ Writing(f, c, r)'
    PROVE  DNNInv'
  <1>1. /\ chain' \in [Parties -> Seq(LinkRec)]
        /\ \A q \in Parties : \A d \in DOMAIN chain'[q] : LinkOk(q, chain[q][d])'
        /\ \A q \in Parties : q # p => chain'[q] = chain[q] /\ InClear(q)' = InClear(q)
        /\ DOMAIN chain'[p] = DOMAIN chain[p]
        /\ \A d \in DOMAIN chain[p] : d # c => chain'[p][d] = chain[p][d]
        /\ link.at \in {"generate", "not encrypted"} => InClear(p)'
        /\ (InClear(p) /\ chain[p][c].at \notin {"generate", "not encrypted"}) => InClear(p)'
    BY GoesMoves DEF DNNInv
  <1>2. AllShares' = AllShares /\ \A q : Kinds(q)' = Kinds(q)
    BY DEF AllShares, Kinds
  <1>3. raw' \in SUBSET Parties /\ \A q \in raw' : InClear(q)'
    BY <1>1 DEF DNNInv, DataInv
  <1>4. DataInv'
    BY <1>1, <1>2, <1>3 DEF DataInv
  <1>5. WriteInv'
    <2>1. /\ \A q \in Parties : q # p => chain'[q] = chain[q]
          /\ DOMAIN chain'[p] = DOMAIN chain[p]
          /\ \A d \in DOMAIN chain[p] : d # c => chain'[p][d] = chain[p][d]
          /\ DataInv /\ WriteInv /\ UNCHANGED job
      BY <1>1 DEF DNNInv
    <2> QED
      BY <1>4, <2>1, WritesGoOn
  <1>6. \A q \in Parties : files[q] = AllShares => files'[q] = AllShares
    OBVIOUS
  <1>7. RunInv'
    BY <1>2, <1>6 DEF DNNInv, RunInv
  <1> QED
    BY <1>4, <1>5, <1>7 DEF DNNInv, PartsInv

\* What the types of the data say.
LEMMA DataTyped ==
    ASSUME DNNInv
    PROVE  /\ chain \in [Parties -> Seq(LinkRec)]
           /\ shares \in [Parties -> SUBSET {"sample", "label"}]
           /\ \A q \in Parties : shares[q] \subseteq Kinds(q)
           /\ files \in [Parties -> SUBSET AllShares]
           /\ partial \in [Parties -> SUBSET AllShares]
           /\ raw \in SUBSET Parties /\ start \in SUBSET Parties /\ SavedInv
           /\ \A q \in Parties : "sample" \in Kinds(q) /\ Kinds(q) \in SUBSET {"sample", "label"}
           /\ \A p \in Parties : \A c \in DOMAIN chain[p] :
                 LinkOk(p, chain[p][c]) /\ chain[p][c].todo \in SUBSET Parties
  <1>1. \A q \in Parties : "sample" \in Kinds(q) /\ Kinds(q) \in SUBSET {"sample", "label"}
    BY DEF Kinds
  <1>3. ASSUME NEW p \in Parties, NEW c \in DOMAIN chain[p] PROVE chain[p][c].todo \in SUBSET Parties
    <2>1. chain[p] \in Seq(LinkRec)
      BY DEF DNNInv, DataInv
    <2>2. chain[p][c] \in LinkRec
      BY <2>1
    <2> QED
      BY <2>2 DEF LinkRec
  <1> QED
    BY <1>1, <1>3 DEF DNNInv, DataInv, RunInv

LEMMA Links ==
    ASSUME NEW x \in LinkNames, NEW t \in SUBSET Parties
    PROVE  Link(x, t) \in LinkRec /\ Link(x, t).at = x /\ Link(x, t).todo = t
  BY DEF Link, LinkRec

\* The links on which nothing is sent.
LEMMA EmptyLinks ==
    ASSUME NEW p \in Parties,
           NEW x \in {"prepare", "generate", "own sample", "own label", "sent", "broken", "not encrypted"}
    PROVE  /\ Link(x, {}) \in LinkRec /\ Link(x, {}).at = x /\ Link(x, {}).todo = {}
           /\ LinkOk(p, Link(x, {}))
  <1>1. x \in LinkNames
    BY DEF LinkNames
  <1>2. Link(x, {}) \in LinkRec /\ Link(x, {}).at = x /\ Link(x, {}).todo = {}
    BY <1>1, Links
  <1> QED
    BY <1>2 DEF LinkOk

\* A goroutine of p that is neither encrypting nor at a share writes nothing.
LEMMA IdleWrites ==
    ASSUME NEW p, NEW c, chain[p][c].at \notin {"generate", "writing sample", "writing label"}
    PROVE  \A f, r : f.from = p => ~Writing(f, c, r)
  BY DEF Writing, At, Writes

LEMMA ENVPrepareStep ==
    ASSUME DNNInv, NEW p \in Parties, ENVPrepare(p)
    PROVE  DNNInv'
  <1>1. /\ UNCHANGED <<job, shares, files, partial, start, running, parts, cut, sending, recovery>>
        /\ SavedInv' /\ \A r \in Parties : saved[r] # "none" => saved'[r] # "none"
    <2>1. Save(p, "failed") \/ UNCHANGED saved
      BY DEF ENVPrepare
    <2> QED
      BY <2>1, DataTyped, SavedStays DEF ENVPrepare, outVars
  <1>2. CASE UNCHANGED <<chain, raw>>
    BY <1>1, <1>2, DataTyped, Quiet
  <1>3. CASE \E link \in LinkRec : /\ NewLink(p, link)
                                   /\ link.at \in {"prepare", "generate"} /\ link.todo = {}
                                   /\ raw' \in SUBSET (raw \cup {p})
                                   /\ p \in raw' => p \in raw \/ link.at = "generate"
    <2>1. PICK link \in LinkRec : /\ NewLink(p, link)
                                  /\ link.at \in {"prepare", "generate"} /\ link.todo = {}
                                  /\ raw' \in SUBSET (raw \cup {p})
                                  /\ p \in raw' => p \in raw \/ link.at = "generate"
      BY <1>3
    <2>2. PICK t : t = Append(chain[p], link)
      OBVIOUS
    <2>3. /\ t \in Seq(LinkRec) /\ t[Len(chain[p]) + 1] = link
          /\ DOMAIN t = DOMAIN chain[p] \cup {Len(chain[p]) + 1}
          /\ \A d \in DOMAIN chain[p] : t[d] = chain[p][d]
      BY <2>2, DataTyped
    <2>4. \A d \in DOMAIN t : LinkOk(p, t[d])
      BY <2>1, <2>3, DataTyped DEF LinkOk
    <2>5. /\ chain' \in [Parties -> Seq(LinkRec)]
          /\ \A q \in Parties : \A d \in DOMAIN chain'[q] : LinkOk(q, chain[q][d])'
          /\ chain'[p] = t
          /\ \A q \in Parties : q # p => chain'[q] = chain[q] /\ InClear(q)' = InClear(q)
      <3>1. chain' = [chain EXCEPT ![p] = t]
        BY <2>1, <2>2 DEF NewLink
      <3> QED
        BY <1>1, <2>3, <2>4, <3>1, ChainMoves DEF DNNInv
    <2>6. InClear(p) => InClear(p)'
      <3> SUFFICES ASSUME InClear(p) PROVE InClear(p)'
        OBVIOUS
      <3>1. PICK d \in DOMAIN chain[p] : At(p, d, "generate") \/ At(p, d, "not encrypted")
        BY DEF InClear
      <3> QED
        BY <2>3, <2>5, <3>1 DEF InClear, At
    <2>7. link.at = "generate" => InClear(p)'
      BY <2>3, <2>5 DEF InClear, At
    <2>8. raw' \in SUBSET Parties /\ \A q \in raw' : InClear(q)'
      BY <2>1, <2>5, <2>6, <2>7 DEF DNNInv, DataInv
    <2>9. AllShares' = AllShares /\ \A q : Kinds(q)' = Kinds(q)
      BY <1>1 DEF AllShares, Kinds
    <2>10. DataInv'
      BY <1>1, <2>5, <2>8, <2>9 DEF DNNInv, DataInv
    <2>11. WriteInv'
      <3> SUFFICES ASSUME NEW r \in Parties, NEW f \in partial[r], saved'[r] = "none"
                   PROVE  \E d \in DOMAIN chain'[f.from] : Writing(f, d, r)'
        BY <1>1 DEF WriteInv, DNNInv
      <3>1. saved[r] = "none" /\ f.from \in Parties
        BY <1>1, DataTyped, ShareFields
      <3>2. PICK d \in DOMAIN chain[f.from] : Writing(f, d, r)
        BY <3>1 DEF DNNInv, WriteInv
      <3>3. d \in DOMAIN chain'[f.from] /\ chain'[f.from][d] = chain[f.from][d]
        BY <2>3, <2>5, <3>1, <3>2
      <3> QED
        BY <3>2, <3>3 DEF Writing, At
    <2> QED
      BY <1>1, <2>9, <2>10, <2>11 DEF DNNInv, RunInv, PartsInv
  <1>4. Link("prepare", {}) \in LinkRec /\ Link("generate", {}) \in LinkRec
        /\ Link("prepare", {}).at = "prepare" /\ Link("generate", {}).at = "generate"
        /\ Link("prepare", {}).todo = {} /\ Link("generate", {}).todo = {}
    BY EmptyLinks
  <1>5. \/ UNCHANGED <<chain, raw>>
        \/ NewLink(p, Link("prepare", {})) /\ UNCHANGED raw
        \/ NewLink(p, Link("generate", {})) /\ Exports(p)
    BY DEF ENVPrepare
  <1>6. CASE NewLink(p, Link("prepare", {})) /\ UNCHANGED raw
    BY <1>3, <1>4, <1>6
  <1>7. CASE NewLink(p, Link("generate", {})) /\ Exports(p)
    <2>1. raw' = raw \cup {p}
      BY <1>7 DEF Exports
    <2> QED
      BY <1>3, <1>4, <1>7, <2>1
  <1> QED
    BY <1>2, <1>5, <1>6, <1>7

LEMMA DataPrepareStep ==
    ASSUME DNNInv, NEW p \in Parties, NEW c, DataPrepare(p, c)
    PROVE  DNNInv'
  <1>1. c \in DOMAIN chain[p] /\ chain[p][c].at = "prepare"
    BY DEF DataPrepare, At
  <1>2. Link("generate", {}) \in LinkRec /\ Link("generate", {}).at = "generate" /\ LinkOk(p, Link("generate", {}))
    BY EmptyLinks
  <1>3. \A f, r : f.from = p => ~Writing(f, c, r)
    BY <1>1, IdleWrites
  <1>4. raw' \in SUBSET (raw \cup {p}) /\ Goes(p, c, Link("generate", {}))
        /\ UNCHANGED <<job, shares, files, partial, start, saved, running, parts, cut, sending, recovery>>
    BY DEF DataPrepare, Exports, outVars
  <1>5. SavedInv' /\ \A r \in Parties : saved[r] # "none" => saved'[r] # "none"
    BY <1>4, DataTyped DEF SavedInv
  <1> QED
    BY <1>1, <1>2, <1>3, <1>4, <1>5, LinkStep, DataTyped

LEMMA EncryptingStep ==
    ASSUME DNNInv, NEW p \in Parties, NEW c, Encrypting(p, c)
    PROVE  DNNInv'
  <1>1. /\ c \in DOMAIN chain[p] /\ At(p, c, "generate") /\ job # "train"
        /\ UNCHANGED <<job, chain, raw, shares, start, saved, running, parts, cut, sending, recovery>>
        /\ files' = [files EXCEPT ![p] = @ \cup {Share("sample", p)}]
        /\ partial' = [partial EXCEPT ![p] = @ \cup {Share("sample", p)}]
    BY DEF Encrypting, At, outVars, Creates, Put
  <1>2. Share("sample", p) \in AllShares /\ Share("sample", p).from = p
    BY ShareIsOne, DataTyped DEF Share
  <1>3. AllShares' = AllShares /\ \A q : Kinds(q)' = Kinds(q)
    BY <1>1 DEF AllShares, Kinds
  <1>4. /\ files' \in [Parties -> SUBSET AllShares] /\ partial' \in [Parties -> SUBSET AllShares]
        /\ \A q \in Parties : files[q] = AllShares => files'[q] = AllShares
    BY <1>1, <1>2, DataTyped
  <1>5. DataInv'
    <2>1. /\ chain' \in [Parties -> Seq(LinkRec)] /\ raw' \in SUBSET Parties
          /\ shares' \in [Parties -> SUBSET {"sample", "label"}]
          /\ \A q \in Parties : shares'[q] \subseteq Kinds(q)'
      BY <1>1, <1>3, DataTyped
    <2>2. \A q \in Parties : \A d \in DOMAIN chain'[q] : LinkOk(q, chain[q][d])'
      BY <1>1, DataTyped DEF LinkOk, Kinds
    <2>3. \A q \in raw' : InClear(q)'
      BY <1>1 DEF DNNInv, DataInv, InClear, At
    <2> QED
      BY <1>3, <1>4, <2>1, <2>2, <2>3 DEF DataInv
  <1>6. WriteInv'
    <2> SUFFICES ASSUME NEW r \in Parties, NEW f \in partial'[r]
                 PROVE  /\ f.from = r => job # "train"
                        /\ saved[r] # "none" \/ \E d \in DOMAIN chain[f.from] : Writing(f, d, r)
      BY <1>1 DEF WriteInv, Writing, At
    <2>1. CASE f \in partial[r]
      BY <2>1 DEF DNNInv, WriteInv
    <2>2. CASE f \notin partial[r]
      <3>1. r = p /\ f = Share("sample", p)
        BY <1>1, <2>2, DataTyped
      <3> QED
        BY <1>1, <1>2, <3>1 DEF Writing
    <2> QED
      BY <2>1, <2>2
  <1> QED
    BY <1>1, <1>3, <1>4, <1>5, <1>6 DEF DNNInv, RunInv, PartsInv, SavedInv

LEMMA DataGenerateStep ==
    ASSUME DNNInv, NEW p \in Parties, NEW c, DataGenerate(p, c)
    PROVE  DNNInv'
  <1>1. /\ c \in DOMAIN chain[p] /\ chain[p][c].at = "generate"
        /\ UNCHANGED <<job, start, running, parts, cut, sending, recovery>>
    BY DEF DataGenerate, At, outVars
  <1>2. \A f, r : f.from = p /\ Writing(f, c, r) => r = p
    BY <1>1 DEF Writing, At, Writes
  <1>3. CASE DeletesRaw(p) /\ TrainShares(p, c) /\ job = "train" /\ UNCHANGED saved
    <2>1. Link(Own("sample"), {}) \in LinkRec /\ LinkOk(p, Link(Own("sample"), {}))
      BY EmptyLinks DEF Own
    <2>2. raw' = raw \ {p} /\ Goes(p, c, Link(Own("sample"), {})) /\ UNCHANGED <<files, partial>>
          /\ shares' = [shares EXCEPT ![p] = Kinds(p)]
      BY <1>3 DEF DeletesRaw, TrainShares
    <2>3. shares' \in [Parties -> SUBSET {"sample", "label"}]
          /\ \A q \in Parties : shares'[q] \subseteq Kinds(q)
      BY <2>2, DataTyped
    <2>4. \A r \in Parties : \A f \in partial'[r] : ~(f.from = p /\ Writing(f, c, r))
      BY <1>2, <1>3, <2>2 DEF DNNInv, WriteInv
    <2>5. SavedInv'
      BY <1>3, DataTyped DEF SavedInv
    <2>6. \A r \in Parties : \A f \in partial'[r] : f \in partial[r] /\ ~(f.from = p /\ Writing(f, c, r))
      BY <2>2, <2>4
    <2> QED
      <3>1. /\ start' \in SUBSET Parties /\ files' \in [Parties -> SUBSET AllShares]
            /\ partial' \in [Parties -> SUBSET AllShares] /\ raw' \in SUBSET (raw \cup {p}) /\ p \notin raw'
            /\ \A q \in Parties : files[q] \subseteq files'[q]
            /\ \A r \in Parties : saved[r] # "none" => saved'[r] # "none"
        BY <1>1, <1>3, <2>2, DataTyped
      <3> QED
        <4>1. PICK link \in LinkRec : LinkOk(p, link) /\ Goes(p, c, link)
          BY <2>1, <2>2
        <4>2. UNCHANGED <<job, running, parts, cut, sending, recovery>> /\ c \in DOMAIN chain[p]
          BY <1>1
        <4> QED
          BY <2>3, <2>5, <2>6, <3>1, <4>1, <4>2, LinkStep
  <1>4. CASE DeletesRaw(p) /\ PredictShares(p, c) /\ job # "train" /\ UNCHANGED saved
    <2>1. Link("sample", Others(p)) \in LinkRec /\ LinkOk(p, Link("sample", Others(p)))
      <3>1. "sample" \in LinkNames /\ Others(p) \in SUBSET Parties /\ p \notin Others(p)
        BY DEF LinkNames, Others
      <3>2. Link("sample", Others(p)) \in LinkRec /\ Link("sample", Others(p)).at = "sample"
            /\ Link("sample", Others(p)).todo = Others(p)
        BY <3>1, Links
      <3> QED
        BY <3>1, <3>2 DEF LinkOk
    <2>2. raw' = raw \ {p} /\ Goes(p, c, Link("sample", Others(p))) /\ UNCHANGED shares
          /\ files' = [files EXCEPT ![p] = @ \cup {Share("sample", p)}]
          /\ partial' = [partial EXCEPT ![p] = @ \ {Share("sample", p)}]
      BY <1>4 DEF DeletesRaw, PredictShares, Put, Completes
    <2>3. files' \in [Parties -> SUBSET AllShares] /\ (\A q \in Parties : files[q] \subseteq files'[q])
          /\ partial' \in [Parties -> SUBSET AllShares]
      BY <2>2, ShareIsOne, DataTyped
    <2>4. \A r \in Parties : \A f \in partial'[r] : f \in partial[r] /\ ~(f.from = p /\ Writing(f, c, r))
      <3> SUFFICES ASSUME NEW r \in Parties, NEW f \in partial'[r]
                   PROVE  f \in partial[r] /\ ~(f.from = p /\ Writing(f, c, r))
        OBVIOUS
      <3>1. f \in partial[r] /\ (r = p => f # Share("sample", p))
        BY <2>2, DataTyped
      <3>2. f = Share("sample", f.from)
        BY <1>4, <3>1, DataTyped, ShareFields
      <3> QED
        BY <1>2, <3>1, <3>2
    <2>5. SavedInv'
      BY <1>4, DataTyped DEF SavedInv
    <2> QED
      <3>1. /\ start' \in SUBSET Parties /\ raw' \in SUBSET (raw \cup {p}) /\ p \notin raw'
            /\ shares' \in [Parties -> SUBSET {"sample", "label"}]
            /\ \A q \in Parties : shares'[q] \subseteq Kinds(q)
            /\ \A r \in Parties : saved[r] # "none" => saved'[r] # "none"
        BY <1>1, <1>4, <2>2, DataTyped
      <3>2. PICK link \in LinkRec : LinkOk(p, link) /\ Goes(p, c, link)
        BY <2>1, <2>2
      <3>3. UNCHANGED <<job, running, parts, cut, sending, recovery>> /\ c \in DOMAIN chain[p]
        BY <1>1
      <3> QED
        BY <2>3, <2>4, <2>5, <3>1, <3>2, <3>3, LinkStep
  <1>5. ASSUME NEW link \in LinkRec, LinkOk(p, link), Goes(p, c, link), Save(p, "failed"),
               UNCHANGED <<raw, shares, files, partial>>, p \notin raw \/ link.at = "not encrypted"
        PROVE  DNNInv'
    <2>1. SavedInv' /\ saved'[p] # "none" /\ \A r \in Parties : saved[r] # "none" => saved'[r] # "none"
      BY <1>5, DataTyped, SavedStays
    <2>2. \A r \in Parties : \A f \in partial'[r] :
             f \in partial[r] /\ (saved'[r] # "none" \/ ~(f.from = p /\ Writing(f, c, r)))
      BY <1>2, <1>5, <2>1
    <2> QED
      BY <1>1, <1>5, <2>1, <2>2, LinkStep, DataTyped
  <1>6. /\ Link("broken", {}) \in LinkRec /\ LinkOk(p, Link("broken", {}))
        /\ Link("not encrypted", {}) \in LinkRec /\ LinkOk(p, Link("not encrypted", {}))
        /\ Link("not encrypted", {}).at = "not encrypted"
    BY EmptyLinks
  <1>7. CASE p \notin raw /\ Breaks(p, c) /\ UNCHANGED <<raw, shares, files, partial>>
    BY <1>5, <1>6, <1>7 DEF Breaks
  <1>8. CASE Goes(p, c, Link("not encrypted", {})) /\ Save(p, "failed") /\ UNCHANGED <<raw, shares, files, partial>>
    BY <1>5, <1>6, <1>8
  <1> QED
    BY <1>3, <1>4, <1>7, <1>8 DEF DataGenerate

LEMMA MoveOwnStep ==
    ASSUME DNNInv, NEW p \in Parties, NEW c, NEW kind \in {"sample", "label"}, MoveOwn(p, c, kind)
    PROVE  DNNInv'
  <1>1. /\ c \in DOMAIN chain[p] /\ chain[p][c].at \in {"own sample", "own label"}
        /\ UNCHANGED <<job, start, running, parts, cut, sending, recovery, raw, partial>>
    BY DEF MoveOwn, At, Own, outVars
  <1>2. \A f, r : f.from = p => ~Writing(f, c, r)
    BY <1>1, IdleWrites
  <1>3. SavedInv' /\ \A r \in Parties : saved[r] # "none" => saved'[r] # "none"
    <2>1. Save(p, "failed") \/ UNCHANGED saved
      BY DEF MoveOwn, Breaks
    <2> QED
      BY <2>1, DataTyped, SavedStays
  <1>4. CASE Breaks(p, c) /\ UNCHANGED <<shares, files>>
    <2>1. Link("broken", {}) \in LinkRec /\ LinkOk(p, Link("broken", {}))
      BY EmptyLinks
    <2> QED
      BY <1>1, <1>2, <1>3, <1>4, <2>1, LinkStep, DataTyped DEF Breaks
  <1>5. CASE kind \in shares[p]
    <2>1. kind \in Kinds(p)
      BY <1>5, DataTyped
    <2>2. Link(kind, Others(p)) \in LinkRec /\ LinkOk(p, Link(kind, Others(p)))
      <3>1. kind \in LinkNames /\ Others(p) \in SUBSET Parties /\ p \notin Others(p)
        BY DEF LinkNames, Others
      <3>2. Link(kind, Others(p)) \in LinkRec /\ Link(kind, Others(p)).at = kind
            /\ Link(kind, Others(p)).todo = Others(p)
        BY <3>1, Links
      <3> QED
        BY <2>1, <3>1, <3>2 DEF LinkOk
    <2>3. /\ shares' = [shares EXCEPT ![p] = @ \ {kind}]
          /\ files' = [files EXCEPT ![p] = @ \cup {Share(kind, p)}]
          /\ Goes(p, c, Link(kind, Others(p)))
      BY <1>5 DEF MoveOwn, Put
    <2>4. files' \in [Parties -> SUBSET AllShares] /\ \A q \in Parties : files[q] \subseteq files'[q]
      BY <2>1, <2>3, ShareIsOne, DataTyped
    <2>5. shares' \in [Parties -> SUBSET {"sample", "label"}]
          /\ \A q \in Parties : shares'[q] \subseteq Kinds(q)
      BY <2>3, DataTyped
    <2> QED
      <3>1. /\ start' \in SUBSET Parties /\ partial' \in [Parties -> SUBSET AllShares]
            /\ raw' \in SUBSET (raw \cup {p}) /\ p \in raw' => p \in raw
            /\ \A r \in Parties : \A f \in partial'[r] : f \in partial[r]
        BY <1>1, DataTyped
      <3>2. chain[p][c].at \notin {"generate", "not encrypted"}
        BY <1>1
      <3> QED
        BY <1>1, <1>2, <1>3, <2>2, <2>3, <2>4, <2>5, <3>1, <3>2, LinkStep
  <1> QED
    BY <1>4, <1>5 DEF MoveOwn

\* A share is sent to another party, and to none before it is there.
LEMMA SendsToOthers ==
    ASSUME DNNInv, NEW p \in Parties, NEW c \in DOMAIN chain[p], NEW q \in chain[p][c].todo,
           NEW kind \in Kinds(p)
    PROVE  /\ q \in Parties /\ q # p /\ Share(kind, p) \in AllShares
           /\ kind \in {"sample", "label"} /\ kind \in LinkNames /\ Writes(kind) \in LinkNames
           /\ \A t \in SUBSET chain[p][c].todo :
                 /\ Link(kind, t) \in LinkRec /\ LinkOk(p, Link(kind, t)) /\ Link(kind, t).todo = t
                 /\ Link(Writes(kind), t) \in LinkRec /\ LinkOk(p, Link(Writes(kind), t))
                 /\ Link(Writes(kind), t).at = Writes(kind) /\ Link(Writes(kind), t).todo = t
           /\ Link("broken", {}) \in LinkRec /\ LinkOk(p, Link("broken", {}))
  <1>1. LinkOk(p, chain[p][c]) /\ chain[p][c].todo \in SUBSET Parties
    BY DataTyped
  <1>2. q \in Parties /\ q # p
    BY <1>1 DEF LinkOk
  <1>3. Share(kind, p) \in AllShares
    BY ShareIsOne
  <1>4. kind \in {"sample", "label"} /\ kind \in LinkNames /\ Writes(kind) \in LinkNames
    <2>1. kind \in {"sample", "label"}
      BY DEF Kinds
    <2> QED
      BY <2>1 DEF LinkNames, Writes
  <1>5. ASSUME NEW t \in SUBSET chain[p][c].todo
        PROVE  /\ Link(kind, t) \in LinkRec /\ LinkOk(p, Link(kind, t)) /\ Link(kind, t).todo = t
               /\ Link(Writes(kind), t) \in LinkRec /\ LinkOk(p, Link(Writes(kind), t))
               /\ Link(Writes(kind), t).at = Writes(kind) /\ Link(Writes(kind), t).todo = t
    <2>1. t \in SUBSET Parties /\ p \notin t
      BY <1>1 DEF LinkOk
    <2>2. /\ Link(kind, t) \in LinkRec /\ Link(kind, t).at = kind /\ Link(kind, t).todo = t
          /\ Link(Writes(kind), t) \in LinkRec /\ Link(Writes(kind), t).at = Writes(kind)
          /\ Link(Writes(kind), t).todo = t
      BY <1>4, <2>1, Links
    <2>3. kind = "label" \/ Writes(kind) = "writing label" => "label" \in Kinds(p)
      BY <1>4 DEF Writes
    <2>4. kind # "writing label" /\ Writes(kind) # "label"
      BY <1>4 DEF Writes
    <2> QED
      BY <1>4, <2>1, <2>2, <2>3, <2>4 DEF LinkOk, Writes
  <1>6. Link("broken", {}) \in LinkRec /\ LinkOk(p, Link("broken", {}))
    BY EmptyLinks
  <1> QED
    BY <1>2, <1>3, <1>4, <1>5, <1>6

LEMMA ExchangeStep ==
    ASSUME DNNInv, NEW p \in Parties, NEW c \in DOMAIN chain[p], NEW q \in chain[p][c].todo,
           NEW kind \in Kinds(p), Exchange(p, c, q, kind)
    PROVE  DNNInv'
  <1>1. /\ chain[p][c].at = kind /\ q = NextOf(chain[p][c].todo)
        /\ UNCHANGED <<job, shares, raw, start, running, parts, cut, sending, recovery>>
    BY DEF Exchange, At, outVars
  <1>2. /\ q \in Parties /\ q # p /\ Share(kind, p) \in AllShares /\ kind \in {"sample", "label"}
        /\ Link(Writes(kind), chain[p][c].todo) \in LinkRec
        /\ LinkOk(p, Link(Writes(kind), chain[p][c].todo))
        /\ Link(Writes(kind), chain[p][c].todo).at = Writes(kind)
        /\ Link(Writes(kind), chain[p][c].todo).todo = chain[p][c].todo
        /\ Link("broken", {}) \in LinkRec /\ LinkOk(p, Link("broken", {}))
    BY SendsToOthers
  <1>3. \A f, r : f.from = p => ~Writing(f, c, r)
    BY <1>1, <1>2, IdleWrites
  <1>4. /\ start' \in SUBSET Parties /\ raw' \in SUBSET (raw \cup {p}) /\ (p \in raw' => p \in raw)
        /\ chain[p][c].at \notin {"generate", "not encrypted"}
        /\ shares' \in [Parties -> SUBSET {"sample", "label"}]
        /\ \A r \in Parties : shares'[r] \subseteq Kinds(r)
    BY <1>1, <1>2, DataTyped
  <1>5. SavedInv' /\ \A r \in Parties : saved[r] # "none" => saved'[r] # "none"
    <2>1. UNCHANGED saved \/ saved' = [r \in Parties |-> IF r \in {p, q} THEN First(r, "failed") ELSE saved[r]]
      BY DEF Exchange, BothFail
    <2> QED
      BY <1>2, <2>1, DataTyped, SavedStays
  <1>6. CASE Creates(q, Share(kind, p)) /\ Goes(p, c, Link(Writes(kind), chain[p][c].todo))
    <2>1. /\ files' = [files EXCEPT ![q] = @ \cup {Share(kind, p)}]
          /\ partial' = [partial EXCEPT ![q] = @ \cup {Share(kind, p)}]
      BY <1>6 DEF Creates, Put
    <2>2. /\ files' \in [Parties -> SUBSET AllShares] /\ (\A r \in Parties : files[r] \subseteq files'[r])
          /\ partial' \in [Parties -> SUBSET AllShares]
      BY <1>2, <2>1, DataTyped
    <2>3. PICK link \in LinkRec : /\ link.at = Writes(kind) /\ link.todo = chain[p][c].todo
                                  /\ LinkOk(p, link) /\ Goes(p, c, link)
      BY <1>2, <1>6
    <2>4. chain'[p][c] = link /\ c \in DOMAIN chain'[p]
      BY <1>1, <2>3, GoesMoves DEF DNNInv
    <2>5. Writing(Share(kind, p), c, q)'
      BY <1>1, <1>2, <2>3, <2>4 DEF Writing, At, Share
    <2>6. \A r \in Parties : \A f \in partial'[r] :
             \/ f \in partial[r] /\ ~(f.from = p /\ Writing(f, c, r))
             \/ f.from = p /\ r # p /\ Writing(f, c, r)'
      <3> SUFFICES ASSUME NEW r \in Parties, NEW f \in partial'[r], f \notin partial[r]
                   PROVE  f.from = p /\ r # p /\ Writing(f, c, r)'
        BY <1>3
      <3>1. r = q /\ f = Share(kind, p)
        BY <2>1, DataTyped
      <3> QED
        BY <1>2, <2>5, <3>1 DEF Share
    <2>7. \A r \in Parties : \A f \in partial'[r] :
             \/ f \in partial[r] /\ (saved'[r] # "none" \/ ~(f.from = p /\ Writing(f, c, r)))
             \/ f.from = p /\ (r = p => job # "train") /\ Writing(f, c, r)'
      BY <2>6
    <2>8. UNCHANGED <<job, running, parts, cut, sending, recovery>>
      BY <1>1
    <2>9. p \in raw' => \/ link.at \in {"generate", "not encrypted"}
                       \/ (p \in raw /\ chain[p][c].at \notin {"generate", "not encrypted"})
      BY <1>4
    <2> QED
      BY <1>4, <1>5, <2>2, <2>3, <2>7, <2>8, <2>9, LinkStep
  <1>7. CASE BothFail(p, c, q) /\ UNCHANGED <<files, partial>>
    <2>1. PICK link \in LinkRec : LinkOk(p, link) /\ Goes(p, c, link)
      BY <1>2, <1>7 DEF BothFail
    <2>2. /\ files' \in [Parties -> SUBSET AllShares] /\ (\A r \in Parties : files[r] \subseteq files'[r])
          /\ partial' \in [Parties -> SUBSET AllShares]
          /\ \A r \in Parties : \A f \in partial'[r] : f \in partial[r] /\ ~(f.from = p /\ Writing(f, c, r))
      BY <1>3, <1>7, DataTyped
    <2>3. UNCHANGED <<job, running, parts, cut, sending, recovery>>
      BY <1>1
    <2> QED
      BY <1>4, <1>5, <2>1, <2>2, <2>3, LinkStep
  <1> QED
    <2>1. CASE Alive(q) /\ q \in folder
      BY <1>6, <2>1 DEF Exchange
    <2>2. CASE ~(Alive(q) /\ q \in folder)
      BY <1>7, <2>2 DEF Exchange
    <2> QED
      BY <2>1, <2>2

LEMMA ExchangeWritesStep ==
    ASSUME DNNInv, NEW p \in Parties, NEW c \in DOMAIN chain[p], NEW q \in chain[p][c].todo,
           NEW kind \in Kinds(p), ExchangeWrites(p, c, q, kind)
    PROVE  DNNInv'
  <1>1. /\ chain[p][c].at = Writes(kind) /\ q = NextOf(chain[p][c].todo)
        /\ UNCHANGED <<job, shares, files, raw, running, parts, cut, sending, recovery>>
    BY DEF ExchangeWrites, At, outVars
  <1>2. /\ q \in Parties /\ q # p /\ Share(kind, p) \in AllShares /\ kind \in {"sample", "label"}
        /\ \A t \in SUBSET chain[p][c].todo : Link(kind, t) \in LinkRec /\ LinkOk(p, Link(kind, t))
        /\ Link("broken", {}) \in LinkRec /\ LinkOk(p, Link("broken", {}))
    BY SendsToOthers
  <1>3. \* what c writes is that share of p at q
        ASSUME NEW r \in Parties, NEW f \in partial[r], f.from = p, Writing(f, c, r)
        PROVE  r = q /\ f = Share(kind, p)
    <2>1. f \in AllShares
      BY DataTyped
    <2>2. f.kind \in {"sample", "label"} /\ f = Share(f.kind, p)
      BY <1>3, <2>1, ShareFields
    <2>3. r # p
      BY <1>1, <1>2, <1>3 DEF Writing, At, Writes
    <2>4. chain[p][c].at = Writes(f.kind) /\ r = NextOf(chain[p][c].todo)
      BY <1>3, <2>3 DEF Writing, At
    <2>5. f.kind = kind
      BY <1>1, <1>2, <2>2, <2>4 DEF Writes
    <2> QED
      BY <1>1, <2>2, <2>4, <2>5
  <1>4. /\ files' \in [Parties -> SUBSET AllShares] /\ (\A r \in Parties : files[r] \subseteq files'[r])
        /\ raw' \in SUBSET (raw \cup {p}) /\ (p \in raw' => p \in raw)
        /\ chain[p][c].at \notin {"generate", "not encrypted"}
        /\ shares' \in [Parties -> SUBSET {"sample", "label"}]
        /\ \A r \in Parties : shares'[r] \subseteq Kinds(r)
    BY <1>1, <1>2, DataTyped DEF Writes
  <1>5. UNCHANGED <<job, running, parts, cut, sending, recovery>>
    BY <1>1
  <1>6. ASSUME NEW link \in LinkRec, LinkOk(p, link), Goes(p, c, link), start' \in SUBSET Parties,
               Completes(q, Share(kind, p)), UNCHANGED saved
        PROVE  DNNInv'
    <2>1. partial' = [partial EXCEPT ![q] = @ \ {Share(kind, p)}]
      BY <1>6 DEF Completes
    <2>2. partial' \in [Parties -> SUBSET AllShares] /\ SavedInv'
          /\ \A r \in Parties : saved[r] # "none" => saved'[r] # "none"
      BY <1>2, <1>6, <2>1, DataTyped DEF SavedInv
    <2>3. \A r \in Parties : \A f \in partial'[r] : f \in partial[r] /\ ~(f.from = p /\ Writing(f, c, r))
      <3> SUFFICES ASSUME NEW r \in Parties, NEW f \in partial'[r]
                   PROVE  f \in partial[r] /\ ~(f.from = p /\ Writing(f, c, r))
        OBVIOUS
      <3>1. f \in partial[r] /\ (r = q => f # Share(kind, p))
        BY <1>2, <2>1, DataTyped
      <3> QED
        BY <1>3, <3>1
    <2> QED
      BY <1>4, <1>5, <1>6, <2>2, <2>3, LinkStep
  <1>7. CASE /\ Completes(q, Share(kind, p)) /\ Goes(p, c, SentTo(p, c, q, kind)) /\ UNCHANGED saved
             /\ start' = start \cup {q} \cup IF SentTo(p, c, q, kind).at = "sent" THEN {p} ELSE {}
    <2>1. PICK link : link = SentTo(p, c, q, kind)
      OBVIOUS
    <2>2. link \in {Link(kind, chain[p][c].todo \ {q}), Link("own label", {}), Link("sent", {})}
      BY <2>1 DEF SentTo, Own
    <2>3. link \in LinkRec /\ LinkOk(p, link)
      <3>1. chain[p][c].todo \ {q} \in SUBSET chain[p][c].todo
        OBVIOUS
      <3> QED
        BY <1>2, <2>2, <3>1, EmptyLinks
    <2>4. start' \in SUBSET Parties
      BY <1>2, <1>7, DataTyped
    <2> QED
      BY <1>6, <1>7, <2>1, <2>3, <2>4
  <1>8. CASE /\ Completes(q, Share(kind, p)) /\ Goes(p, c, Link(kind, chain[p][c].todo)) /\ UNCHANGED saved
             /\ start' = start \cup {q}
    <2>1. start' \in SUBSET Parties
      BY <1>2, <1>8, DataTyped
    <2>2. Link(kind, chain[p][c].todo) \in LinkRec /\ LinkOk(p, Link(kind, chain[p][c].todo))
      BY <1>2
    <2> QED
      BY <1>6, <1>8, <2>1, <2>2
  <1>9. CASE BothFail(p, c, q) /\ UNCHANGED <<partial, start>>
    <2>1. PICK link \in LinkRec : LinkOk(p, link) /\ Goes(p, c, link)
      BY <1>2, <1>9 DEF BothFail
    <2>2. SavedInv' /\ saved'[q] # "none" /\ \A r \in Parties : saved[r] # "none" => saved'[r] # "none"
      BY <1>2, <1>9, DataTyped, SavedStays DEF BothFail
    <2>3. \A r \in Parties : \A f \in partial'[r] :
             f \in partial[r] /\ (saved'[r] # "none" \/ ~(f.from = p /\ Writing(f, c, r)))
      BY <1>3, <1>9, <2>2
    <2>4. start' \in SUBSET Parties /\ partial' \in [Parties -> SUBSET AllShares]
      BY <1>9, DataTyped
    <2> QED
      BY <1>4, <1>5, <2>1, <2>2, <2>3, <2>4, LinkStep
  <1> QED
    BY <1>7, <1>8, <1>9 DEF ExchangeWrites

LEMMA ContainerStep ==
    ASSUME DNNInv, NEW p \in Parties, DataStatus(p) \/ MsgTrain(p) \/ MsgPredictHup(p)
    PROVE  DNNInv'
  <1>1. /\ UNCHANGED <<job, chain, shares, files, partial, raw, parts, cut, recovery>>
        /\ start' = start \ {p}
    BY DEF DataStatus, Counted, MsgTrain, MsgPredictHup, dataVars, outVars
  <1>2. Save(p, "failed") \/ UNCHANGED saved
    BY DEF DataStatus, MsgTrain, MsgPredictHup, Starts
  <1>3. SavedInv' /\ \A r \in Parties : saved[r] # "none" => saved'[r] # "none"
    BY <1>2, DataTyped, SavedStays
  <1>4. DataInv' /\ WriteInv' /\ AllShares' = AllShares
    BY <1>1, <1>3, DataQuiet DEF DNNInv
  <1>5. sending' = sending \/ (p # Tag /\ sending' = [sending EXCEPT ![p] = Others(p)])
    BY DEF DataStatus, MsgTrain, MsgPredictHup, Starts, ResultSend, outVars
  <1>6. PartsInv'
    BY <1>1, <1>5, DNNAssumption DEF DNNInv, PartsInv, Others, Parties
  <1>7. RunInv'
    <2>1. UNCHANGED running \/ (running' = [running EXCEPT ![p] = "yes"] /\ EnoughFiles(files[p]))
      BY DEF DataStatus, MsgTrain, MsgPredictHup, Starts, Counted
    <2>2. EnoughFiles(files[p]) => files[p] = AllShares
      <3>1. files[p] \in SUBSET AllShares
        BY DataTyped
      <3> QED
        BY <3>1, CountedIsAll
    <2> QED
      BY <1>1, <1>4, <2>1, <2>2 DEF DNNInv, RunInv
  <1> QED
    BY <1>3, <1>4, <1>6, <1>7 DEF DNNInv

LEMMA ContainerEndsStep ==
    ASSUME DNNInv, NEW p \in Parties, ContainerEnds(p)
    PROVE  DNNInv'
  <1>1. /\ UNCHANGED <<job, chain, shares, files, partial, raw, start, cut, recovery>>
        /\ running[p] = "yes"
    BY DEF ContainerEnds, dataVars
  <1>2. Save(p, "failed") \/ Save(p, "ok") \/ UNCHANGED saved
    BY DEF ContainerEnds
  <1>3. SavedInv' /\ \A r \in Parties : saved[r] # "none" => saved'[r] # "none"
    BY <1>2, DataTyped, SavedStays
  <1>4. DataInv' /\ WriteInv' /\ AllShares' = AllShares
    BY <1>1, <1>3, DataQuiet DEF DNNInv
  <1>5. sending' = sending \/ (p # Tag /\ sending' = [sending EXCEPT ![p] = Others(p)])
    BY DEF ContainerEnds, ResultSend
  <1>6. parts' = parts \/ parts' = parts \cup {p}
    BY DEF ContainerEnds
  <1>7. PartsInv'
    BY <1>1, <1>5, <1>6, DNNAssumption DEF DNNInv, PartsInv, Others, Parties
  <1>8. running' = [running EXCEPT ![p] = "over"] \/ running' = [running EXCEPT ![p] = "failed"]
    BY DEF ContainerEnds
  <1>9. RunInv'
    BY <1>1, <1>4, <1>8 DEF DNNInv, RunInv
  <1> QED
    BY <1>3, <1>4, <1>7, <1>9 DEF DNNInv

LEMMA ResultStep ==
    ASSUME DNNInv, ResultWork
    PROVE  DNNInv'
  <1>1. /\ UNCHANGED <<job, chain, shares, files, partial, raw, start, running>>
        /\ SavedInv' /\ \A r \in Parties : saved[r] # "none" => saved'[r] # "none"
    <2>1. UNCHANGED <<job, chain, shares, files, partial, raw, start, running>>
      BY DEF ResultWork, ResultWrites, ResultExchange, ResultStatus, Recovery, PredictStop,
             RecoveryOver, dataVars
    <2>2. \/ UNCHANGED saved
          \/ \E p \in Parties : \E r \in {"ok", "failed"} : Save(p, r)
          \/ \E p, q \in Parties : saved' = [saved EXCEPT ![p] = "ok", ![q] = First(q, "failed")]
      BY DNNAssumption DEF ResultWork, ResultWrites, ResultExchange, ResultStatus, Recovery,
             PredictStop, RecoveryOver, Parties
    <2>3. SavedInv' /\ \A r \in Parties : saved[r] # "none" => saved'[r] # "none"
      <3>1. CASE UNCHANGED saved
        BY <3>1 DEF DNNInv, SavedInv
      <3>2. CASE \E p \in Parties : \E r \in {"ok", "failed"} : Save(p, r)
        BY <3>2, DataTyped, SavedStays
      <3>3. CASE \E p, q \in Parties : saved' = [saved EXCEPT ![p] = "ok", ![q] = First(q, "failed")]
        BY <3>3, DataTyped, SavedStays
      <3> QED
        BY <2>2, <3>1, <3>2, <3>3
    <2> QED
      BY <2>1, <2>3
  <1>2. DataInv' /\ WriteInv' /\ AllShares' = AllShares
    BY <1>1, DataQuiet DEF DNNInv
  <1>3. RunInv'
    BY <1>1, <1>2 DEF DNNInv, RunInv
  <1>4. ASSUME NEW p \in Parties, ResultWrites(p) PROVE PartsInv'
    <2>1. /\ UNCHANGED <<parts, recovery>> /\ cut' = cut \ {p}
          /\ \E t \in SUBSET sending[p] : sending' = [sending EXCEPT ![p] = t]
      BY <1>4 DEF ResultWrites
    <2> QED
      BY <2>1 DEF DNNInv, PartsInv
  <1>5. ASSUME NEW p \in Parties, NEW q \in sending[p], ResultExchange(p, q) PROVE PartsInv'
    <2>1. UNCHANGED recovery
      BY <1>5 DEF ResultExchange
    <2>2. CASE ~Alive(q)
      <3>1. /\ UNCHANGED <<parts, cut>>
            /\ sending' = [sending EXCEPT ![p] = @ \cap IF p \in cut THEN {Tag} ELSE {}]
        BY <1>5, <2>2 DEF ResultExchange
      <3> QED
        BY <2>1, <3>1 DEF DNNInv, PartsInv
    <2>3. CASE Alive(q) /\ q = Tag
      <3>1. parts' = parts \cup {p} /\ cut' = cut \cup {p} /\ UNCHANGED sending
        BY <1>5, <2>3 DEF ResultExchange
      <3> QED
        BY <2>1, <2>3, <3>1 DEF DNNInv, PartsInv
    <2>4. CASE Alive(q) /\ q # Tag
      <3>1. UNCHANGED <<parts, cut>> /\ sending' = [sending EXCEPT ![p] = @ \ {q}]
        BY <1>5, <2>4 DEF ResultExchange
      <3> QED
        BY <2>1, <2>4, <3>1 DEF DNNInv, PartsInv
    <2> QED
      BY <2>2, <2>3, <2>4
  <1>6. ASSUME ResultStatus PROVE PartsInv'
    <2>1. UNCHANGED <<parts, cut, sending>> /\ (UNCHANGED recovery \/ Whole)
      BY <1>6 DEF ResultStatus
    <2>2. Whole => parts = Parties
      <3>1. IsFiniteSet(Parties) /\ Cardinality(Parties) = 3
        <4>1. PICK a \in Int, b \in Int : a = 1 /\ b = 3
          OBVIOUS
        <4>2. IsFiniteSet(a..b) /\ Cardinality(a..b) = IF a > b THEN 0 ELSE b - a + 1
          BY FS_Interval
        <4> QED
          BY <4>1, <4>2 DEF Parties
      <3>2. parts \subseteq Parties
        BY DEF DNNInv, PartsInv
      <3>3. Cardinality(parts) \in Nat /\ Cardinality(parts) <= 3 /\ (Cardinality(parts) = 3 => parts = Parties)
        BY <3>1, <3>2, FS_Subset, FS_CardinalityType
      <3> QED
        BY <3>3 DEF Whole
    <2> QED
      BY <2>1, <2>2 DEF DNNInv, PartsInv
  <1>7. ASSUME Recovery \/ (\E q \in Parties : PredictStop(q)) \/ RecoveryOver PROVE PartsInv'
    <2>1. UNCHANGED <<parts, cut, sending>> /\ recovery # "no"
      BY <1>7 DEF Recovery, PredictStop, RecoveryOver
    <2> QED
      BY <2>1 DEF DNNInv, PartsInv
  <1>8. PartsInv'
    BY <1>4, <1>5, <1>6, <1>7 DEF ResultWork
  <1> QED
    BY <1>1, <1>2, <1>3, <1>8 DEF DNNInv

LEMMA PsiStep ==
    ASSUME DNNInv, NEW p \in Parties, NewLearner(p) \/ NewModel(p) \/ Intersect(p) \/ \E q \in Others(p) : AskReEnc(p, q)
    PROVE  DNNInv'
  <1>1. UNCHANGED <<job, chain, shares, files, partial, raw, start, running, parts, cut, sending, recovery>>
    BY DEF NewLearner, NewModel, Created, Intersect, AskReEnc, dataVars, outVars
  <1>2. Save(p, "failed") \/ UNCHANGED saved
    BY DEF NewLearner, NewModel, Created, Intersect, AskReEnc
  <1>3. SavedInv' /\ \A r \in Parties : saved[r] # "none" => saved'[r] # "none"
    BY <1>2, DataTyped, SavedStays
  <1>4. start' \in SUBSET Parties
    BY <1>1, DataTyped
  <1> QED
    BY <1>1, <1>3, <1>4, Quiet

LEMMA DNNStep == DNNInv /\ [ProtocolNext]_protocolVars => DNNInv'
  <1> SUFFICES ASSUME DNNInv, [ProtocolNext]_protocolVars PROVE DNNInv'
    OBVIOUS
  <1>1. CASE UNCHANGED dnnVars
    <2>1. UNCHANGED <<job, chain, shares, files, partial, raw, start, running, parts, cut, sending, recovery, saved>>
      BY <1>1 DEF dnnVars, dataVars, outVars
    <2>2. start' \in SUBSET Parties /\ SavedInv' /\ \A r \in Parties : saved[r] # "none" => saved'[r] # "none"
      BY <2>1, DataTyped DEF SavedInv
    <2> QED
      BY <2>1, <2>2, Quiet
  <1>2. ASSUME NEW p \in Parties, DataWork(p) PROVE DNNInv'
    <2>1. PICK c \in DOMAIN chain[p] :
             \/ DataPrepare(p, c) \/ Encrypting(p, c) \/ DataGenerate(p, c)
             \/ \E kind \in Kinds(p) :
                   \/ MoveOwn(p, c, kind)
                   \/ \E q \in chain[p][c].todo : Exchange(p, c, q, kind) \/ ExchangeWrites(p, c, q, kind)
      BY <1>2 DEF DataWork
    <2>2. \A kind \in Kinds(p) : kind \in {"sample", "label"}
      BY DataTyped
    <2> QED
      BY <2>1, <2>2, DataPrepareStep, EncryptingStep, DataGenerateStep, MoveOwnStep,
         ExchangeStep, ExchangeWritesStep
  <1>3. CASE DNNWork
    BY <1>2, <1>3, PsiStep, ENVPrepareStep, ContainerStep, ContainerEndsStep, ResultStep DEF DNNWork
  <1> QED
    BY <1>1, <1>3 DEF ProtocolNext, protocolVars

LEMMA DNNHolds == DNNInv => SharesSound
  <1> SUFFICES ASSUME DNNInv PROVE SharesSound
    OBVIOUS
  <1>1. SharesPresent
    <2>1. ASSUME NEW p \in Parties, running[p] # "no", NEW q \in Parties, NEW kind \in Kinds(q)
          PROVE  Share(kind, q) \in files[p]
      <3>1. files[p] = AllShares
        BY <2>1 DEF DNNInv, RunInv
      <3> QED
        BY <3>1, ShareIsOne
    <2> QED
      BY <2>1 DEF SharesPresent
  <1>2. RecoveredFromAll
    BY DEF RecoveredFromAll, DNNInv, PartsInv
  <1>3. PlainDeleted
    BY DEF PlainDeleted, DNNInv, DataInv, InClear
  <1>4. SharesWritten
    BY DEF SharesWritten, DNNInv, WriteInv, PartsInv
  <1> QED
    BY <1>1, <1>2, <1>3, <1>4 DEF SharesSound

\* A container calculates only when the share of every party's samples, and in
\* training that of the labels, is there, although MsgFLDataStatus only counts files;
\* a share that is not whole is being written just then, unless its party has a
\* result; an outcome is put together from the parts of all parties; and samples lie
\* in the clear only until the command that encrypts them, whatever arrives twice or
\* late and fails.  A container may start while a share is written.
THEOREM InputsArePresent == ProtocolSpec => []SharesSound
  <1>1. ProtocolInit => DNNInv
    BY DNNStart
  <1>2. DNNInv /\ [ProtocolNext]_protocolVars => DNNInv'
    BY DNNStep
  <1>3. DNNInv => SharesSound
    BY DNNHolds
  <1> QED
    BY <1>1, <1>2, <1>3, PTL DEF ProtocolSpec
-----------------------------------------------------------------------------
(***************************************************************************)
(* Evaluation.                                                             *)
(***************************************************************************)

GoRec == [k : GoKinds, f : Folds \cup {Main}]

EvalTyped ==
    /\ learners \in [Executors -> SUBSET (Folds \cup {Main})]
    /\ models \in [Executors -> SUBSET Folds]
    /\ results \in [Executors -> SUBSET Folds]
    /\ go \in [Executors -> SUBSET GoRec]
    /\ pool \in [Executors -> BOOLEAN] /\ evaluator \in [Executors -> BOOLEAN]
    /\ stored \in [Executors -> BOOLEAN] /\ divided \in [Executors -> BOOLEAN]
    /\ handedOver \in [Executors -> SUBSET ResultRec]
    /\ splitOk \in BOOLEAN /\ failures \in Nat

\* Goroutines of folds exist only when the samples were divided, and those that
\* hand over the model only when the predictions of all folds are there.
GoOk(p, g) ==
    /\ g.k = "start" => g.f = Main
    /\ (g.k = "trained" /\ g.f # Main) => splitOk
    /\ g.k \in {"train", "saveModel", "predicted", "score", "count", "stopFrom"} => g.f \in Folds /\ splitOk
    /\ g.k \in {"finish", "write"} => IF splitOk THEN g.f \in Folds /\ results[p] = Folds ELSE g.f = Main

ScoresOf(p) ==
    /\ divided[p] => splitOk
    /\ \A f \in learners[p] : f # Main => splitOk
    /\ \A f \in models[p] : splitOk
    /\ \A g \in go[p] : GoOk(p, g)
    /\ \A r \in handedOver[p] : r.scores = IF splitOk THEN Folds ELSE {}

\* The goroutine that is still to start the learners of folds, and from which fold.
Early(g) == g = G("trained", Main) \/ g.k \in {"start", "train"}
From(g) == IF g.k = "train" THEN g.f ELSE 0

\* A fold is trained, saved, predicted and scored, in this order.
FoldOf(p, f) ==
    /\ G("trained", f) \in go[p] => G("trained", f) \in done
    /\ G("saveModel", f) \in go[p] =>
          G("trained", f) \in done /\ f \notin learners[p] /\ G("trained", f) \notin go[p]
    /\ f \in models[p] \/ G("predicted", f) \in done =>
          /\ G("trained", f) \in done /\ f \notin learners[p]
          /\ G("trained", f) \notin go[p] /\ G("saveModel", f) \notin go[p]
    /\ G("predicted", f) \in go[p] => G("predicted", f) \in done
    /\ G("score", f) \in go[p] \/ f \in results[p] => G("predicted", f) \in done /\ f \notin models[p]

Off(p) == learners[p] = {} /\ models[p] = {} /\ go[p] = {}

EarlyOnce(p) == \A g, h \in go[p] : Early(g) /\ Early(h) => g = h
EarlyFirst(p) ==
    \A g \in go[p] : Early(g) =>
        \A f \in Folds : From(g) <= f => f \notin learners[p] /\ G("trained", f) \notin done
OutIsOver(p) ==
    ~ pool[p] => /\ ~ evaluator[p] /\ ~ stored[p] /\ Main \notin learners[p]
                 /\ Off(p) \/ (splitOk => results[p] = Folds)

CleanOf(p) == EarlyOnce(p) /\ EarlyFirst(p) /\ OutIsOver(p) /\ \A f \in Folds : FoldOf(p, f)

EvalInv ==
    /\ EvalTyped
    /\ \A p \in Executors : ScoresOf(p)
    /\ failures = 0 => \A p \in Executors : CleanOf(p)

LEMMA GoroutineParts ==
    /\ \A k, f : G(k, f).k = k /\ G(k, f).f = f
    /\ \A g \in GoRec : g = G(g.k, g.f)
    /\ \A k \in GoKinds, f \in Folds \cup {Main} : G(k, f) \in GoRec
  BY DEF G, GoRec

LEMMA FoldsAndMain == Folds \subseteq Nat /\ Main \notin Folds /\ 0 \in Folds /\ Main \in Nat
                      /\ \A f \in Folds : f + 1 < K => f + 1 \in Folds
  BY EvaluationAssumption DEF Folds, Main

\* Predictions are counted, and there are no others than those of the folds.
LEMMA EnoughIsAll ==
    ASSUME NEW p \in Executors, results[p] \in SUBSET Folds, Enough(p)
    PROVE  results[p] = Folds
  <1>1. PICK a \in Int, b \in Int : a = 0 /\ b = K - 1
    BY EvaluationAssumption
  <1>2. IsFiniteSet(a..b) /\ Cardinality(a..b) = IF a > b THEN 0 ELSE b - a + 1
    BY FS_Interval
  <1>3. IsFiniteSet(Folds) /\ Cardinality(Folds) = K
    BY <1>1, <1>2, EvaluationAssumption DEF Folds
  <1>4. /\ Cardinality(results[p]) \in Nat /\ Cardinality(results[p]) <= Cardinality(Folds)
        /\ (Cardinality(results[p]) = Cardinality(Folds) => results[p] = Folds)
    BY <1>3, FS_Subset, FS_CardinalityType
  <1> QED
    BY <1>3, <1>4, EvaluationAssumption DEF Enough

LEMMA EvalStart == ProtocolInit => EvalInv
  <1> SUFFICES ASSUME NEW on \in BOOLEAN, EvalInit(on) PROVE EvalInv
    BY DEF ProtocolInit
  <1>1. EvalTyped
    <2>1. G("trained", Main) \in GoRec
      BY GoroutineParts DEF GoKinds
    <2> QED
      BY <2>1 DEF EvalInit, EvalTyped
  <1>2. ASSUME NEW p \in Executors PROVE ScoresOf(p) /\ CleanOf(p)
    <2>1. /\ learners[p] \subseteq {Main} /\ models[p] = {} /\ results[p] = {} /\ handedOver[p] = {}
          /\ go[p] \subseteq {G("trained", Main)} /\ done = {} /\ ~ divided[p]
      BY <1>2 DEF EvalInit
    <2>2. ScoresOf(p)
      BY <2>1, GoroutineParts DEF ScoresOf, GoOk
    <2>3. EarlyOnce(p) /\ EarlyFirst(p)
      BY <2>1, FoldsAndMain DEF EarlyOnce, EarlyFirst
    <2>4. OutIsOver(p)
      BY <1>2 DEF EvalInit, OutIsOver, Off
    <2>5. \A f \in Folds : FoldOf(p, f)
      BY <2>1, GoroutineParts, FoldsAndMain DEF FoldOf
    <2> QED
      BY <2>2, <2>3, <2>4, <2>5 DEF CleanOf
  <1> QED
    BY <1>1, <1>2 DEF EvalInv

\* Of the functions by party, only what belongs to p changes.
OnlyOf(p) ==
    /\ learners' = [learners EXCEPT ![p] = learners'[p]]
    /\ models' = [models EXCEPT ![p] = models'[p]]
    /\ results' = [results EXCEPT ![p] = results'[p]]
    /\ go' = [go EXCEPT ![p] = go'[p]]
    /\ pool' = [pool EXCEPT ![p] = pool'[p]]
    /\ evaluator' = [evaluator EXCEPT ![p] = evaluator'[p]]
    /\ stored' = [stored EXCEPT ![p] = stored'[p]]
    /\ divided' = [divided EXCEPT ![p] = divided'[p]]
    /\ handedOver' = [handedOver EXCEPT ![p] = handedOver'[p]]

LEMMA StepOfOne ==
    ASSUME EvalInv, NEW p \in Executors, OnlyOf(p), UNCHANGED splitOk, failures' \in Nat,
           \/ UNCHANGED <<done, failures>>
           \/ failures' # 0,
           learners'[p] \in SUBSET (Folds \cup {Main}), models'[p] \in SUBSET Folds,
           results'[p] \in SUBSET Folds, go'[p] \in SUBSET GoRec,
           pool'[p] \in BOOLEAN, evaluator'[p] \in BOOLEAN, stored'[p] \in BOOLEAN, divided'[p] \in BOOLEAN,
           handedOver'[p] \in SUBSET ResultRec,
           ScoresOf(p)', failures' = 0 => CleanOf(p)'
    PROVE  EvalInv'
  <1>1. EvalTyped'
    <2>1. learners' \in [Executors -> SUBSET (Folds \cup {Main})] /\ models' \in [Executors -> SUBSET Folds]
      BY DEF EvalInv, EvalTyped, OnlyOf
    <2>2. results' \in [Executors -> SUBSET Folds] /\ go' \in [Executors -> SUBSET GoRec]
      BY DEF EvalInv, EvalTyped, OnlyOf
    <2>3. pool' \in [Executors -> BOOLEAN] /\ evaluator' \in [Executors -> BOOLEAN]
      BY DEF EvalInv, EvalTyped, OnlyOf
    <2>4. stored' \in [Executors -> BOOLEAN] /\ divided' \in [Executors -> BOOLEAN]
      BY DEF EvalInv, EvalTyped, OnlyOf
    <2>5. handedOver' \in [Executors -> SUBSET ResultRec]
      BY DEF EvalInv, EvalTyped, OnlyOf
    <2>6. splitOk' \in BOOLEAN
      BY DEF EvalInv, EvalTyped
    <2> QED
      BY <2>1, <2>2, <2>3, <2>4, <2>5, <2>6 DEF EvalTyped
  <1>2. ASSUME NEW q \in Executors, q # p
        PROVE  ScoresOf(q)' /\ (failures' = 0 => CleanOf(q)')
    <2>1. /\ learners'[q] = learners[q] /\ models'[q] = models[q] /\ results'[q] = results[q]
          /\ go'[q] = go[q] /\ pool'[q] = pool[q] /\ evaluator'[q] = evaluator[q]
          /\ stored'[q] = stored[q] /\ divided'[q] = divided[q] /\ handedOver'[q] = handedOver[q]
      BY <1>2 DEF EvalInv, EvalTyped, OnlyOf
    <2>2. ScoresOf(q)'
      <3>1. ScoresOf(q)
        BY DEF EvalInv
      <3> QED
        BY <2>1, <3>1 DEF ScoresOf, GoOk
    <2>3. ASSUME failures' = 0 PROVE CleanOf(q)'
      <3>1. CleanOf(q) /\ done' = done
        BY <2>3 DEF EvalInv
      <3>2. EarlyOnce(q)' /\ EarlyFirst(q)'
        BY <2>1, <3>1 DEF CleanOf, EarlyOnce, EarlyFirst
      <3>3. OutIsOver(q)'
        BY <2>1, <3>1 DEF CleanOf, OutIsOver, Off
      <3>4. \A f \in Folds : FoldOf(q, f)'
        BY <2>1, <3>1 DEF CleanOf, FoldOf
      <3> QED
        BY <3>2, <3>3, <3>4 DEF CleanOf
    <2> QED
      BY <2>2, <2>3
  <1> QED
    BY <1>1, <1>2 DEF EvalInv

\* A goroutine ends and starts others, which are not among the first ones and do
\* not train, save, predict or score; nothing is added.
LEMMA Subsides ==
    ASSUME EvalInv, NEW p \in Executors, NEW new, CleanOf(p), UNCHANGED <<splitOk, done>>,
           go'[p] \subseteq go[p] \cup new,
           \A h \in new : h.k \in {"count", "finish", "write", "stopFrom"},
           learners'[p] \subseteq learners[p], models'[p] \subseteq models[p],
           results'[p] \subseteq results[p], OutIsOver(p)'
    PROVE  CleanOf(p)'
  <1>1. \A h \in new : ~ Early(h)
    BY GoroutineParts DEF Early
  <1>2. EarlyOnce(p)' /\ EarlyFirst(p)'
    BY <1>1 DEF CleanOf, EarlyOnce, EarlyFirst
  <1>3. \A f \in Folds : FoldOf(p, f)'
    <2> SUFFICES ASSUME NEW f \in Folds PROVE FoldOf(p, f)'
      OBVIOUS
    <2>1. \A k \in {"trained", "saveModel", "predicted", "score"} : G(k, f) \in go'[p] => G(k, f) \in go[p]
      BY GoroutineParts
    <2>2. FoldOf(p, f)
      BY DEF CleanOf
    <2> QED
      BY <2>1, <2>2 DEF FoldOf
  <1> QED
    BY <1>2, <1>3 DEF CleanOf

\* DeleteLearner of the user's task.
LEMMA DeleteMoves ==
    ASSUME EvalInv, NEW p \in Executors, NEW g, DeleteLearner(p, g)
    PROVE  /\ learners' = [learners EXCEPT ![p] = learners'[p]] /\ learners'[p] = learners[p] \ {Main}
           /\ evaluator' = [evaluator EXCEPT ![p] = evaluator'[p]] /\ evaluator'[p] = FALSE
           /\ stored' = [stored EXCEPT ![p] = stored'[p]] /\ stored'[p] = FALSE
           /\ go' = [go EXCEPT ![p] = go'[p]] /\ go'[p] = (go[p] \ {g}) \cup Stopped(p)
           /\ Stopped(p) \subseteq GoRec
           /\ \A h \in Stopped(p) : h.k = "stopFrom" /\ h.f \in Folds /\ splitOk
  <1>1. /\ learners' = [learners EXCEPT ![p] = learners'[p]] /\ learners'[p] = learners[p] \ {Main}
        /\ go' = [go EXCEPT ![p] = go'[p]] /\ go'[p] = (go[p] \ {g}) \cup Stopped(p)
    BY DEF EvalInv, EvalTyped, DeleteLearner, Becomes
  <1>2. /\ evaluator' = [evaluator EXCEPT ![p] = evaluator'[p]] /\ evaluator'[p] = FALSE
        /\ stored' = [stored EXCEPT ![p] = stored'[p]] /\ stored'[p] = FALSE
    BY DEF EvalInv, EvalTyped, DeleteLearner
  <1>3. \A h \in Stopped(p) : (\E f \in Folds : h = G("stopFrom", f)) /\ divided[p]
    BY DEF Stopped
  <1>4. \A h \in Stopped(p) : h \in GoRec /\ h.k = "stopFrom" /\ h.f \in Folds
    BY <1>3, GoroutineParts DEF GoKinds
  <1>5. divided[p] => splitOk
    BY DEF EvalInv, ScoresOf
  <1> QED
    BY <1>1, <1>2, <1>3, <1>4, <1>5

\* A step of the evaluation that deletes the learner, by a goroutine or by a time out.
LEMMA DeleteStep ==
    ASSUME EvalInv, NEW p \in Executors, NEW g, DeleteLearner(p, g),
           UNCHANGED <<splitOk, models, divided, results, done>>,
           failures' \in Nat, UNCHANGED failures \/ failures' # 0,
           \/ UNCHANGED pool
           \/ pool' = [pool EXCEPT ![p] = FALSE],
           UNCHANGED pool \/ failures' # 0 \/ (splitOk => results[p] = Folds),
           \/ UNCHANGED handedOver
           \/ g \in go[p] /\ g.k = "write" /\ handedOver' = [handedOver EXCEPT ![p] = @ \cup {Scores(p, g.f)}]
    PROVE  EvalInv'
  <1>1. /\ learners' = [learners EXCEPT ![p] = learners'[p]] /\ learners'[p] = learners[p] \ {Main}
        /\ evaluator' = [evaluator EXCEPT ![p] = evaluator'[p]] /\ evaluator'[p] = FALSE
        /\ stored' = [stored EXCEPT ![p] = stored'[p]] /\ stored'[p] = FALSE
        /\ go' = [go EXCEPT ![p] = go'[p]] /\ go'[p] = (go[p] \ {g}) \cup Stopped(p)
        /\ Stopped(p) \subseteq GoRec
        /\ \A h \in Stopped(p) : h.k = "stopFrom" /\ h.f \in Folds /\ splitOk
    BY DeleteMoves
  <1>2. /\ learners[p] \in SUBSET (Folds \cup {Main}) /\ models[p] \in SUBSET Folds
        /\ results[p] \in SUBSET Folds /\ go[p] \in SUBSET GoRec /\ divided[p] \in BOOLEAN
        /\ pool[p] \in BOOLEAN /\ ScoresOf(p)
    BY DEF EvalInv, EvalTyped
  <1>3. OnlyOf(p) /\ pool'[p] \in BOOLEAN /\ handedOver'[p] \in SUBSET ResultRec
    <2>1. models' = [models EXCEPT ![p] = models'[p]] /\ results' = [results EXCEPT ![p] = results'[p]]
          /\ divided' = [divided EXCEPT ![p] = divided'[p]]
      BY DEF EvalInv, EvalTyped
    <2>2. pool' = [pool EXCEPT ![p] = pool'[p]] /\ pool'[p] \in BOOLEAN
      <3>1. CASE UNCHANGED pool
        BY <1>2, <3>1 DEF EvalInv, EvalTyped
      <3>2. CASE pool' = [pool EXCEPT ![p] = FALSE]
        BY <3>2 DEF EvalInv, EvalTyped
      <3> QED
        BY <3>1, <3>2
    <2>3. handedOver' = [handedOver EXCEPT ![p] = handedOver'[p]] /\ handedOver'[p] \in SUBSET ResultRec
      <3>1. \A f : Scores(p, f) \in ResultRec
        BY <1>2 DEF Scores, ResultRec
      <3> QED
        BY <3>1 DEF EvalInv, EvalTyped
    <2> QED
      BY <1>1, <2>1, <2>2, <2>3 DEF OnlyOf
  <1>4. ScoresOf(p)'
    <2>1. \A h \in go'[p] : GoOk(p, h)'
      BY <1>1, <1>2 DEF ScoresOf, GoOk
    <2>2. \A r \in handedOver'[p] : r.scores = IF splitOk THEN Folds ELSE {}
      <3>1. CASE UNCHANGED handedOver
        BY <1>2, <3>1 DEF ScoresOf
      <3>2. CASE g \in go[p] /\ g.k = "write" /\ handedOver' = [handedOver EXCEPT ![p] = @ \cup {Scores(p, g.f)}]
        <4>1. GoOk(p, g)
          BY <1>2, <3>2 DEF ScoresOf
        <4>2. Scores(p, g.f).scores = IF splitOk THEN Folds ELSE {}
          BY <3>2, <4>1, FoldsAndMain DEF GoOk, Scores
        <4>3. handedOver'[p] = handedOver[p] \cup {Scores(p, g.f)}
          BY <3>2 DEF EvalInv, EvalTyped
        <4> QED
          BY <1>2, <4>2, <4>3 DEF ScoresOf
      <3> QED
        BY <3>1, <3>2
    <2> QED
      BY <1>1, <1>2, <2>1, <2>2 DEF ScoresOf
  <1>5. ASSUME failures' = 0 PROVE CleanOf(p)'
    <2>1. CleanOf(p) /\ UNCHANGED failures
      BY <1>5 DEF EvalInv
    <2>2. ~ pool'[p] => Off(p) \/ (splitOk => results[p] = Folds)
      BY <1>5, <2>1 DEF CleanOf, OutIsOver
    <2>3. ~ pool'[p] => Stopped(p) = {} \/ (splitOk => results[p] = Folds)
      <3>1. CASE pool[p]
        BY <1>5, <3>1
      <3>2. CASE ~ pool[p]
        BY <2>1, <3>2 DEF CleanOf, OutIsOver, Stopped
      <3> QED
        BY <3>1, <3>2
    <2>4. OutIsOver(p)'
      BY <1>1, <2>2, <2>3 DEF OutIsOver, Off
    <2> QED
      BY <1>1, <2>1, <2>4, Subsides
  <1> QED
    BY <1>1, <1>2, <1>3, <1>4, <1>5, StepOfOne

\* A goroutine of p goes on, and hands nothing over.
LEMMA GoStep ==
    ASSUME EvalInv, NEW p \in Executors, NEW g \in go[p], NEW new \in SUBSET GoRec, Becomes(p, g, new),
           UNCHANGED <<splitOk, done, failures, pool, evaluator, handedOver>>,
           \/ UNCHANGED learners
           \/ \E f \in Folds : learners' = [learners EXCEPT ![p] = @ \cup {f}] /\ splitOk
           \/ \E f : learners' = [learners EXCEPT ![p] = @ \ {f}],
           \/ UNCHANGED models
           \/ \E f \in Folds : models' = [models EXCEPT ![p] = @ \cup {f}] /\ splitOk
           \/ \E f : models' = [models EXCEPT ![p] = @ \ {f}],
           \/ UNCHANGED results
           \/ \E f \in Folds : results' = [results EXCEPT ![p] = @ \cup {f}],
           \/ UNCHANGED stored
           \/ stored' = [stored EXCEPT ![p] = evaluator[p]],
           \/ UNCHANGED divided
           \/ divided' = [divided EXCEPT ![p] = splitOk] /\ splitOk \in BOOLEAN,
           \A h \in new : GoOk(p, h)',
           CleanOf(p) /\ go'[p] = (go[p] \ {g}) \cup new => CleanOf(p)'
    PROVE  EvalInv'
  <1>1. /\ learners \in [Executors -> SUBSET (Folds \cup {Main})] /\ models \in [Executors -> SUBSET Folds]
        /\ results \in [Executors -> SUBSET Folds] /\ go \in [Executors -> SUBSET GoRec]
        /\ handedOver \in [Executors -> SUBSET ResultRec] /\ failures \in Nat
    BY DEF EvalInv, EvalTyped
  <1>2. /\ pool \in [Executors -> BOOLEAN] /\ evaluator \in [Executors -> BOOLEAN]
        /\ stored \in [Executors -> BOOLEAN] /\ divided \in [Executors -> BOOLEAN]
    BY DEF EvalInv, EvalTyped
  <1>3. /\ learners' = [learners EXCEPT ![p] = learners'[p]] /\ learners'[p] \in SUBSET (Folds \cup {Main})
        /\ \A f \in learners'[p] : f \in learners[p] \/ splitOk
    BY <1>1
  <1>4. /\ models' = [models EXCEPT ![p] = models'[p]] /\ models'[p] \in SUBSET Folds
        /\ \A f \in models'[p] : f \in models[p] \/ splitOk
    BY <1>1
  <1>5. results' = [results EXCEPT ![p] = results'[p]] /\ results'[p] \in SUBSET Folds /\ results[p] \subseteq results'[p]
    BY <1>1
  <1>6. go' = [go EXCEPT ![p] = go'[p]] /\ go'[p] \in SUBSET GoRec /\ go'[p] = (go[p] \ {g}) \cup new
    BY <1>1 DEF Becomes
  <1>7. stored' = [stored EXCEPT ![p] = stored'[p]] /\ stored'[p] \in BOOLEAN
    BY <1>2
  <1>8. divided' = [divided EXCEPT ![p] = divided'[p]] /\ divided'[p] \in BOOLEAN /\ (divided'[p] => divided[p] \/ splitOk)
    <2>1. CASE UNCHANGED divided
      BY <1>2, <2>1
    <2>2. CASE divided' = [divided EXCEPT ![p] = splitOk] /\ splitOk \in BOOLEAN
      BY <1>2, <2>2
    <2> QED
      BY <2>1, <2>2
  <1>9. /\ pool' = [pool EXCEPT ![p] = pool'[p]] /\ pool'[p] \in BOOLEAN
        /\ evaluator' = [evaluator EXCEPT ![p] = evaluator'[p]] /\ evaluator'[p] \in BOOLEAN
        /\ handedOver' = [handedOver EXCEPT ![p] = handedOver'[p]] /\ handedOver'[p] \in SUBSET ResultRec
    BY <1>1, <1>2
  <1>10. OnlyOf(p)
    BY <1>3, <1>4, <1>5, <1>6, <1>7, <1>8, <1>9 DEF OnlyOf
  <1>11. ScoresOf(p)'
    <2>1. ScoresOf(p)
      BY DEF EvalInv
    <2>2. results[p] = Folds => results'[p] = Folds
      BY <1>5
    <2>3. ASSUME NEW h \in go[p] PROVE GoOk(p, h)'
      <3>1. GoOk(p, h) /\ UNCHANGED splitOk
        BY <2>1 DEF ScoresOf
      <3> QED
        BY <2>2, <3>1 DEF GoOk
    <2> QED
      BY <1>3, <1>4, <1>6, <1>8, <2>1, <2>3 DEF ScoresOf
  <1>12. failures' = 0 => CleanOf(p)'
    BY <1>6 DEF EvalInv
  <1> QED
    BY <1>1, <1>3, <1>4, <1>5, <1>6, <1>7, <1>8, <1>9, <1>10, <1>11, <1>12, StepOfOne

\* SaveResult.
LEMMA TrainedStep ==
    ASSUME EvalInv, NEW p \in Executors, NEW g \in go[p], g.k = "trained", SaveResult(p, g),
           UNCHANGED <<splitOk, done, failures, pool, models, evaluator, divided, results, handedOver>>
    PROVE  EvalInv'
  <1>a. /\ learners \in [Executors -> SUBSET (Folds \cup {Main})] /\ go \in [Executors -> SUBSET GoRec]
        /\ g \in GoRec /\ g = G("trained", g.f) /\ g.f \in Folds \cup {Main}
        /\ stored \in [Executors -> BOOLEAN] /\ evaluator \in [Executors -> BOOLEAN]
    BY GoroutineParts DEF EvalInv, EvalTyped, GoRec
  <1>b. ScoresOf(p)
    BY DEF EvalInv
  <1>1. CASE g.f = Main
    <2>1. /\ stored' = [stored EXCEPT ![p] = evaluator[p]] /\ UNCHANGED learners
          /\ Becomes(p, g, IF evaluator[p] THEN {G("start", Main)} ELSE {})
      BY <1>1 DEF SaveResult, EvaluateResult
    <2>2. PICK new : new = IF evaluator[p] THEN {G("start", Main)} ELSE {}
      OBVIOUS
    <2>3. new \in SUBSET GoRec /\ new \subseteq {G("start", Main)}
      BY <2>2, GoroutineParts DEF GoKinds
    <2>4. \A h \in new : GoOk(p, h)'
      BY <2>3, GoroutineParts DEF GoOk
    <2>5. ASSUME CleanOf(p), go'[p] = (go[p] \ {g}) \cup new PROVE CleanOf(p)'
      <3>1. Early(g) /\ From(g) = 0 /\ Early(G("start", Main)) /\ From(G("start", Main)) = 0
        BY <1>1, <1>a, GoroutineParts DEF Early, From
      <3>2. \A h \in go'[p] : Early(h) => h = G("start", Main)
        BY <2>3, <2>5, <3>1 DEF CleanOf, EarlyOnce
      <3>3. EarlyOnce(p)'
        BY <3>2 DEF EarlyOnce
      <3>4. EarlyFirst(p)'
        BY <2>1, <2>5, <3>1, <3>2 DEF CleanOf, EarlyFirst
      <3>5. OutIsOver(p)'
        <4>1. stored'[p] = evaluator[p]
          BY <1>a, <2>1
        <4>2. ~ Off(p)
          BY DEF Off
        <4> QED
          BY <2>1, <2>5, <4>1, <4>2 DEF CleanOf, OutIsOver
      <3>6. \A f \in Folds : FoldOf(p, f)'
        <4> SUFFICES ASSUME NEW f \in Folds PROVE FoldOf(p, f)'
          OBVIOUS
        <4>1. \A k \in {"trained", "saveModel", "predicted", "score"} : G(k, f) \in go'[p] => G(k, f) \in go[p]
          BY <2>3, <2>5, GoroutineParts
        <4>2. FoldOf(p, f)
          BY <2>5 DEF CleanOf
        <4> QED
          BY <2>1, <4>1, <4>2 DEF FoldOf
      <3> QED
        BY <3>3, <3>4, <3>5, <3>6 DEF CleanOf
    <2> QED
      BY <2>1, <2>2, <2>3, <2>4, <2>5, GoStep
  <1>2. CASE g.f # Main
    <2>1. /\ learners' = [learners EXCEPT ![p] = @ \ {g.f}] /\ UNCHANGED stored
          /\ Becomes(p, g, IF evaluator[p] THEN {G("saveModel", g.f)} ELSE {})
      BY <1>2 DEF SaveResult, FoldResult
    <2>2. PICK new : new = IF evaluator[p] THEN {G("saveModel", g.f)} ELSE {}
      OBVIOUS
    <2>3. new \in SUBSET GoRec /\ new \subseteq {G("saveModel", g.f)}
      BY <1>a, <2>2, GoroutineParts DEF GoKinds
    <2>4. g.f \in Folds /\ splitOk
      BY <1>2, <1>a, <1>b DEF ScoresOf, GoOk
    <2>5. \A h \in new : GoOk(p, h)'
      BY <2>3, <2>4, GoroutineParts DEF GoOk
    <2>6. ASSUME CleanOf(p), go'[p] = (go[p] \ {g}) \cup new PROVE CleanOf(p)'
      <3>1. ~ Early(G("saveModel", g.f)) /\ learners'[p] = learners[p] \ {g.f}
        BY <1>a, <2>1, GoroutineParts DEF Early
      <3>2. EarlyOnce(p)' /\ EarlyFirst(p)'
        BY <2>3, <2>6, <3>1 DEF CleanOf, EarlyOnce, EarlyFirst
      <3>3. OutIsOver(p)'
        BY <2>1, <2>6, <3>1 DEF CleanOf, OutIsOver, Off
      <3>4. \A f \in Folds : FoldOf(p, f)'
        <4> SUFFICES ASSUME NEW f \in Folds PROVE FoldOf(p, f)'
          OBVIOUS
        <4>1. \A k \in {"trained", "predicted", "score"} : G(k, f) \in go'[p] => G(k, f) \in go[p]
          BY <2>3, <2>6, GoroutineParts
        <4>2. FoldOf(p, f) /\ FoldOf(p, g.f)
          BY <2>4, <2>6 DEF CleanOf
        <4>3. G("saveModel", f) \in go'[p] => G("saveModel", f) \in go[p] \/ f = g.f
          BY <2>3, <2>6, GoroutineParts
        <4>4. G("trained", g.f) \notin go'[p]
          BY <1>a, <2>3, <2>6, GoroutineParts
        <4> QED
          BY <1>a, <3>1, <4>1, <4>2, <4>3, <4>4 DEF FoldOf
      <3> QED
        BY <3>2, <3>3, <3>4 DEF CleanOf
    <2> QED
      BY <2>1, <2>2, <2>3, <2>5, <2>6, GoStep
  <1> QED
    BY <1>1, <1>2

\* Start of the evaluator.
LEMMA StartStep ==
    ASSUME EvalInv, NEW p \in Executors, NEW g \in go[p], g.k = "start", Start(p, g),
           UNCHANGED <<splitOk, done, failures, pool, learners, models, evaluator, stored, results, handedOver>>
    PROVE  EvalInv'
  <1>1. PICK h : h = IF splitOk THEN G("train", 0) ELSE G("finish", Main)
    OBVIOUS
  <1>2. Becomes(p, g, {h}) /\ divided' = [divided EXCEPT ![p] = splitOk] /\ splitOk \in BOOLEAN
    BY <1>1 DEF Start, EvalInv, EvalTyped
  <1>3. /\ h \in GoRec /\ (splitOk => h.k = "train" /\ h.f = 0) /\ (~ splitOk => h.k = "finish" /\ h.f = Main)
    BY <1>1, GoroutineParts, FoldsAndMain DEF GoKinds
  <1>4. GoOk(p, h)'
    BY <1>3, FoldsAndMain DEF GoOk
  <1>5. ASSUME CleanOf(p), go'[p] = (go[p] \ {g}) \cup {h} PROVE CleanOf(p)'
    <2>1. Early(g) /\ From(g) = 0 /\ (Early(h) => From(h) = 0)
      BY <1>3, GoroutineParts DEF Early, From
    <2>2. \A x \in go'[p] : Early(x) => x = h
      BY <1>5, <2>1 DEF CleanOf, EarlyOnce
    <2>3. EarlyOnce(p)'
      BY <2>2 DEF EarlyOnce
    <2>4. EarlyFirst(p)'
      BY <1>5, <2>1, <2>2 DEF CleanOf, EarlyFirst
    <2>5. OutIsOver(p)'
      BY <1>5 DEF CleanOf, OutIsOver, Off
    <2>6. \A f \in Folds : FoldOf(p, f)'
      <3> SUFFICES ASSUME NEW f \in Folds PROVE FoldOf(p, f)'
        OBVIOUS
      <3>1. \A k \in {"trained", "saveModel", "predicted", "score"} : G(k, f) \in go'[p] => G(k, f) \in go[p]
        BY <1>3, <1>5, GoroutineParts
      <3>2. FoldOf(p, f)
        BY <1>5 DEF CleanOf
      <3> QED
        BY <3>1, <3>2 DEF FoldOf
    <2> QED
      BY <2>3, <2>4, <2>5, <2>6 DEF CleanOf
  <1> QED
    BY <1>2, <1>3, <1>4, <1>5, GoStep

\* train of the evaluator.
LEMMA TrainStep ==
    ASSUME EvalInv, NEW p \in Executors, NEW g \in go[p], g.k = "train", Train(p, g),
           UNCHANGED <<splitOk, done, failures, pool, models, evaluator, stored, divided, results, handedOver>>
    PROVE  EvalInv'
  <1>1. g.f \in Folds /\ splitOk
    BY DEF EvalInv, ScoresOf, GoOk
  <1>2. PICK new : new = IF g.f + 1 < K THEN {G("train", g.f + 1)} ELSE {}
    OBVIOUS
  <1>3. Becomes(p, g, new) /\ learners' = [learners EXCEPT ![p] = @ \cup {g.f}]
    BY <1>2 DEF Train
  <1>4. \A h \in new : h \in GoRec /\ h.k = "train" /\ h.f = g.f + 1 /\ h.f \in Folds /\ h = G("train", g.f + 1)
    BY <1>1, <1>2, GoroutineParts, FoldsAndMain DEF GoKinds
  <1>5. \A h \in new : GoOk(p, h)'
    BY <1>1, <1>4 DEF GoOk
  <1>6. ASSUME CleanOf(p), go'[p] = (go[p] \ {g}) \cup new PROVE CleanOf(p)'
    <2>1. Early(g) /\ From(g) = g.f /\ \A h \in new : From(h) = g.f + 1
      BY <1>4 DEF Early, From
    <2>2. \A x \in go'[p] : Early(x) => x \in new
      BY <1>6, <2>1 DEF CleanOf, EarlyOnce
    <2>3. EarlyOnce(p)'
      BY <1>4, <2>2 DEF EarlyOnce
    <2>4. learners'[p] = learners[p] \cup {g.f}
      BY <1>3 DEF EvalInv, EvalTyped
    <2>5. EarlyFirst(p)'
      <3> SUFFICES ASSUME NEW x \in go'[p], Early(x), NEW f \in Folds, From(x) <= f
                   PROVE  f \notin learners'[p] /\ G("trained", f) \notin done
        BY DEF EarlyFirst, Early, From
      <3>1. g.f + 1 <= f /\ g.f \in Nat /\ f \in Nat
        BY <1>1, <2>1, <2>2, FoldsAndMain
      <3>2. f # g.f /\ From(g) <= f
        BY <2>1, <3>1
      <3> QED
        BY <1>6, <2>1, <2>4, <3>2 DEF CleanOf, EarlyFirst
    <2>6. G("trained", g.f) \notin done
      <3>a. g.f \in Nat
        BY <1>1, FoldsAndMain
      <3>1. From(g) <= g.f
        BY <2>1, <3>a
      <3> QED
        BY <1>1, <1>6, <2>1, <3>1 DEF CleanOf, EarlyFirst
    <2>7. \A f \in Folds : FoldOf(p, f)'
      <3> SUFFICES ASSUME NEW f \in Folds PROVE FoldOf(p, f)'
        OBVIOUS
      <3>1. \A k \in {"trained", "saveModel", "predicted", "score"} : G(k, f) \in go'[p] => G(k, f) \in go[p]
        BY <1>4, <1>6, GoroutineParts
      <3>2. FoldOf(p, f)
        BY <1>6 DEF CleanOf
      <3> QED
        BY <2>4, <2>6, <3>1, <3>2 DEF FoldOf
    <2>8. OutIsOver(p)'
      <3>1. ~ Off(p) /\ g.f # Main
        BY <1>1, FoldsAndMain DEF Off
      <3> QED
        BY <1>6, <2>4, <3>1 DEF CleanOf, OutIsOver
    <2> QED
      BY <2>3, <2>5, <2>7, <2>8 DEF CleanOf
  <1> QED
    BY <1>1, <1>3, <1>4, <1>5, <1>6, GoStep

\* SaveModel of the evaluator.
LEMMA SaveModelStep ==
    ASSUME EvalInv, NEW p \in Executors, NEW g \in go[p], g.k = "saveModel", SaveModel(p, g),
           UNCHANGED <<splitOk, done, failures, pool, learners, evaluator, stored, divided, results, handedOver>>
    PROVE  EvalInv'
  <1>1. g.f \in Folds /\ splitOk
    BY DEF EvalInv, ScoresOf, GoOk
  <1>2. g = G("saveModel", g.f)
    BY GoroutineParts DEF EvalInv, EvalTyped
  <1>3. Becomes(p, g, {}) /\ models' = [models EXCEPT ![p] = @ \cup {g.f}]
    BY DEF SaveModel
  <1>4. ASSUME CleanOf(p), go'[p] = (go[p] \ {g}) \cup {} PROVE CleanOf(p)'
    <2>1. models'[p] = models[p] \cup {g.f}
      BY <1>3 DEF EvalInv, EvalTyped
    <2>2. EarlyOnce(p)' /\ EarlyFirst(p)'
      BY <1>4 DEF CleanOf, EarlyOnce, EarlyFirst
    <2>3. OutIsOver(p)'
      <3>1. ~ Off(p)
        BY DEF Off
      <3> QED
        BY <1>4, <3>1 DEF CleanOf, OutIsOver
    <2>4. \A f \in Folds : FoldOf(p, f)'
      <3> SUFFICES ASSUME NEW f \in Folds PROVE FoldOf(p, f)'
        OBVIOUS
      <3>1. FoldOf(p, f) /\ FoldOf(p, g.f)
        BY <1>1, <1>4 DEF CleanOf
      <3>2. g.f \notin results[p] /\ G("score", g.f) \notin go[p]
        BY <1>2, <3>1 DEF FoldOf
      <3> QED
        BY <1>2, <1>4, <2>1, <3>1, <3>2 DEF FoldOf
    <2> QED
      BY <2>2, <2>3, <2>4 DEF CleanOf
  <1>5. {} \in SUBSET GoRec /\ \A h \in {} : GoOk(p, h)'
    OBVIOUS
  <1>6. CleanOf(p) /\ go'[p] = (go[p] \ {g}) \cup {} => CleanOf(p)'
    BY <1>4
  <1> QED
    BY <1>1, <1>3, <1>5, <1>6, GoStep

\* SaveResult of the predictor, and Validate.
LEMMA PredictedStep ==
    ASSUME EvalInv, NEW p \in Executors, NEW g \in go[p], g.k = "predicted", Validate(p, g),
           UNCHANGED <<splitOk, done, failures, pool, learners, evaluator, stored, divided, results, handedOver>>
    PROVE  EvalInv'
  <1>1. g.f \in Folds /\ splitOk
    BY DEF EvalInv, ScoresOf, GoOk
  <1>2. g = G("predicted", g.f)
    BY GoroutineParts DEF EvalInv, EvalTyped
  <1>3. PICK new : new = IF evaluator[p] THEN {G("score", g.f)} ELSE {}
    OBVIOUS
  <1>4. Becomes(p, g, new) /\ models' = [models EXCEPT ![p] = @ \ {g.f}]
    BY <1>3 DEF Validate
  <1>5. \A h \in new : h \in GoRec /\ h = G("score", g.f) /\ h.k = "score" /\ h.f = g.f
    BY <1>1, <1>3, GoroutineParts DEF GoKinds
  <1>6. \A h \in new : GoOk(p, h)'
    BY <1>1, <1>5 DEF GoOk
  <1>7. ASSUME CleanOf(p), go'[p] = (go[p] \ {g}) \cup new PROVE CleanOf(p)'
    <2>1. models'[p] = models[p] \ {g.f}
      BY <1>4 DEF EvalInv, EvalTyped
    <2>2. EarlyOnce(p)' /\ EarlyFirst(p)'
      <3>1. \A h \in new : ~ Early(h)
        BY <1>5, GoroutineParts DEF Early
      <3> QED
        BY <1>7, <3>1 DEF CleanOf, EarlyOnce, EarlyFirst
    <2>3. OutIsOver(p)'
      <3>1. ~ Off(p)
        BY DEF Off
      <3> QED
        BY <1>7, <3>1 DEF CleanOf, OutIsOver
    <2>4. \A f \in Folds : FoldOf(p, f)'
      <3> SUFFICES ASSUME NEW f \in Folds PROVE FoldOf(p, f)'
        OBVIOUS
      <3>1. FoldOf(p, f) /\ FoldOf(p, g.f)
        BY <1>1, <1>7 DEF CleanOf
      <3>2. \A k \in {"trained", "saveModel", "predicted"} : G(k, f) \in go'[p] => G(k, f) \in go[p]
        BY <1>5, <1>7, GoroutineParts
      <3>3. G("score", f) \in go'[p] => G("score", f) \in go[p] \/ f = g.f
        BY <1>5, <1>7, GoroutineParts
      <3> QED
        BY <1>2, <1>7, <2>1, <3>1, <3>2, <3>3 DEF FoldOf
    <2> QED
      BY <2>2, <2>3, <2>4 DEF CleanOf
  <1> QED
    BY <1>4, <1>5, <1>6, <1>7, GoStep

\* calMetricScoresAndCallback sets a prediction.
LEMMA ScoreStep ==
    ASSUME EvalInv, NEW p \in Executors, NEW g \in go[p], g.k = "score", SetPredictOut(p, g),
           UNCHANGED <<splitOk, done, failures, pool, learners, models, evaluator, stored, divided, handedOver>>
    PROVE  EvalInv'
  <1>1. g.f \in Folds /\ splitOk
    BY DEF EvalInv, ScoresOf, GoOk
  <1>2. g = G("score", g.f)
    BY GoroutineParts DEF EvalInv, EvalTyped
  <1>3. PICK h : h = G("count", g.f)
    OBVIOUS
  <1>4. Becomes(p, g, {h}) /\ results' = [results EXCEPT ![p] = @ \cup {g.f}]
    BY <1>3 DEF SetPredictOut
  <1>5. h \in GoRec /\ h.k = "count" /\ h.f = g.f
    BY <1>1, <1>3, GoroutineParts DEF GoKinds
  <1>6. GoOk(p, h)'
    BY <1>1, <1>5 DEF GoOk
  <1>7. ASSUME CleanOf(p), go'[p] = (go[p] \ {g}) \cup {h} PROVE CleanOf(p)'
    <2>1. results'[p] = results[p] \cup {g.f} /\ results[p] \in SUBSET Folds
      BY <1>4 DEF EvalInv, EvalTyped
    <2>2. EarlyOnce(p)' /\ EarlyFirst(p)'
      <3>1. ~ Early(h)
        BY <1>5, GoroutineParts DEF Early
      <3> QED
        BY <1>7, <3>1 DEF CleanOf, EarlyOnce, EarlyFirst
    <2>3. OutIsOver(p)'
      <3>1. ~ Off(p)
        BY DEF Off
      <3> QED
        BY <1>1, <1>7, <2>1, <3>1 DEF CleanOf, OutIsOver
    <2>4. \A f \in Folds : FoldOf(p, f)'
      <3> SUFFICES ASSUME NEW f \in Folds PROVE FoldOf(p, f)'
        OBVIOUS
      <3>1. FoldOf(p, f) /\ FoldOf(p, g.f)
        BY <1>1, <1>7 DEF CleanOf
      <3>2. \A k \in {"trained", "saveModel", "predicted", "score"} : G(k, f) \in go'[p] => G(k, f) \in go[p]
        BY <1>5, <1>7, GoroutineParts
      <3> QED
        BY <1>2, <1>7, <2>1, <3>1, <3>2 DEF FoldOf
    <2> QED
      BY <2>2, <2>3, <2>4 DEF CleanOf
  <1> QED
    BY <1>1, <1>4, <1>5, <1>6, <1>7, GoStep

\* Predictions are counted; the result is found; a learner is stopped.
LEMMA LateStep ==
    ASSUME EvalInv, NEW p \in Executors, NEW g \in go[p], UNCHANGED <<splitOk, done, failures, pool, models, evaluator, divided, results, handedOver>>,
           \/ g.k = "count" /\ CountOuts(p, g) /\ UNCHANGED <<learners, stored>>
           \/ g.k = "finish" /\ Becomes(p, g, {G("write", g.f)}) /\ UNCHANGED <<learners, stored>>
           \/ g.k = "stopFrom" /\ StopFrom(p, g) /\ UNCHANGED stored
    PROVE  EvalInv'
  <1>1. /\ g.f \in Folds \cup {Main} /\ GoOk(p, g) /\ results[p] \in SUBSET Folds
        /\ learners \in [Executors -> SUBSET (Folds \cup {Main})]
    BY DEF EvalInv, EvalTyped, ScoresOf, GoRec
  <1>2. PICK new : /\ Becomes(p, g, new) /\ new \subseteq {G("finish", g.f), G("write", g.f)}
                   /\ new # {} => g.k = "finish" \/ (g.k = "count" /\ Enough(p))
    BY DEF CountOuts, StopFrom
  <1>3. \A h \in new : h \in GoRec /\ h.k \in {"finish", "write"} /\ h.f = g.f
    BY <1>1, <1>2, GoroutineParts DEF GoKinds
  <1>4. \A h \in new : GoOk(p, h)'
    BY <1>1, <1>2, <1>3, EnoughIsAll DEF GoOk
  <1>5. UNCHANGED learners \/ \E f : learners' = [learners EXCEPT ![p] = @ \ {f}]
    BY DEF StopFrom
  <1>6. learners'[p] \subseteq learners[p]
    BY <1>1, <1>5
  <1>7. UNCHANGED stored
    OBVIOUS
  <1>8. ASSUME CleanOf(p), go'[p] = (go[p] \ {g}) \cup new PROVE CleanOf(p)'
    <2>1. ~ Off(p)
      BY DEF Off
    <2>2. OutIsOver(p)'
      BY <1>6, <1>7, <1>8, <2>1 DEF CleanOf, OutIsOver
    <2> QED
      BY <1>3, <1>6, <1>8, <2>2, Subsides
  <1> QED
    BY <1>2, <1>3, <1>4, <1>5, <1>7, <1>8, GoStep

\* The learners, or the models, of a fold are through at both parties.
LEMMA FoldStep ==
    ASSUME EvalInv, NEW f \in Folds, FoldTrained(f) \/ FoldPredicted(f)
    PROVE  EvalInv'
  <1>1. PICK k \in {"trained", "predicted"} :
            /\ k = "trained" => \A p \in Executors : f \in learners[p]
            /\ k = "predicted" => \A p \in Executors : f \in models[p]
            /\ G(k, f) \notin done /\ done' = done \cup {G(k, f)}
            /\ go' = [p \in Executors |-> go[p] \cup {G(k, f)}]
            /\ UNCHANGED <<splitOk, pool, learners, models, evaluator, stored, divided, results, handedOver, failures>>
    BY DEF FoldTrained, FoldPredicted
  <1>2. PICK n : n = G(k, f)
    OBVIOUS
  <1>3. n \in GoRec /\ n.k = k /\ n.f = f /\ ~ Early(n) /\ f # Main
    BY <1>2, GoroutineParts, FoldsAndMain DEF GoKinds, Early
  <1>4. \A p \in Executors : go'[p] = go[p] \cup {n}
    BY <1>1, <1>2
  <1>5. EvalTyped'
    <2>1. go' \in [Executors -> SUBSET GoRec]
      BY <1>1, <1>2, <1>3 DEF EvalInv, EvalTyped
    <2> QED
      BY <1>1, <2>1 DEF EvalInv, EvalTyped
  <1>6. ASSUME NEW p \in Executors PROVE ScoresOf(p)'
    <2>1. ScoresOf(p)
      BY DEF EvalInv
    <2>2. splitOk
      BY <1>1, <1>3, <2>1 DEF ScoresOf
    <2>3. GoOk(p, n)'
      BY <1>1, <1>3, <2>2 DEF GoOk
    <2>4. \A h \in go[p] : GoOk(p, h)'
      BY <1>1, <2>1 DEF ScoresOf, GoOk
    <2> QED
      BY <1>1, <1>4, <2>1, <2>3, <2>4 DEF ScoresOf
  <1>7. ASSUME NEW p \in Executors, failures = 0 PROVE CleanOf(p)'
    <2>1. CleanOf(p)
      BY <1>7 DEF EvalInv
    <2>2. EarlyOnce(p)'
      BY <1>3, <1>4, <2>1 DEF CleanOf, EarlyOnce
    <2>3. \A g : (Early(g) /\ g \in go[p]) => \A x \in Folds : From(g) <= x => x \notin learners[p] /\ G("trained", x) \notin done
      BY <2>1 DEF CleanOf, EarlyFirst
    <2>4. \A x \in Folds : G("trained", x) \in done' => G("trained", x) \in done \/ x \in learners[p]
      BY <1>1, GoroutineParts
    <2>5. EarlyFirst(p)'
      BY <1>1, <1>3, <1>4, <2>3, <2>4 DEF EarlyFirst
    <2>6. OutIsOver(p)'
      BY <1>1, <2>1 DEF CleanOf, OutIsOver, Off
    <2>7. ASSUME NEW x \in Folds PROVE FoldOf(p, x)'
      <3>1. FoldOf(p, x)
        BY <2>1 DEF CleanOf
      <3>2. CASE x # f
        <4>1. \A y : (G(y, x) \in go'[p] <=> G(y, x) \in go[p]) /\ (G(y, x) \in done' <=> G(y, x) \in done)
          BY <1>1, <1>2, <1>4, <3>2, GoroutineParts
        <4> QED
          BY <1>1, <3>1, <4>1 DEF FoldOf
      <3>3. CASE x = f /\ k = "trained"
        <4>1. \A y : y # "trained" => (G(y, x) \in go'[p] <=> G(y, x) \in go[p]) /\ (G(y, x) \in done' <=> G(y, x) \in done)
          BY <1>1, <1>2, <1>4, <3>3, GoroutineParts
        <4> QED
          BY <1>1, <3>1, <3>3, <4>1 DEF FoldOf
      <3>4. CASE x = f /\ k = "predicted"
        <4>1. \A y : y # "predicted" => (G(y, x) \in go'[p] <=> G(y, x) \in go[p]) /\ (G(y, x) \in done' <=> G(y, x) \in done)
          BY <1>1, <1>2, <1>4, <3>4, GoroutineParts
        <4> QED
          BY <1>1, <3>1, <3>4, <4>1 DEF FoldOf
      <3> QED
        BY <3>2, <3>3, <3>4
    <2> QED
      BY <2>2, <2>5, <2>6, <2>7 DEF CleanOf
  <1> QED
    BY <1>1, <1>5, <1>6, <1>7 DEF EvalInv

\* A learner or a model of a fold fails.
LEMMA FailStep ==
    ASSUME EvalInv, NEW p \in Executors, NEW f \in Folds, FoldFails(p, f) \/ PredictionFails(p, f)
    PROVE  EvalInv'
  <1>1. /\ failures' = failures + 1 /\ failures \in Nat
        /\ UNCHANGED <<splitOk, pool, evaluator, stored, divided, results, handedOver, go>>
        /\ UNCHANGED learners \/ learners' = [learners EXCEPT ![p] = @ \ {f}]
        /\ UNCHANGED models \/ models' = [models EXCEPT ![p] = @ \ {f}]
    BY DEF FoldFails, PredictionFails, Failure, EvalInv, EvalTyped
  <1>2. failures' \in Nat /\ failures' # 0
    BY <1>1
  <1>3. /\ learners' \in [Executors -> SUBSET (Folds \cup {Main})] /\ models' \in [Executors -> SUBSET Folds]
        /\ \A q \in Executors : learners'[q] \subseteq learners[q] /\ models'[q] \subseteq models[q]
    BY <1>1 DEF EvalInv, EvalTyped
  <1>4. EvalTyped'
    BY <1>1, <1>2, <1>3 DEF EvalInv, EvalTyped
  <1>5. \A q \in Executors : ScoresOf(q)'
    BY <1>1, <1>3 DEF EvalInv, ScoresOf, GoOk
  <1> QED
    BY <1>2, <1>4, <1>5 DEF EvalInv

LEMMA TimeOutStep ==
    ASSUME EvalInv, NEW p \in Executors, TimeOut(p) PROVE EvalInv'
  <1>1. failures' = failures + 1 /\ failures \in Nat
    BY DEF TimeOut, Failure, EvalInv, EvalTyped
  <1>2. failures' \in Nat /\ failures' # 0
    BY <1>1
  <1> QED
    BY <1>2, DeleteStep DEF TimeOut

\* A learner or a model cannot be started, and the process panics; or a
\* prediction or the scores are given up.
LEMMA RefusedStep ==
    ASSUME EvalInv, NEW p \in Executors, NEW g \in go[p], StartRefused(p, g) \/ ScoreFails(p, g)
    PROVE  EvalInv'
  <1>1. failures' = failures + 1 /\ failures \in Nat
    BY DEF StartRefused, ScoreFails, Failure, EvalInv, EvalTyped
  <1>2. failures' \in Nat /\ failures' # 0
    BY <1>1
  <1>3. EvalTyped'
    <2>1. CASE StartRefused(p, g)
      BY <1>2, <2>1 DEF StartRefused, EvalInv, EvalTyped
    <2>2. CASE ScoreFails(p, g)
      <3>1. go' = [go EXCEPT ![p] = go[p] \ {g}]
        BY <2>2 DEF ScoreFails, Becomes
      <3>2. go' \in [Executors -> SUBSET GoRec]
        BY <3>1 DEF EvalInv, EvalTyped
      <3> QED
        BY <1>2, <2>2, <3>2 DEF ScoreFails, EvalInv, EvalTyped
    <2> QED
      BY <2>1, <2>2
  <1>4. ASSUME NEW q \in Executors PROVE ScoresOf(q)'
    <2>1. ScoresOf(q)
      BY DEF EvalInv
    <2>2. CASE StartRefused(p, g)
      <3>1. UNCHANGED <<splitOk, handedOver>>
        BY <2>2 DEF StartRefused
      <3>2. CASE q = p
        <4>1. learners'[q] = {} /\ models'[q] = {} /\ go'[q] = {} /\ ~ divided'[q]
          BY <2>2, <3>2 DEF StartRefused, EvalInv, EvalTyped
        <4> QED
          BY <2>1, <3>1, <4>1 DEF ScoresOf
      <3>3. CASE q # p
        <4>1. /\ learners'[q] = learners[q] /\ models'[q] = models[q] /\ go'[q] = go[q]
              /\ divided'[q] = divided[q] /\ results'[q] = results[q]
          BY <2>2, <3>3 DEF StartRefused, EvalInv, EvalTyped
        <4> QED
          BY <2>1, <3>1, <4>1 DEF ScoresOf, GoOk
      <3> QED
        BY <3>2, <3>3
    <2>3. CASE ScoreFails(p, g)
      <3>1. /\ UNCHANGED <<splitOk, learners, models, divided, results, handedOver>>
            /\ go' = [go EXCEPT ![p] = go[p] \ {g}]
        BY <2>3 DEF ScoreFails, Becomes
      <3>2. go'[q] \subseteq go[q]
        BY <3>1 DEF EvalInv, EvalTyped
      <3> QED
        BY <2>1, <3>1, <3>2 DEF ScoresOf, GoOk
    <2> QED
      BY <2>2, <2>3
  <1> QED
    BY <1>2, <1>3, <1>4 DEF EvalInv

LEMMA GoroutineStep ==
    ASSUME EvalInv, NEW p \in Executors, Goroutine(p), UNCHANGED <<splitOk, done, failures>>
    PROVE  EvalInv'
  <1>a. failures' \in Nat
    BY DEF EvalInv, EvalTyped
  <1>1. PICK g \in go[p] :
        \/ /\ g.k = "trained" /\ SaveResult(p, g)
           /\ UNCHANGED <<pool, models, evaluator, divided, results, handedOver>>
        \/ /\ g.k = "start" /\ Start(p, g)
           /\ UNCHANGED <<pool, learners, models, evaluator, stored, results, handedOver>>
        \/ /\ g.k = "train" /\ Train(p, g)
           /\ UNCHANGED <<pool, models, evaluator, stored, divided, results, handedOver>>
        \/ /\ g.k = "saveModel" /\ SaveModel(p, g)
           /\ UNCHANGED <<pool, learners, evaluator, stored, divided, results, handedOver>>
        \/ /\ g.k = "predicted" /\ Validate(p, g)
           /\ UNCHANGED <<pool, learners, evaluator, stored, divided, results, handedOver>>
        \/ /\ g.k = "score" /\ SetPredictOut(p, g)
           /\ UNCHANGED <<pool, learners, models, evaluator, stored, divided, handedOver>>
        \/ /\ g.k = "count" /\ CountOuts(p, g)
           /\ UNCHANGED <<pool, learners, models, evaluator, stored, divided, results, handedOver>>
        \/ /\ g.k = "finish" /\ FindResult(p, g)
           /\ UNCHANGED <<pool, models, divided, results, handedOver>>
        \/ /\ g.k = "write" /\ WriteResult(p, g)
           /\ UNCHANGED <<models, divided, results>>
        \/ /\ g.k = "stopFrom" /\ StopFrom(p, g)
           /\ UNCHANGED <<pool, models, evaluator, stored, divided, results, handedOver>>
    BY DEF Goroutine
  <1>2. CASE g.k = "trained"
    BY <1>1, <1>2, TrainedStep
  <1>3. CASE g.k = "start"
    BY <1>1, <1>3, StartStep
  <1>4. CASE g.k = "train"
    BY <1>1, <1>4, TrainStep
  <1>5. CASE g.k = "saveModel"
    BY <1>1, <1>5, SaveModelStep
  <1>6. CASE g.k = "predicted"
    BY <1>1, <1>6, PredictedStep
  <1>7. CASE g.k = "score"
    BY <1>1, <1>7, ScoreStep
  <1>8. CASE g.k \in {"count", "stopFrom"}
    BY <1>1, <1>8, LateStep
  <1>9. CASE g.k = "finish"
    <2>1. FindResult(p, g) /\ UNCHANGED <<pool, models, divided, results, handedOver>>
      BY <1>1, <1>9
    <2>2. CASE stored[p] /\ pool[p]
      BY <1>9, <2>1, <2>2, LateStep DEF FindResult
    <2>3. CASE ~ (stored[p] /\ pool[p])
      <3>1. DeleteLearner(p, g)
        BY <2>1, <2>3 DEF FindResult
      <3> QED
        BY <1>a, <2>1, <3>1, DeleteStep
    <2> QED
      BY <2>2, <2>3
  <1>10. CASE g.k = "write"
    <2>1. /\ DeleteLearner(p, g) /\ pool' = [pool EXCEPT ![p] = FALSE] /\ UNCHANGED <<models, divided, results>>
          /\ handedOver' = [handedOver EXCEPT ![p] = @ \cup {Scores(p, g.f)}]
      BY <1>1, <1>10 DEF WriteResult
    <2>2. splitOk => results[p] = Folds
      BY <1>10 DEF EvalInv, ScoresOf, GoOk
    <2> QED
      BY <1>a, <1>10, <2>1, <2>2, DeleteStep
  <1> QED
    BY <1>1, <1>2, <1>3, <1>4, <1>5, <1>6, <1>7, <1>8, <1>9, <1>10

LEMMA EvalStep == EvalInv /\ [ProtocolNext]_protocolVars => EvalInv'
  <1> SUFFICES ASSUME EvalInv, [ProtocolNext]_protocolVars PROVE EvalInv'
    OBVIOUS
  <1>1. ASSUME UNCHANGED evalVars PROVE EvalInv'
    <2>1. EvalTyped'
      BY <1>1 DEF evalVars, EvalInv, EvalTyped
    <2>2. \A p \in Executors : ScoresOf(p)'
      BY <1>1 DEF evalVars, EvalInv, ScoresOf, GoOk
    <2>3. \A p \in Executors : CleanOf(p) => CleanOf(p)'
      BY <1>1 DEF evalVars, CleanOf, EarlyOnce, EarlyFirst, OutIsOver, Off, FoldOf
    <2> QED
      BY <1>1, <2>1, <2>2, <2>3 DEF EvalInv, evalVars
  <1>2. ASSUME EvalNext PROVE EvalInv'
    BY <1>2, GoroutineStep, FoldStep, FailStep, RefusedStep, TimeOutStep DEF EvalNext, EvalWork
  <1> QED
    BY <1>1, <1>2 DEF ProtocolNext, protocolVars

LEMMA EvalHolds == EvalInv => EvaluationSound
  <1> SUFFICES ASSUME EvalInv PROVE EvaluationSound
    OBVIOUS
  <1>1. ScoresComplete
    BY DEF ScoresComplete, EvalInv, ScoresOf
  <1>2. LeavesNothing
    <2> SUFFICES ASSUME NEW p \in Executors, failures = 0, ~ pool[p], go[p] = {}
                 PROVE  learners[p] = {} /\ models[p] = {} /\ ~ evaluator[p] /\ ~ stored[p]
      BY DEF LeavesNothing
    <2>1. CleanOf(p) /\ ScoresOf(p)
      BY DEF EvalInv
    <2>2. /\ ~ evaluator[p] /\ ~ stored[p] /\ Main \notin learners[p]
          /\ Off(p) \/ (splitOk => results[p] = Folds)
      BY <2>1 DEF CleanOf, OutIsOver
    <2>3. learners[p] \in SUBSET (Folds \cup {Main}) /\ models[p] \in SUBSET Folds
      BY DEF EvalInv, EvalTyped
    <2>4. CASE Off(p)
      BY <2>2, <2>4 DEF Off
    <2>5. CASE splitOk /\ results[p] = Folds
      <3>1. \A f \in Folds : f \notin learners[p] /\ f \notin models[p]
        BY <2>1, <2>5 DEF CleanOf, FoldOf
      <3> QED
        BY <2>2, <2>3, <3>1
    <2>6. CASE ~ splitOk
      BY <2>1, <2>2, <2>3, <2>6, FoldsAndMain DEF ScoresOf
    <2> QED
      BY <2>2, <2>4, <2>5, <2>6
  <1> QED
    BY <1>1, <1>2 DEF EvaluationSound

\* However callbacks interleave and whatever fails, panics or times out, a model is handed
\* over with the predictions of all folds, or with none when the samples could not
\* be divided; and if nothing fails, a party whose goroutines are through keeps no
\* learner, model, evaluator or model put aside.
THEOREM EvaluationIsSound == ProtocolSpec => []EvaluationSound
  <1>1. ProtocolInit => EvalInv
    BY EvalStart
  <1>2. EvalInv /\ [ProtocolNext]_protocolVars => EvalInv'
    BY EvalStep
  <1>3. EvalInv => EvaluationSound
    BY EvalHolds
  <1> QED
    BY <1>1, <1>2, <1>3, PTL DEF ProtocolSpec
==============================================================================
