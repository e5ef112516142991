-------------------------- MODULE VLLearner_proofs --------------------------
(***************************************************************************)
(* Two learners keep their rounds together: no calculation runs without    *)
(* its inputs, none mixes the data of two rounds, and a model is handed    *)
(* over only of a round that both have decided to be the last.             *)
(***************************************************************************)
EXTENDS VLLearner, FiniteSetTheorems, TLAPS

-----------------------------------------------------------------------------
(***************************************************************************)
(* The inductive invariant.  The types first: a goroutine is in a call if  *)
(* and only if it sends a message, and what it sends is of the message's   *)
(* kind.                                                                   *)
(***************************************************************************)
Kinds == Messages \cup RoundChecked \cup Unchecked

GoroutineOK(g) ==
    /\ g \in [do: Kinds, round: 0..(MaxRound + 1), at: {"new", "checked", "call", "entered"},
              data: Int, tries: 0..2]
    /\ Calling(g) <=> g.do \in Messages
    /\ g.do # "TrainLoop" => g.round \in Rounds
    /\ g.do \in {"PartBytes", "EncGradCost", "GradAndCost"} => g.data \in Rounds
    /\ g.do = "Status" => g.data \in {1, 2}
    /\ g.data \in Rounds \cup {None, 1, 2}

Processes ==
    [round: Rounds, thetas: Nat \cup {None}, rawPart: BOOLEAN, part: Rounds \cup {None},
     nextPart: Rounds \cup {None}, noise: BOOLEAN, encFrom: Rounds \cup {None},
     dec: BOOLEAN, gradFrom: Rounds \cup {None}, stopped: 0..2, otherStopped: 0..2,
     pub: BOOLEAN]

IsBag(b) == \A g \in BagToSet(b) : b[g] \in Nat \ {0}

\* The goroutines of p, and its calls that timed out.
Pool(p) == BagToSet(go[p]) \cup late[p]

GoInv ==
    /\ DOMAIN go = Parties /\ DOMAIN late = Parties
    /\ \A p \in Parties :
          /\ IsBag(go[p])
          /\ \A g \in late[p] : g.do \in Messages
          /\ \A g \in Pool(p) : GoroutineOK(g)

TypeInv ==
    /\ exists \in [Parties -> {"no", "yes", "deleted"}]
    /\ status \in [Parties -> {StartPSI, EndPSI, StartTrain, EndTrain}]
    /\ loopRound \in [Parties -> Rounds]
    /\ locked \in [Parties -> BOOLEAN]
    /\ psi \in [Parties -> [mine: BOOLEAN, others: BOOLEAN]]
    /\ proc \in [Parties -> Processes]
    /\ GoInv

\* Some goroutine of p does what K names.
Doing(p, K) == \E g \in BagToSet(go[p]) : g.do \in K

\* At most one goroutine of the bag b does what K names.
SoloBag(b, K) ==
    \A g, h \in BagToSet(b) : g.do \in K /\ h.do \in K => g = h /\ b[g] = 1

Solo(p, K) == SoloBag(go[p], K)

(***************************************************************************)
(* How the training is started: PSI, key, round 0.                         *)
(***************************************************************************)
Asking == {"PsiEnc", "ReEnc"}

StartInv(p) ==
    /\ loopRound[p] = proc[p].round
    /\ exists[p] = "no" => BagToSet(go[p]) = {} /\ ~ psi[p].mine
    /\ Solo(p, Asking)
    /\ psi[p].mine => ~ Doing(p, Asking)
    /\ psi[Other(p)].others = psi[p].mine
    /\ \A g \in late[p] : g.do # "ReEnc"
    /\ Solo(p, {"HomoPubkey"})
    /\ Doing(p, {"HomoPubkey"}) => locked[p]
    /\ Doing(p, {"TrainHup"}) => psi[p].mine /\ psi[p].others
    /\ proc[p].thetas # None => proc[p].thetas = proc[p].round /\ psi[p].mine /\ psi[p].others
    /\ proc[p].thetas = None =>
          /\ proc[p].round = 0
          /\ ~ proc[p].rawPart
          /\ ~ Doing(p, {"HomoPubkey", "TrainLoop", "CalLocalGradCost"})
    /\ proc[p].round > 0 =>
          /\ ~ Doing(p, {"Intersect", "TrainHup", "HomoPubkey"})
          /\ \A g \in BagToSet(go[p]) : g.do = "TrainLoop" => g.round > 0

(***************************************************************************)
(* Without the other party's public key, p has nothing to encrypt with it. *)
(***************************************************************************)
NeedsOwnKey == {"GradAndCost", "DecLocalGradCost"}
NeedsPeerKey == {"TrainLoop", "CalLocalGradCost", "PartBytes", "EncGradCost", "UpdCostGrad"}

KeyInv(p) == LET q == Other(p) IN
    ~ proc[p].pub =>
        /\ proc[p].part = None /\ proc[p].nextPart = None
        /\ ~ proc[q].rawPart /\ proc[q].stopped = 0
        /\ \A g \in Pool(p) : g.do \notin NeedsOwnKey
        /\ \A g \in Pool(q) : g.do \notin NeedsPeerKey

(***************************************************************************)
(* How far apart the parties are, and what is on its way between them.     *)
(***************************************************************************)
\* What is said of a goroutine or call g of a party with process pr, whose peer
\* has process qr.
Fits(pr, qr, g) ==
    /\ g.do # "TrainLoop" => g.round <= pr.round
    /\ g.do = "TrainLoop" =>
          g.round <= pr.round \/ (g.round = pr.round + 1 /\ decided(pr) /\ ~ stop(pr))
    /\ g.do = "EncGradCost" /\ g.round = pr.round => pr.noise
    /\ g.do = "GradAndCost" => g.round <= qr.round /\ (g.round = qr.round => qr.noise)
    /\ g.do = "UpdCostGrad" =>
          g.round = pr.round /\ pr.stopped = 0 /\ pr.gradFrom # None /\ pr.noise
    /\ g.do = "Status" /\ g.round = pr.round => g.data = pr.stopped
    /\ g.do = "Status" /\ g.round = qr.round /\ pr.round = qr.round + 1 /\ qr.stopped = 1 =>
          g.data # 1
    /\ g.do = "TrainModels" => stop(pr)

\* How far the processes pr and qr of a party and its peer are apart.
Apart(pr, qr) ==
    /\ pr.noise => pr.rawPart
    /\ pr.encFrom # None => pr.round <= qr.round /\ (pr.round = qr.round => qr.noise)
    /\ pr.stopped # 0 => pr.gradFrom # None /\ pr.noise
    /\ pr.stopped = 1 => pr.round > 0
    /\ pr.otherStopped # 0 =>
          pr.round <= qr.round /\ (pr.round = qr.round => pr.otherStopped = qr.stopped)
    /\ qr.round <= pr.round + 1
    /\ qr.round = pr.round + 1 => pr.stopped # 0 /\ ~ stop(pr)

Upd == {"UpdCostGrad"}

RoundInv(p) ==
    /\ Solo(p, Upd)
    /\ \A g \in Pool(p) : Fits(proc[p], proc[Other(p)], g)
    /\ Apart(proc[p], proc[Other(p)])

\* What a learner has handed over.
ModelInv(p) ==
    models[p] # <<>> =>
        /\ status[p] = EndTrain
        /\ stop(proc[p])
        /\ Len(models[p]) = 1 /\ models[p][1].round = proc[p].round

\* Nothing of another round is used, or on its way.
FaultKinds == {"suspended", "error", "no learner", "delay", "overtaken"}

Suspended == Happened("suspended")
Overtook == Happened("overtaken")

Current(g) ==
    /\ g.at # "checked"
    /\ g.do \in {"PartBytes", "EncGradCost", "GradAndCost"} => g.data = g.round

Coherent(pr) ==
    /\ {pr.part, pr.encFrom, pr.gradFrom} \subseteq {None, pr.round}
    /\ pr.nextPart \in {None, pr.round + 1}

DataInv(p) == Coherent(proc[p]) /\ \A g \in Pool(p) : Current(g)

\* What is so until a learner overtakes the handler of a message.
RoundsInv ==
    /\ ~ panicked
    /\ models \in [Parties -> Seq([round: Rounds, thetas: Int])]
    /\ \A p \in Parties :
          /\ StartInv(p)
          /\ KeyInv(p)
          /\ RoundInv(p)
          /\ ModelInv(p)
          /\ ~ Suspended => DataInv(p)

Inv ==
    /\ TypeInv
    /\ faults \in Seq(FaultKinds)
    /\ ~ Overtook => RoundsInv

-----------------------------------------------------------------------------
(***************************************************************************)
(* Bags of goroutines.                                                     *)
(***************************************************************************)
Replace(b, g, gs) == (b (-) SetToBag({g})) (+) SetToBag(gs)
Plus(b, gs) == b (+) SetToBag(gs)
Enter(b, g, r) ==
    LET rest == b (-) SetToBag({g})
        kept == {h \in BagToSet(rest) : ~ Outdated(h, r)}
    IN  [h \in kept |-> rest[h]] (+) SetToBag({Local("CalLocalGradCost", 0)})

\* Bag c holds nothing but goroutines of b, and some of gs.
Within(c, b, gs) ==
    /\ IsBag(c)
    /\ \A h \in BagToSet(c) : h \in gs \/ (h \in BagToSet(b) /\ c[h] <= b[h])

\* Each of two parties is the other one's other one.
LEMMA OtherParty ==
    ASSUME NEW p \in Parties
    PROVE  /\ Other(p) \in Parties /\ Other(p) # p
           /\ Other(Other(p)) = p
           /\ \A r \in Parties : r = p \/ r = Other(p)
<1>1. IsFiniteSet(Parties \ {p}) /\ Cardinality(Parties \ {p}) = 1
  BY PartiesAssumption, FS_RemoveElement
<1>2. PICK q \in Parties \ {p} : TRUE
  BY <1>1, FS_EmptySet
<1>3. IsFiniteSet((Parties \ {p}) \ {q}) /\ Cardinality((Parties \ {p}) \ {q}) = 0
  BY <1>1, <1>2, FS_RemoveElement
<1>4. (Parties \ {p}) \ {q} = {}
  BY <1>3, FS_EmptySet
<1>5. Parties = {p, q} /\ p # q
  BY <1>2, <1>4
<1>6. Other(p) = q /\ Other(q) = p
  BY <1>5 DEF Other
<1> QED BY <1>5, <1>6

\* Taking one copy of g out of a bag.
LEMMA MinusOne ==
    ASSUME NEW b, IsBag(b), NEW g \in BagToSet(b)
    PROVE  LET c == b (-) SetToBag({g}) IN
           /\ BagToSet(c) \subseteq BagToSet(b)
           /\ IsBag(c)
           /\ \A h \in BagToSet(c) : c[h] = IF h = g THEN b[g] - 1 ELSE b[h]
           /\ b[g] = 1 => g \notin BagToSet(c)
<1> DEFINE d == [e \in DOMAIN b |-> IF e \in {g} THEN b[e] - 1 ELSE b[e]]
           c == b (-) SetToBag({g})
<1>1. \A e \in DOMAIN b : b[e] \in Nat \ {0}
  BY DEF IsBag, BagToSet
<1>2. c = [e \in {x \in DOMAIN d : d[x] > 0} |-> d[e]]
  <2>1. SetToBag({g}) = [e \in {g} |-> 1]
    BY DEF SetToBag
  <2>2. d = [e \in DOMAIN b |-> IF e \in DOMAIN SetToBag({g}) THEN b[e] - SetToBag({g})[e] ELSE b[e]]
    BY <2>1
  <2> QED BY <2>2 DEF (-)
<1>3. DOMAIN c = {x \in DOMAIN b : d[x] > 0}
  BY <1>2
<1>4. \A e \in DOMAIN c : c[e] = d[e] /\ d[e] \in Int /\ d[e] > 0
  BY <1>1, <1>2, <1>3
<1>5. \A e \in DOMAIN c : c[e] = IF e = g THEN b[g] - 1 ELSE b[e]
  BY <1>3, <1>4
<1>6. b[g] = 1 => g \notin DOMAIN c
  <2> SUFFICES ASSUME b[g] = 1, g \in DOMAIN c  PROVE FALSE
    OBVIOUS
  <2>1. d[g] = b[g] - 1
    BY DEF BagToSet
  <2> QED BY <2>1, <1>4
<1> HIDE DEF c, d
<1>7. IsBag(c)
  BY <1>4 DEF IsBag, BagToSet
<1>8. /\ BagToSet(c) \subseteq BagToSet(b)
      /\ IsBag(c)
      /\ \A h \in BagToSet(c) : c[h] = IF h = g THEN b[g] - 1 ELSE b[h]
      /\ b[g] = 1 => g \notin BagToSet(c)
  BY <1>3, <1>5, <1>6, <1>7 DEF BagToSet
<1> QED BY <1>8 DEF c

\* Adding one copy of each of gs.
LEMMA PlusSet ==
    ASSUME NEW b, IsBag(b), NEW gs
    PROVE  /\ BagToSet(Plus(b, gs)) = BagToSet(b) \cup gs
           /\ IsBag(Plus(b, gs))
           /\ \A h \in BagToSet(b) : h \notin gs => Plus(b, gs)[h] = b[h]
           /\ \A h \in gs : h \notin BagToSet(b) => Plus(b, gs)[h] = 1
<1> DEFINE c == Plus(b, gs)
<1>1. \A e \in DOMAIN b : b[e] \in Nat \ {0}
  BY DEF IsBag, BagToSet
<1>2. c = [e \in DOMAIN b \cup gs |-> (IF e \in DOMAIN b THEN b[e] ELSE 0) + (IF e \in gs THEN 1 ELSE 0)]
  BY DEF Plus, SetToBag, (+)
<1>3. DOMAIN c = DOMAIN b \cup gs
  BY <1>2
<1>4. \A e \in DOMAIN c : c[e] = (IF e \in DOMAIN b THEN b[e] ELSE 0) + (IF e \in gs THEN 1 ELSE 0)
  BY <1>2, <1>3
<1> HIDE DEF c
<1>5. \A e \in DOMAIN c : c[e] \in Nat \ {0}
  BY <1>1, <1>3, <1>4
<1> QED BY <1>1, <1>3, <1>4, <1>5 DEF IsBag, BagToSet, c

\* What replaces g in a bag.
LEMMA ReplaceWithin ==
    ASSUME NEW b, IsBag(b), NEW g \in BagToSet(b), NEW gs
    PROVE  /\ Within(Replace(b, g, gs), b, gs)
           /\ b[g] = 1 /\ g \notin gs => g \notin BagToSet(Replace(b, g, gs))
           /\ \A h \in gs : (h \notin BagToSet(b) \/ (h = g /\ b[g] = 1)) => Replace(b, g, gs)[h] = 1
<1> DEFINE c == b (-) SetToBag({g})
<1>1. /\ BagToSet(c) \subseteq BagToSet(b)
      /\ IsBag(c)
      /\ \A h \in BagToSet(c) : c[h] = IF h = g THEN b[g] - 1 ELSE b[h]
      /\ b[g] = 1 => g \notin BagToSet(c)
  BY MinusOne
<1>2. Replace(b, g, gs) = Plus(c, gs)
  BY DEF Replace, Plus
<1> HIDE DEF c
<1>3. /\ BagToSet(Plus(c, gs)) = BagToSet(c) \cup gs
      /\ IsBag(Plus(c, gs))
      /\ \A h \in BagToSet(c) : h \notin gs => Plus(c, gs)[h] = c[h]
      /\ \A h \in gs : h \notin BagToSet(c) => Plus(c, gs)[h] = 1
  BY <1>1, PlusSet
<1>4. \A h \in BagToSet(c) : c[h] <= b[h]
  <2> TAKE h \in BagToSet(c)
  <2>1. b[h] \in Nat
    BY <1>1 DEF IsBag
  <2> QED BY <2>1, <1>1
<1>5. Within(Plus(c, gs), b, gs)
  BY <1>1, <1>3, <1>4 DEF Within
<1> QED BY <1>1, <1>2, <1>3, <1>5

LEMMA PlusWithin ==
    ASSUME NEW b, IsBag(b), NEW gs
    PROVE  Within(Plus(b, gs), b, gs)
<1>1. \A h \in BagToSet(b) : b[h] <= b[h]
  BY DEF IsBag
<1> QED BY <1>1, PlusSet DEF Within

LEMMA EnterWithin ==
    ASSUME NEW b, IsBag(b), NEW g \in BagToSet(b), NEW r
    PROVE  Within(Enter(b, g, r), b, {Local("CalLocalGradCost", 0)})
<1> DEFINE rest == b (-) SetToBag({g})
           kept == {h \in BagToSet(rest) : ~ Outdated(h, r)}
           c == [h \in kept |-> rest[h]]
           gs == {Local("CalLocalGradCost", 0)}
<1>1. Enter(b, g, r) = Plus(c, gs)
  BY DEF Enter, Plus
<1>2. /\ BagToSet(rest) \subseteq BagToSet(b)
      /\ IsBag(rest)
      /\ \A h \in BagToSet(rest) : rest[h] = IF h = g THEN b[g] - 1 ELSE b[h]
  BY MinusOne
<1>3. DOMAIN c = kept /\ kept \subseteq BagToSet(rest) /\ \A h \in kept : c[h] = rest[h]
  OBVIOUS
<1> HIDE DEF c, kept, rest, gs
<1>4. IsBag(c)
  BY <1>2, <1>3 DEF IsBag, BagToSet
<1>5. \A h \in BagToSet(c) : h \in BagToSet(b) /\ c[h] <= b[h]
  <2> TAKE h \in BagToSet(c)
  <2>1. h \in BagToSet(rest) /\ h \in BagToSet(b) /\ c[h] = rest[h]
    BY <1>2, <1>3 DEF BagToSet
  <2>2. b[h] \in Nat
    BY <2>1 DEF IsBag
  <2> QED BY <1>2, <2>1, <2>2
<1>6. Within(Plus(c, gs), b, gs)
  BY <1>4, <1>5, PlusSet DEF Within
<1> QED BY <1>1, <1>6 DEF gs

\* One goroutine at most does what K names: none is added,
LEMMA SoloKept ==
    ASSUME NEW b, IsBag(b), NEW c, NEW gs, NEW K, SoloBag(b, K), Within(c, b, gs),
           \A h \in gs : h.do \notin K
    PROVE  SoloBag(c, K)
<1> SUFFICES ASSUME NEW g \in BagToSet(c), NEW h \in BagToSet(c), g.do \in K, h.do \in K
             PROVE  g = h /\ c[g] = 1
  BY DEF SoloBag
<1>1. g \in BagToSet(b) /\ h \in BagToSet(b) /\ c[g] <= b[g]
  BY DEF Within
<1>2. g = h /\ b[g] = 1
  BY <1>1 DEF SoloBag
<1>3. c[g] \in Nat \ {0}
  BY DEF Within, IsBag
<1> QED BY <1>1, <1>2, <1>3

\* or one replaces the one that there was, or none;
LEMMA SoloReplaced ==
    ASSUME NEW b, IsBag(b), NEW g \in BagToSet(b), NEW x, NEW K, SoloBag(b, K),
           g.do \in K \/ \A h \in BagToSet(b) : h.do \notin K
    PROVE  SoloBag(Replace(b, g, {x}), K)
<1> DEFINE c == Replace(b, g, {x})
<1>1. /\ Within(c, b, {x})
      /\ b[g] = 1 /\ g \notin {x} => g \notin BagToSet(c)
      /\ \A h \in {x} : (h \notin BagToSet(b) \/ (h = g /\ b[g] = 1)) => c[h] = 1
  BY ReplaceWithin
<1> HIDE DEF c
<1>2. SUFFICES ASSUME NEW h \in BagToSet(c), NEW i \in BagToSet(c), h.do \in K, i.do \in K
               PROVE  h = i /\ c[h] = 1
  BY DEF SoloBag, c
<1>3. \A j \in BagToSet(c) : j.do \in K => j = x
  <2> SUFFICES ASSUME NEW j \in BagToSet(c), j.do \in K, j # x  PROVE FALSE
    OBVIOUS
  <2>1. j \in BagToSet(b)
    BY <1>1 DEF Within
  <2>2. g.do \in K /\ j = g /\ b[g] = 1
    BY <2>1 DEF SoloBag
  <2> QED BY <1>1, <2>2
<1>4. x \in BagToSet(b) => x = g /\ b[g] = 1
  BY <1>2, <1>3 DEF SoloBag
<1> QED BY <1>1, <1>2, <1>3, <1>4

LEMMA SoloAdded ==
    ASSUME NEW b, IsBag(b), NEW x, NEW K, \A h \in BagToSet(b) : h.do \notin K
    PROVE  SoloBag(Plus(b, {x}), K)
<1> DEFINE c == Plus(b, {x})
<1>1. /\ BagToSet(c) = BagToSet(b) \cup {x}
      /\ \A h \in {x} : h \notin BagToSet(b) => c[h] = 1
  BY PlusSet
<1> QED BY <1>1 DEF SoloBag

\* and when it ends, none is left.
LEMMA SoloEnds ==
    ASSUME NEW b, IsBag(b), NEW g \in BagToSet(b), NEW gs, NEW K, SoloBag(b, K), g.do \in K,
           \A h \in gs : h.do \notin K
    PROVE  \A h \in BagToSet(Replace(b, g, gs)) : h.do \notin K
<1> DEFINE c == Replace(b, g, gs)
<1>1. /\ Within(c, b, gs)
      /\ b[g] = 1 /\ g \notin gs => g \notin BagToSet(c)
  BY ReplaceWithin
<1>2. b[g] = 1
  BY DEF SoloBag
<1> QED BY <1>1, <1>2 DEF Within, SoloBag

-----------------------------------------------------------------------------
(***************************************************************************)
(* Goroutines of the right form.                                           *)
(***************************************************************************)
LEMMA LocalOK ==
    ASSUME NEW d \in RoundChecked \cup Unchecked, NEW r \in 0..(MaxRound + 1),
           d # "TrainLoop" => r \in Rounds
    PROVE  GoroutineOK(Local(d, r)) /\ Local(d, r).do = d /\ Local(d, r).round = r
             /\ Local(d, r).at = "new"
BY DEF GoroutineOK, Calling, Local, Kinds, Messages, RoundChecked, Unchecked, None

LEMMA CallOK ==
    ASSUME NEW d \in Messages, NEW r \in Rounds, NEW x \in Rounds \cup {1, 2},
           d \in {"PartBytes", "EncGradCost", "GradAndCost"} => x \in Rounds,
           d = "Status" => x \in {1, 2}
    PROVE  GoroutineOK(Call(d, r, x)) /\ Call(d, r, x).do = d /\ Call(d, r, x).round = r
             /\ Call(d, r, x).data = x /\ Call(d, r, x).at = "call"
BY BoundAssumption DEF GoroutineOK, Calling, Call, Kinds, Messages, Rounds

\* A call that is tried again, one whose handler is suspended, and a goroutine
\* that is suspended.
Again(g) == [g EXCEPT !.tries = @ + 1, !.at = "call"]
Held(g) == [g EXCEPT !.at = "entered"]
Late(g, r) == [g EXCEPT !.round = r, !.at = "checked"]

LEMMA AgainOK ==
    ASSUME NEW g, GoroutineOK(g), g.do \in Messages, g.tries < 2
    PROVE  /\ GoroutineOK(Again(g))
           /\ Again(g).do = g.do /\ Again(g).round = g.round /\ Again(g).data = g.data
           /\ Again(g).at = "call"
<1>1. g \in [do: Kinds, round: 0..(MaxRound + 1), at: {"new", "checked", "call", "entered"},
              data: Int, tries: 0..2]
  BY DEF GoroutineOK
<1>2. /\ Again(g) \in [do: Kinds, round: 0..(MaxRound + 1), at: {"new", "checked", "call", "entered"},
                        data: Int, tries: 0..2]
      /\ Again(g).do = g.do /\ Again(g).round = g.round /\ Again(g).data = g.data
      /\ Again(g).at = "call"
  <2>1. g.tries + 1 \in 0..2
    BY <1>1
  <2> QED BY <1>1, <2>1 DEF Again
<1> QED BY <1>2 DEF GoroutineOK, Calling

LEMMA HeldOK ==
    ASSUME NEW g, GoroutineOK(g), g.do \in Messages
    PROVE  /\ GoroutineOK(Held(g))
           /\ Held(g).do = g.do /\ Held(g).round = g.round /\ Held(g).data = g.data
           /\ Held(g).at = "entered"
<1>1. g \in [do: Kinds, round: 0..(MaxRound + 1), at: {"new", "checked", "call", "entered"},
              data: Int, tries: 0..2]
  BY DEF GoroutineOK
<1>2. /\ Held(g) \in [do: Kinds, round: 0..(MaxRound + 1), at: {"new", "checked", "call", "entered"},
                        data: Int, tries: 0..2]
      /\ Held(g).do = g.do /\ Held(g).round = g.round /\ Held(g).data = g.data
      /\ Held(g).at = "entered"
  BY <1>1 DEF Held
<1> QED BY <1>2 DEF GoroutineOK, Calling

LEMMA LateOK ==
    ASSUME NEW g, GoroutineOK(g), g.do \in RoundChecked, NEW r \in Rounds
    PROVE  /\ GoroutineOK(Late(g, r))
           /\ Late(g, r).do = g.do /\ Late(g, r).round = r
<1>1. Rounds \subseteq 0..(MaxRound + 1)
  BY BoundAssumption DEF Rounds
<1>2. g \in [do: Kinds, round: 0..(MaxRound + 1), at: {"new", "checked", "call", "entered"},
              data: Int, tries: 0..2]
  BY DEF GoroutineOK
<1>3. /\ Late(g, r) \in [do: Kinds, round: 0..(MaxRound + 1), at: {"new", "checked", "call", "entered"},
                         data: Int, tries: 0..2]
      /\ Late(g, r).do = g.do /\ Late(g, r).round = r /\ Late(g, r).at = "checked"
      /\ Late(g, r).data = g.data
  BY <1>1, <1>2 DEF Late
<1>4. g.do \notin Messages
  BY DEF RoundChecked, Messages
<1> QED BY <1>3, <1>4 DEF GoroutineOK, Calling

\* What a message, or its answer, starts.
LEMMA StartedOK ==
    ASSUME TypeInv, NEW q \in Parties, NEW m, GoroutineOK(m), m.do \in Messages
    PROVE  /\ \A h \in Started(q, m) :
                /\ GoroutineOK(h) /\ h.at = "new"
                /\ \/ Overtaken(q, m)
                   \/ m.do = "ReEnc" /\ h = Local("Intersect", 0)
                   \/ m.round = loopRound[q] /\ h.round = m.round /\
                      \/ m.do = "PartBytes" /\ h.do = "CalEncGradCost"
                      \/ m.do = "EncGradCost" /\ h.do = "DecLocalGradCost" /\ proc[q].encFrom = None
                      \/ m.do = "GradAndCost" /\ h.do = "UpdCostGrad" /\ proc[q].gradFrom = None
                      \/ m.do = "Status" /\ h.do = "CheckStatus"
           /\ \A h \in Answered(m) :
                /\ GoroutineOK(h) /\ h.at = "new"
                /\ \/ m.do = "ReEnc" /\ h = Local("Intersect", 0)
                   \/ m.do = "HomoPubkey" /\ h = Local("TrainLoop", 0)
                   \/ m.do = "PartBytes" /\ h.do = "CalEncGradCost" /\ h.round = m.round
                   \/ m.do = "Status" /\ h.do = "CheckStatus" /\ h.round = m.round
<1>1. m.round \in Rounds /\ 0 \in Rounds /\ Rounds \subseteq 0..(MaxRound + 1)
  BY BoundAssumption DEF GoroutineOK, Messages, Rounds
<1>2. CASE m.do = "ReEnc"
  <2>1. Started(q, m) = {Local("Intersect", 0)} /\ Answered(m) = {Local("Intersect", 0)}
    BY <1>2 DEF Started, Answered
  <2> QED BY <1>1, <1>2, <2>1, LocalOK DEF Unchecked
<1>3. CASE m.do = "HomoPubkey"
  <2>1. Started(q, m) = {} /\ Answered(m) = {Local("TrainLoop", 0)}
    BY <1>3 DEF Started, Answered
  <2> QED BY <1>1, <1>3, <2>1, LocalOK DEF Unchecked
<1>4. CASE m.do = "PartBytes"
  <2>1. /\ Started(q, m) = IF m.round = loopRound[q] THEN {Local("CalEncGradCost", m.round)} ELSE {}
        /\ Answered(m) = {Local("CalEncGradCost", m.round)}
    BY <1>4 DEF Started, Answered
  <2>2. /\ GoroutineOK(Local("CalEncGradCost", m.round)) /\ Local("CalEncGradCost", m.round).do = "CalEncGradCost"
        /\ Local("CalEncGradCost", m.round).round = m.round /\ Local("CalEncGradCost", m.round).at = "new"
    BY <1>1, LocalOK DEF RoundChecked
  <2> QED BY <1>4, <2>1, <2>2
<1>5. CASE m.do = "EncGradCost"
  <2>1. /\ Started(q, m) = IF Accepts(q, m) /\ proc[q].encFrom = None
                           THEN {Local("DecLocalGradCost", m.round)} ELSE {}
        /\ Answered(m) = {}
    BY <1>5 DEF Started, Answered
  <2>2. /\ GoroutineOK(Local("DecLocalGradCost", m.round)) /\ Local("DecLocalGradCost", m.round).do = "DecLocalGradCost"
        /\ Local("DecLocalGradCost", m.round).round = m.round /\ Local("DecLocalGradCost", m.round).at = "new"
    BY <1>1, LocalOK DEF RoundChecked
  <2>3. Accepts(q, m) => m.round = loopRound[q] \/ Overtaken(q, m)
    BY <1>5 DEF Accepts, Overtaken
  <2> QED BY <1>5, <2>1, <2>2, <2>3
<1>6. CASE m.do = "GradAndCost"
  <2>1. /\ Started(q, m) = IF Accepts(q, m) /\ proc[q].gradFrom = None
                           THEN {Local("UpdCostGrad", m.round)} ELSE {}
        /\ Answered(m) = {}
    BY <1>6 DEF Started, Answered
  <2>2. /\ GoroutineOK(Local("UpdCostGrad", m.round)) /\ Local("UpdCostGrad", m.round).do = "UpdCostGrad"
        /\ Local("UpdCostGrad", m.round).round = m.round /\ Local("UpdCostGrad", m.round).at = "new"
    BY <1>1, LocalOK DEF RoundChecked
  <2>3. Accepts(q, m) => m.round = loopRound[q] \/ Overtaken(q, m)
    BY <1>6 DEF Accepts, Overtaken
  <2> QED BY <1>6, <2>1, <2>2, <2>3
<1>7. CASE m.do = "Status"
  <2>1. /\ Started(q, m) = IF Accepts(q, m) THEN {Local("CheckStatus", m.round)} ELSE {}
        /\ Answered(m) = {Local("CheckStatus", m.round)}
    BY <1>7 DEF Started, Answered
  <2>2. /\ GoroutineOK(Local("CheckStatus", m.round)) /\ Local("CheckStatus", m.round).do = "CheckStatus"
        /\ Local("CheckStatus", m.round).round = m.round /\ Local("CheckStatus", m.round).at = "new"
    BY <1>1, LocalOK DEF Unchecked
  <2>3. Accepts(q, m) => m.round = loopRound[q] \/ Overtaken(q, m)
    BY <1>7 DEF Accepts, Overtaken
  <2> QED BY <1>7, <2>1, <2>2, <2>3
<1> QED BY <1>2, <1>3, <1>4, <1>5, <1>6, <1>7 DEF Messages

\* Message m, if it is of a round that its handler compared, is still of it.
InTime(q, m) == loopRound[q] = proc[q].round /\ ~ Overtaken(q, m)
OnTime(q, m) == InTime(q, m) /\ ~ PartRefused(q, m)

LEMMA OnTimeAccepts ==
    ASSUME NEW q, NEW m, OnTime(q, m)
    PROVE  /\ m.do \in {"EncGradCost", "GradAndCost", "Status"} => (Accepts(q, m) <=> m.round = loopRound[q])
           /\ m.do = "PartBytes" => (Accepts(q, m) <=> m.round \in {loopRound[q], loopRound[q] + 1})
BY DEF OnTime, InTime, Overtaken, PartRefused, Accepts

\* What a message leaves in the process of q, kind by kind.
LEMMA ReceivedIs ==
    ASSUME TypeInv, NEW q \in Parties, NEW m, GoroutineOK(m), m.do \in Messages, OnTime(q, m)
    PROVE  /\ m.do = "ReEnc" => Received(q, m) = proc[q]
           /\ m.do = "HomoPubkey" => Received(q, m) = [proc[q] EXCEPT !.pub = TRUE]
           /\ m.do = "PartBytes" => Received(q, m) =
                IF m.round \in {loopRound[q], loopRound[q] + 1} THEN SetPart(proc[q], m) ELSE proc[q]
           /\ m.do = "EncGradCost" => Received(q, m) =
                IF m.round = loopRound[q] /\ proc[q].encFrom = None
                THEN [proc[q] EXCEPT !.encFrom = m.data] ELSE proc[q]
           /\ m.do = "GradAndCost" => Received(q, m) =
                IF m.round = loopRound[q] /\ proc[q].gradFrom = None
                THEN [proc[q] EXCEPT !.gradFrom = m.data] ELSE proc[q]
           /\ m.do = "Status" => Received(q, m) =
                IF m.round = loopRound[q] /\ proc[q].otherStopped = 0
                THEN [proc[q] EXCEPT !.otherStopped = m.data] ELSE proc[q]
<1>1. CASE m.do = "ReEnc"
  BY <1>1 DEF Received
<1>2. CASE m.do = "HomoPubkey"
  BY <1>2 DEF Received
<1>3. CASE m.do = "PartBytes"
  BY <1>3, OnTimeAccepts DEF Received
<1>4. CASE m.do = "EncGradCost"
  BY <1>4, OnTimeAccepts DEF Received
<1>5. CASE m.do = "GradAndCost"
  BY <1>5, OnTimeAccepts DEF Received
<1>6. CASE m.do = "Status"
  BY <1>6, OnTimeAccepts DEF Received
<1> QED BY <1>1, <1>2, <1>3, <1>4, <1>5, <1>6 DEF Messages

\* It is a process, of the same round and parameters, in any case.
LEMMA ReceivedOK ==
    ASSUME TypeInv, NEW q \in Parties, NEW m, GoroutineOK(m), m.do \in Messages
    PROVE  /\ Received(q, m) \in Processes
           /\ Received(q, m).round = proc[q].round /\ Received(q, m).thetas = proc[q].thetas
           /\ Received(q, m).rawPart = proc[q].rawPart
<1>0. proc[q] \in Processes
  BY DEF TypeInv
<1>1. CASE Received(q, m) = proc[q]
  BY <1>0, <1>1
<1>2. CASE m.do = "HomoPubkey"
  <2>1. Received(q, m) = [proc[q] EXCEPT !.pub = TRUE]
    BY <1>2 DEF Received
  <2> QED BY <1>0, <2>1 DEF Processes
<1>3. CASE m.do = "PartBytes"
  <2>1. Received(q, m) = SetPart(proc[q], m) \/ Received(q, m) = proc[q]
    BY <1>3 DEF Received
  <2> QED BY <1>0, <1>1, <1>3, <2>1 DEF Processes, SetPart, GoroutineOK
<1>4. CASE m.do = "EncGradCost"
  <2>1. Received(q, m) = [proc[q] EXCEPT !.encFrom = m.data] \/ Received(q, m) = proc[q]
    BY <1>4 DEF Received
  <2> QED BY <1>0, <1>1, <1>4, <2>1 DEF Processes, GoroutineOK
<1>5. CASE m.do = "GradAndCost"
  <2>1. Received(q, m) = [proc[q] EXCEPT !.gradFrom = m.data] \/ Received(q, m) = proc[q]
    BY <1>5 DEF Received
  <2> QED BY <1>0, <1>1, <1>5, <2>1 DEF Processes, GoroutineOK
<1>6. CASE m.do = "Status"
  <2>1. Received(q, m) = [proc[q] EXCEPT !.otherStopped = m.data] \/ Received(q, m) = proc[q]
    BY <1>6 DEF Received
  <2>2. m.data \in 0..2
    BY <1>6 DEF GoroutineOK
  <2> QED BY <1>0, <1>1, <2>1, <2>2 DEF Processes
<1>7. CASE m.do = "ReEnc"
  BY <1>1, <1>7 DEF Received
<1> QED BY <1>2, <1>3, <1>4, <1>5, <1>6, <1>7 DEF Messages

-----------------------------------------------------------------------------
(***************************************************************************)
(* What the steps do to the bags.                                          *)
(***************************************************************************)

\* Every new goroutine, or call that timed out, is well formed.
LEMMA GoKept ==
    ASSUME GoInv, DOMAIN go' = Parties, DOMAIN late' = Parties,
           \A r \in Parties : IsBag(go'[r]),
           \A r \in Parties : \A h \in BagToSet(go'[r]) : h \in BagToSet(go[r]) \/ GoroutineOK(h),
           \A r \in Parties : \A h \in late'[r] :
                \/ h \in late[r]
                \/ h.do \in Messages /\ (h \in BagToSet(go[r]) \/ GoroutineOK(h))
    PROVE  GoInv'
<1>1. \A r \in Parties : \A h \in late'[r] : h.do \in Messages /\ GoroutineOK(h)
  BY DEF GoInv, Pool
<1>2. \A r \in Parties : \A h \in BagToSet(go'[r]) : GoroutineOK(h)
  BY DEF GoInv, Pool
<1> QED BY <1>1, <1>2 DEF GoInv, Pool

\* A step that replaces g by gs.
LEMMA BecomesGo ==
    ASSUME TypeInv, NEW p \in Parties, NEW g \in BagToSet(go[p]), NEW gs,
           Becomes(p, g, gs)
    PROVE  /\ DOMAIN go' = Parties
           /\ go'[p] = Replace(go[p], g, gs)
           /\ Within(go'[p], go[p], gs)
           /\ \A r \in Parties : r # p => go'[r] = go[r]
           /\ \A r \in Parties : IsBag(go'[r])
           /\ BagToSet(go'[p]) \subseteq BagToSet(go[p]) \cup gs
<1>1. DOMAIN go = Parties /\ \A r \in Parties : IsBag(go[r])
  BY DEF TypeInv, GoInv
<1>2. go'[p] = Replace(go[p], g, gs) /\ DOMAIN go' = Parties
       /\ \A r \in Parties : r # p => go'[r] = go[r]
  BY <1>1 DEF Becomes, Replace
<1>3. Within(go'[p], go[p], gs)
  BY <1>1, <1>2, ReplaceWithin
<1> QED BY <1>1, <1>2, <1>3 DEF Within

\* A failed call is tried again, or not.
Tries(g) == IF g.tries < 2 THEN {Again(g)} ELSE {}

LEMMA RetriedBecomes ==
    ASSUME NEW p, NEW g, go' = [go EXCEPT ![p] = Retried(p, g)]
    PROVE  Becomes(p, g, Tries(g))
<1>1. CASE g.tries < 2
  BY <1>1 DEF Retried, Becomes, Tries, Again
<1>2. CASE ~ (g.tries < 2)
  BY <1>2 DEF Retried, Becomes, Tries, EmptyBag
<1> QED BY <1>1, <1>2

LEMMA TriesOK ==
    ASSUME NEW g, GoroutineOK(g), g.do \in Messages
    PROVE  \A h \in Tries(g) : /\ GoroutineOK(h) /\ h.do = g.do /\ h.round = g.round
                              /\ h.data = g.data /\ h.at = "call"
BY AgainOK DEF Tries

-----------------------------------------------------------------------------
(***************************************************************************)
(* The types are preserved.                                                *)
(***************************************************************************)
LEMMA TypeInit == Init => TypeInv
<1> SUFFICES ASSUME Init PROVE TypeInv
  OBVIOUS
<1>1. NewProcess \in Processes
  BY BoundAssumption DEF NewProcess, Processes, Rounds, None
<1>2. proc \in [Parties -> Processes] /\ loopRound \in [Parties -> Rounds]
  BY <1>1, BoundAssumption DEF Init, Rounds
<1>3. BagToSet(EmptyBag) = {}
  BY DEF BagToSet, EmptyBag, SetToBag
<1>4. GoInv
  BY <1>3 DEF Init, GoInv, Pool, IsBag
<1> QED BY <1>2, <1>4 DEF TypeInv, Init

LEMMA TypeFacts ==
    ASSUME TypeInv, NEW p \in Parties
    PROVE  /\ proc[p] \in Processes /\ proc[p].round \in Rounds /\ proc[p].round \in Nat
           /\ loopRound[p] \in Rounds /\ loopRound[p] \in Nat
           /\ 0 \in Rounds /\ Rounds \subseteq 0..(MaxRound + 1) /\ Rounds \subseteq Nat
           /\ IsBag(go[p])
           /\ \A g \in Pool(p) :
                /\ GoroutineOK(g) /\ g.round \in Nat /\ g.round \in 0..(MaxRound + 1)
                /\ (g.do # "TrainLoop" => g.round \in Rounds)
                /\ (Calling(g) <=> g.do \in Messages)
           /\ BagToSet(go[p]) \subseteq Pool(p) /\ late[p] \subseteq Pool(p)
<1>1. 0 \in Rounds /\ Rounds \subseteq 0..(MaxRound + 1) /\ Rounds \subseteq Nat
  BY BoundAssumption DEF Rounds
<1>2. IsBag(go[p]) /\ \A g \in Pool(p) : GoroutineOK(g)
  BY DEF TypeInv, GoInv
<1>3. proc[p] \in Processes /\ proc[p].round \in Rounds /\ loopRound[p] \in Rounds
  BY DEF TypeInv, Processes
<1>4. \A g \in Pool(p) :
      /\ g.round \in 0..(MaxRound + 1) /\ (g.do # "TrainLoop" => g.round \in Rounds)
      /\ (Calling(g) <=> g.do \in Messages)
  BY <1>2 DEF GoroutineOK
<1>5. 0..(MaxRound + 1) \subseteq Nat
  BY BoundAssumption
<1>6. BagToSet(go[p]) \subseteq Pool(p) /\ late[p] \subseteq Pool(p)
  BY DEF Pool
<1> QED BY <1>1, <1>2, <1>3, <1>4, <1>5, <1>6

\* A step that replaces g by well-formed goroutines keeps the bags well formed.
LEMMA GoReplaced ==
    ASSUME TypeInv, NEW p \in Parties, NEW g \in BagToSet(go[p]), NEW gs,
           Becomes(p, g, gs),
           \A h \in gs : GoroutineOK(h),
           DOMAIN late' = Parties,
           \A r \in Parties : \A h \in late'[r] :
                h \in late[r] \/ (h \in BagToSet(go[r]) /\ h.do \in Messages)
    PROVE  GoInv'
<1>1. /\ DOMAIN go' = Parties
      /\ \A r \in Parties : r # p => go'[r] = go[r]
      /\ \A r \in Parties : IsBag(go'[r])
      /\ BagToSet(go'[p]) \subseteq BagToSet(go[p]) \cup gs
  BY BecomesGo
<1>2. \A r \in Parties : \A h \in BagToSet(go'[r]) : h \in BagToSet(go[r]) \/ GoroutineOK(h)
  BY <1>1
<1> QED BY <1>1, <1>2, GoKept DEF TypeInv

LEMMA GoBecomes ==
    ASSUME TypeInv, NEW p \in Parties, NEW g \in BagToSet(go[p]), NEW gs,
           Becomes(p, g, gs), \A h \in gs : GoroutineOK(h), late' = late
    PROVE  GoInv'
<1>1. DOMAIN late' = Parties /\ \A r \in Parties : \A h \in late'[r] : h \in late[r]
  BY DEF TypeInv, GoInv
<1> QED BY <1>1, GoReplaced

LEMMA NewLearnerType ==
    ASSUME TypeInv, NEW p \in Parties, NewLearner(p)
    PROVE  TypeInv'
<1> DEFINE x == Local("PsiEnc", 0)
<1>1. GoroutineOK(x)
  BY LocalOK, TypeFacts DEF Unchecked
<1>2. /\ BagToSet(SetToBag({x})) = {x}
      /\ IsBag(SetToBag({x}))
  BY DEF BagToSet, SetToBag, IsBag
<1>3. go' = [go EXCEPT ![p] = SetToBag({x})] /\ late' = late
  BY DEF NewLearner
<1> HIDE DEF x
<1>4. /\ DOMAIN go' = Parties /\ DOMAIN late' = Parties
      /\ go'[p] = SetToBag({x}) /\ \A r \in Parties : r # p => go'[r] = go[r]
      /\ \A r \in Parties : IsBag(go[r])
  BY <1>3 DEF TypeInv, GoInv
<1>5. GoInv'
  <2>1. \A r \in Parties : IsBag(go'[r])
    BY <1>2, <1>4
  <2>2. \A r \in Parties : \A h \in BagToSet(go'[r]) : h \in BagToSet(go[r]) \/ GoroutineOK(h)
    BY <1>1, <1>2, <1>4
  <2> QED BY <1>3, <1>4, <2>1, <2>2, GoKept DEF TypeInv
<1> QED BY <1>5 DEF TypeInv, NewLearner

LEMMA PsiType ==
    ASSUME TypeInv, NEW p \in Parties, NEW g \in BagToSet(go[p]),
           PsiEnc(p, g) \/ PsiIntersect(p, g) \/ TrainHup(p, g)
    PROVE  TypeInv'
<1>1. CASE PsiEnc(p, g)
  <2>1. GoroutineOK(Call("ReEnc", loopRound[p], 0))
    BY CallOK, TypeFacts DEF Messages
  <2>2. GoInv'
    BY <1>1, <2>1, GoBecomes DEF PsiEnc
  <2> QED BY <1>1, <2>2 DEF TypeInv, PsiEnc
<1>2. CASE PsiIntersect(p, g)
  <2>1. GoroutineOK(Local("TrainHup", 0))
    BY LocalOK, TypeFacts DEF Unchecked
  <2>2. GoInv'
    <3>1. CASE Becomes(p, g, {Local("TrainHup", 0)})
      BY <1>2, <2>1, <3>1, GoBecomes DEF PsiIntersect
    <3>2. CASE Becomes(p, g, {})
      BY <1>2, <3>2, GoBecomes DEF PsiIntersect
    <3> QED BY <1>2, <3>1, <3>2 DEF PsiIntersect
  <2> QED BY <1>2, <2>2 DEF TypeInv, PsiIntersect
<1>3. CASE TrainHup(p, g)
  <2>1. GoroutineOK(Call("HomoPubkey", loopRound[p], 0))
    BY CallOK, TypeFacts DEF Messages
  <2>2. GoInv'
    <3>1. CASE Becomes(p, g, {Call("HomoPubkey", loopRound[p], 0)})
      BY <1>3, <2>1, <3>1, GoBecomes DEF TrainHup
    <3>2. CASE Becomes(p, g, {})
      BY <1>3, <3>2, GoBecomes DEF TrainHup
    <3> QED BY <1>3, <3>1, <3>2 DEF TrainHup
  <2>3. [proc[p] EXCEPT !.thetas = 0] \in Processes
    BY TypeFacts DEF Processes
  <2>4. proc' \in [Parties -> Processes]
    BY <1>3, <2>3 DEF TrainHup, TypeInv
  <2> QED BY <1>3, <2>2, <2>4 DEF TypeInv, TrainHup
<1> QED BY <1>1, <1>2, <1>3

LEMMA upRoundOK ==
    ASSUME NEW pr \in Processes, pr.round + 1 \in Rounds
    PROVE  /\ upRound(pr) \in Processes
           /\ upRound(pr).round = pr.round + 1 /\ upRound(pr).thetas = pr.thetas + 1
           /\ upRound(pr).part = pr.nextPart /\ upRound(pr).pub = pr.pub
           /\ upRound(pr).rawPart = FALSE /\ upRound(pr).noise = FALSE
           /\ upRound(pr).nextPart = None /\ upRound(pr).encFrom = None
           /\ upRound(pr).gradFrom = None
           /\ upRound(pr).stopped = 0 /\ upRound(pr).otherStopped = 0
<1>1. NewProcess \in Processes
  BY BoundAssumption DEF NewProcess, Processes, Rounds, None
<1>2. /\ NewProcess.rawPart = FALSE /\ NewProcess.noise = FALSE
      /\ NewProcess.nextPart = None /\ NewProcess.encFrom = None
      /\ NewProcess.gradFrom = None
      /\ NewProcess.stopped = 0 /\ NewProcess.otherStopped = 0
  BY DEF NewProcess
<1>3. pr.nextPart \in Rounds \cup {None} /\ pr.thetas + 1 \in Nat /\ pr.pub \in BOOLEAN
  BY DEF Processes, None
<1> QED BY <1>1, <1>2, <1>3 DEF Processes, upRound

LEMMA EntersGo ==
    ASSUME TypeInv, NEW p \in Parties, NEW g \in BagToSet(go[p]), NEW r, EntersRound(p, g, r)
    PROVE  /\ DOMAIN go' = Parties
           /\ Within(go'[p], go[p], {Local("CalLocalGradCost", 0)})
           /\ \A s \in Parties : s # p => go'[s] = go[s]
           /\ \A s \in Parties : IsBag(go'[s])
           /\ BagToSet(go'[p]) \subseteq BagToSet(go[p]) \cup {Local("CalLocalGradCost", 0)}
<1>1. go' = [go EXCEPT ![p] = Enter(go[p], g, r)]
  BY DEF EntersRound, Enter
<1>2. DOMAIN go = Parties /\ \A s \in Parties : IsBag(go[s])
  BY DEF TypeInv, GoInv
<1>3. Within(Enter(go[p], g, r), go[p], {Local("CalLocalGradCost", 0)})
  BY <1>2, EnterWithin
<1>4. go'[p] = Enter(go[p], g, r) /\ DOMAIN go' = Parties
       /\ \A s \in Parties : s # p => go'[s] = go[s]
  BY <1>1, <1>2
<1> QED BY <1>2, <1>3, <1>4 DEF Within

LEMMA LoopType ==
    ASSUME TypeInv, NEW p \in Parties, NEW g \in BagToSet(go[p]), TrainLoop(p, g)
    PROVE  TypeInv'
<1>1. GoInv'
  <2>1. CASE Becomes(p, g, {})
    BY <2>1, GoBecomes DEF TrainLoop
  <2>2. CASE EntersRound(p, g, g.round)
    <3>1. GoroutineOK(Local("CalLocalGradCost", 0))
      BY LocalOK, TypeFacts DEF RoundChecked
    <3>2. late' = late /\ DOMAIN late = Parties
      BY DEF TrainLoop, TypeInv, GoInv
    <3>3. /\ DOMAIN go' = Parties
          /\ \A s \in Parties : s # p => go'[s] = go[s]
          /\ \A s \in Parties : IsBag(go'[s])
          /\ BagToSet(go'[p]) \subseteq BagToSet(go[p]) \cup {Local("CalLocalGradCost", 0)}
      BY <2>2, EntersGo
    <3>4. \A s \in Parties : \A h \in BagToSet(go'[s]) : h \in BagToSet(go[s]) \/ GoroutineOK(h)
      BY <3>1, <3>3
    <3> QED BY <3>2, <3>3, <3>4, GoKept DEF TypeInv
  <2> QED BY <2>1, <2>2 DEF TrainLoop, Fails
<1>2. g.round \in Rounds
  BY TypeFacts DEF TrainLoop, Rounds
<1>3. loopRound' \in [Parties -> Rounds]
  BY <1>2 DEF TrainLoop, TypeInv
<1>4. proc' \in [Parties -> Processes]
  <2>1. CASE UNCHANGED proc
    BY <2>1 DEF TypeInv
  <2>2. CASE g.round = proc[p].round + 1 /\ proc' = [proc EXCEPT ![p] = upRound(@)]
    <3>1. upRound(proc[p]) \in Processes
      BY <1>2, <2>2, upRoundOK, TypeFacts
    <3> QED BY <2>2, <3>1 DEF TypeInv
  <2> QED BY <2>1, <2>2 DEF TrainLoop
<1> QED BY <1>1, <1>3, <1>4 DEF TypeInv, TrainLoop

LEMMA CalcType ==
    ASSUME TypeInv, NEW p \in Parties, NEW g \in BagToSet(go[p]),
           CalLocalGradCost(p, g) \/ CalEncGradCost(p, g) \/ DecLocalGradCost(p, g)
             \/ UpdCostGrad(p, g)
    PROVE  TypeInv'
<1>0. g.round \in Nat /\ (g.do # "TrainLoop" => g.round \in Rounds)
  BY TypeFacts
<1>1. CASE CalLocalGradCost(p, g)
  <2>1. RoundOf(p, g) \in Rounds
    BY <1>0, <1>1, TypeFacts DEF RoundOf, CalLocalGradCost, Past
  <2>2. GoroutineOK(Call("PartBytes", RoundOf(p, g), proc[p].round))
    BY <2>1, CallOK, TypeFacts DEF Messages
  <2>3. GoInv'
    BY <1>1, <2>2, GoBecomes DEF CalLocalGradCost
  <2>4. [proc[p] EXCEPT !.rawPart = TRUE] \in Processes
    BY TypeFacts DEF Processes
  <2>5. proc' \in [Parties -> Processes]
    BY <1>1, <2>4 DEF CalLocalGradCost, TypeInv
  <2> QED BY <1>1, <2>3, <2>5 DEF TypeInv, CalLocalGradCost
<1>2. CASE CalEncGradCost(p, g)
  <2>1. g.round \in Rounds
    BY <1>0, <1>2 DEF CalEncGradCost, Past
  <2>2. GoroutineOK(Call("EncGradCost", g.round, proc[p].round))
    BY <2>1, CallOK, TypeFacts DEF Messages
  <2>3. PICK gs : Becomes(p, g, gs) /\ gs \in {{}, {Call("EncGradCost", g.round, proc[p].round)}}
    BY <1>2 DEF CalEncGradCost
  <2>4. GoInv'
    BY <1>2, <2>2, <2>3, GoBecomes DEF CalEncGradCost
  <2>5. [proc[p] EXCEPT !.noise = TRUE] \in Processes
    BY TypeFacts DEF Processes
  <2>8. proc' \in [Parties -> Processes]
    BY <1>2, <2>5 DEF CalEncGradCost, TypeInv
  <2> QED BY <1>2, <2>4, <2>8 DEF TypeInv, CalEncGradCost
<1>3. CASE DecLocalGradCost(p, g)
  <2>1. g.round \in Rounds
    BY <1>0, <1>3 DEF DecLocalGradCost, Past
  <2>2. proc[p].encFrom # None => GoroutineOK(Call("GradAndCost", g.round, proc[p].encFrom))
    BY <2>1, CallOK, TypeFacts DEF Messages, Processes
  <2>3. PICK gs : /\ Becomes(p, g, gs)
                  /\ \/ gs = {}
                     \/ proc[p].encFrom # None
                          /\ gs = {Call("GradAndCost", g.round, proc[p].encFrom)}
    BY <1>3 DEF DecLocalGradCost
  <2>4. GoInv'
    BY <1>3, <2>2, <2>3, GoBecomes DEF DecLocalGradCost
  <2>5. [proc[p] EXCEPT !.dec = TRUE] \in Processes
    BY TypeFacts DEF Processes
  <2>8. proc' \in [Parties -> Processes]
    BY <1>3, <2>5 DEF DecLocalGradCost, TypeInv
  <2> QED BY <1>3, <2>4, <2>8 DEF TypeInv, DecLocalGradCost
<1>4. CASE UpdCostGrad(p, g)
  <2>1. g.round \in Rounds
    BY <1>0, <1>4 DEF UpdCostGrad, Past
  <2>2. PICK s : /\ s \in IF proc[p].stopped # 0 THEN {proc[p].stopped}
                                                  ELSE StopTraining(proc[p].round)
                 /\ proc' = [proc EXCEPT ![p].stopped = s]
                 /\ Becomes(p, g, {Call("Status", g.round, s)})
    BY <1>4 DEF UpdCostGrad
  <2>3. s \in {1, 2}
    BY <2>2, TypeFacts DEF StopTraining, Processes
  <2>4. GoroutineOK(Call("Status", g.round, s))
    BY <2>1, <2>3, CallOK DEF Messages
  <2>5. GoInv'
    BY <1>4, <2>2, <2>4, GoBecomes DEF UpdCostGrad
  <2>6. [proc[p] EXCEPT !.stopped = s] \in Processes
    BY <2>3, TypeFacts DEF Processes
  <2>7. proc' \in [Parties -> Processes]
    BY <2>2, <2>6 DEF TypeInv
  <2> QED BY <1>4, <2>5, <2>7 DEF TypeInv, UpdCostGrad
<1> QED BY <1>1, <1>2, <1>3, <1>4

LEMMA EndType ==
    ASSUME TypeInv, NEW p \in Parties, NEW g \in BagToSet(go[p]),
           CheckStatus(p, g) \/ TrainModels(p, g) \/ OtherRound(p, g) \/ CalculationFails(p, g)
             \/ Suspend(p, g) \/ Hold(p, g)
    PROVE  TypeInv'
<1>0. g.round \in Nat /\ (g.do # "TrainLoop" => g.round \in Rounds) /\ GoroutineOK(g)
  BY TypeFacts
<1>1. CASE CheckStatus(p, g)
  <2>1. g.round \in Rounds /\ g.round + 1 \in 0..(MaxRound + 1)
    BY <1>0, <1>1, BoundAssumption DEF CheckStatus, Rounds
  <2>2. GoroutineOK(Local("TrainModels", g.round)) /\ GoroutineOK(Local("TrainLoop", g.round + 1))
    BY <2>1, LocalOK, TypeFacts DEF Unchecked
  <2>3. PICK gs : Becomes(p, g, gs) /\
                  gs \in {{}, {Local("TrainModels", g.round)}, {Local("TrainLoop", g.round + 1)}}
    BY <1>1 DEF CheckStatus
  <2>4. GoInv'
    BY <1>1, <2>2, <2>3, GoBecomes DEF CheckStatus
  <2> QED BY <1>1, <2>4 DEF CheckStatus, TypeInv
<1>2. CASE TrainModels(p, g)
  <2>1. GoInv'
    BY <1>2, GoBecomes DEF TrainModels
  <2> QED BY <1>2, <2>1 DEF TrainModels, TypeInv
<1>3. CASE OtherRound(p, g)
  <2>1. GoInv'
    BY <1>3, GoBecomes DEF OtherRound
  <2> QED BY <1>3, <2>1 DEF OtherRound, TypeInv
<1>4. CASE CalculationFails(p, g)
  <2>1. GoInv'
    BY <1>4, GoBecomes DEF CalculationFails, Fails
  <2>2. status' \in [Parties -> {StartPSI, EndPSI, StartTrain, EndTrain}]
    <3>1. CASE g.do = "TrainHup"
      BY <1>4, <3>1 DEF CalculationFails, TypeInv
    <3>2. CASE g.do = "TrainModels"
      BY <1>4, <3>2 DEF CalculationFails, TypeInv
    <3>3. CASE g.do \notin {"TrainHup", "TrainModels"}
      BY <1>4, <3>3 DEF CalculationFails, TypeInv
    <3> QED BY <3>1, <3>2, <3>3
  <2> QED BY <1>4, <2>1, <2>2 DEF CalculationFails, TypeInv
<1>5. CASE Suspend(p, g)
  <2>1. GoroutineOK(Late(g, loopRound[p]))
    BY <1>0, <1>5, LateOK, TypeFacts DEF Suspend
  <2>2. Becomes(p, g, {Late(g, loopRound[p])})
    BY <1>5 DEF Suspend, Late
  <2>3. GoInv'
    BY <1>5, <2>1, <2>2, GoBecomes DEF Suspend
  <2> QED BY <1>5, <2>3 DEF Suspend, TypeInv
<1>6. CASE Hold(p, g)
  <2>1. GoroutineOK(Held(g))
    BY <1>0, <1>6, HeldOK DEF Hold, Enters, Compared, Messages
  <2>2. Becomes(p, g, {Held(g)})
    BY <1>6 DEF Hold, Held
  <2>3. GoInv'
    BY <1>6, <2>1, <2>2, GoBecomes DEF Hold
  <2> QED BY <1>6, <2>3 DEF Hold, TypeInv
<1> QED BY <1>1, <1>2, <1>3, <1>4, <1>5, <1>6

LEMMA DeliverGo ==
    ASSUME TypeInv, NEW p \in Parties, NEW g \in BagToSet(go[p]), Deliver(p, g)
    PROVE  /\ DOMAIN go' = Parties
           /\ go'[p] = Replace(go[p], g, Answered(g))
           /\ go'[Other(p)] = Plus(go[Other(p)], Started(Other(p), g))
           /\ Within(go'[p], go[p], Answered(g))
           /\ Within(go'[Other(p)], go[Other(p)], Started(Other(p), g))
           /\ \A r \in Parties : IsBag(go'[r])
<1>1. DOMAIN go = Parties /\ \A r \in Parties : IsBag(go[r])
  BY DEF TypeInv, GoInv
<1>2. go' = [go EXCEPT ![p] = Replace(@, g, Answered(g)),
                       ![Other(p)] = Plus(@, Started(Other(p), g))]
  BY DEF Deliver, Replace, Plus
<1>3. /\ DOMAIN go' = Parties
      /\ go'[p] = Replace(go[p], g, Answered(g))
      /\ go'[Other(p)] = Plus(go[Other(p)], Started(Other(p), g))
  BY <1>1, <1>2, OtherParty
<1>4. Within(Replace(go[p], g, Answered(g)), go[p], Answered(g))
  BY <1>1, ReplaceWithin
<1>5. Within(Plus(go[Other(p)], Started(Other(p), g)), go[Other(p)], Started(Other(p), g))
  BY <1>1, PlusWithin, OtherParty
<1>6. \A r \in Parties : IsBag(go'[r])
  BY <1>3, <1>4, <1>5, OtherParty DEF Within
<1> QED BY <1>3, <1>4, <1>5, <1>6

LEMMA LateGo ==
    ASSUME TypeInv, NEW p \in Parties, NEW g \in late[p], LateDelivery(p, g),
           ~ PartRefused(Other(p), g)
    PROVE  /\ DOMAIN go' = Parties
           /\ go'[p] = go[p]
           /\ go'[Other(p)] = Plus(go[Other(p)], Started(Other(p), g))
           /\ Within(go'[Other(p)], go[Other(p)], Started(Other(p), g))
           /\ \A r \in Parties : IsBag(go'[r])
<1>1. DOMAIN go = Parties /\ \A r \in Parties : IsBag(go[r])
  BY DEF TypeInv, GoInv
<1>2. go' = [go EXCEPT ![Other(p)] = Plus(@, Started(Other(p), g))]
  BY DEF LateDelivery, Plus
<1>3. /\ DOMAIN go' = Parties
      /\ go'[p] = go[p]
      /\ go'[Other(p)] = Plus(go[Other(p)], Started(Other(p), g))
  BY <1>1, <1>2, OtherParty
<1>5. Within(Plus(go[Other(p)], Started(Other(p), g)), go[Other(p)], Started(Other(p), g))
  BY <1>1, PlusWithin, OtherParty
<1>6. \A r \in Parties : IsBag(go'[r])
  BY <1>1, <1>3, <1>5, OtherParty DEF Within
<1> QED BY <1>3, <1>5, <1>6

\* psi[p].mine and psi[q].others, after a call has been executed.
LEMMA PsiOK ==
    ASSUME TypeInv, NEW p \in Parties, NEW g
    PROVE  /\ SetReEncryptIDSet(p, g) \in [mine: BOOLEAN, others: BOOLEAN]
           /\ SetOtherFinalReEncryptIDSet(p, g) \in [mine: BOOLEAN, others: BOOLEAN]
           /\ SetReEncryptIDSet(p, g).mine = (psi[p].mine \/ g.do = "ReEnc")
           /\ SetReEncryptIDSet(p, g).others = psi[p].others
           /\ SetOtherFinalReEncryptIDSet(p, g).others = (psi[p].others \/ g.do = "ReEnc")
           /\ SetOtherFinalReEncryptIDSet(p, g).mine = psi[p].mine
<1>1. psi[p] \in [mine: BOOLEAN, others: BOOLEAN]
  BY DEF TypeInv
<1>2. /\ SetReEncryptIDSet(p, g) = [mine |-> (psi[p].mine \/ g.do = "ReEnc"), others |-> psi[p].others]
      /\ SetOtherFinalReEncryptIDSet(p, g) = [mine |-> psi[p].mine, others |-> (psi[p].others \/ g.do = "ReEnc")]
  BY <1>1 DEF SetReEncryptIDSet, SetOtherFinalReEncryptIDSet
<1> QED BY <1>1, <1>2

LEMMA CallType ==
    ASSUME TypeInv, NEW p \in Parties, NEW g \in BagToSet(go[p]),
           Deliver(p, g) \/ Refuse(p, g) \/ PeerDeleted(p, g) \/ NotYet(p, g) \/ TimeOut(p, g)
    PROVE  TypeInv'
<1>0. GoroutineOK(g) /\ g.do \in Messages
  BY TypeFacts DEF Calling, Deliver, Refuse, PeerDeleted, NotYet, TimeOut
<1> DEFINE q == Other(p)
<1>a. q \in Parties /\ q # p /\ \A r \in Parties : r = p \/ r = q
  BY OtherParty
<1>b. \A h \in Tries(g) : GoroutineOK(h)
  BY <1>0, TriesOK
<1>c. DOMAIN late = Parties /\ DOMAIN go = Parties
  BY DEF TypeInv, GoInv
<1>1. CASE Deliver(p, g)
  <2>1. \A h \in Answered(g) : GoroutineOK(h)
    BY <1>0, <1>a, StartedOK
  <2>2. \A h \in Started(q, g) : GoroutineOK(h)
    BY <1>0, <1>a, StartedOK
  <2>3. GoInv'
    <3>1. /\ DOMAIN go' = Parties
          /\ Within(go'[p], go[p], Answered(g))
          /\ Within(go'[q], go[q], Started(q, g))
          /\ \A r \in Parties : IsBag(go'[r])
      BY <1>1, DeliverGo
    <3>2. \A r \in Parties : \A h \in BagToSet(go'[r]) : h \in BagToSet(go[r]) \/ GoroutineOK(h)
      BY <1>a, <2>1, <2>2, <3>1 DEF Within
    <3>3. late' = late
      BY <1>1 DEF Deliver
    <3> QED BY <1>c, <3>1, <3>2, <3>3, GoKept DEF TypeInv
  <2>4. proc' \in [Parties -> Processes]
    <3>1. Received(q, g) \in Processes
      BY <1>0, <1>a, ReceivedOK
    <3>2. proc' = [proc EXCEPT ![q] = Received(q, g)]
      BY <1>1 DEF Deliver
    <3> QED BY <3>1, <3>2 DEF TypeInv
  <2>5. psi' \in [Parties -> [mine: BOOLEAN, others: BOOLEAN]]
    BY <1>1, <1>a, PsiOK DEF Deliver, TypeInv
  <2>6. locked' \in [Parties -> BOOLEAN]
    BY <1>1 DEF Deliver, TypeInv
  <2> QED BY <1>1, <2>3, <2>4, <2>5, <2>6 DEF TypeInv, Deliver
<1>2. CASE Refuse(p, g)
  <2>1. GoInv'
    <3>1. Becomes(p, g, Tries(g))
      BY <1>2, RetriedBecomes DEF Refuse
    <3> QED BY <1>2, <1>b, <1>c, <3>1, GoReplaced DEF Refuse
  <2> QED BY <1>2, <2>1 DEF TypeInv, Refuse
<1>3. CASE PeerDeleted(p, g)
  <2>1. GoInv'
    BY <1>3, GoBecomes DEF PeerDeleted, Fails
  <2>2. locked' \in [Parties -> BOOLEAN]
    BY <1>3 DEF PeerDeleted, TypeInv
  <2> QED BY <1>3, <2>1, <2>2 DEF TypeInv, PeerDeleted
<1>4. CASE NotYet(p, g)
  <2>1. GoInv'
    <3>1. Becomes(p, g, Tries(g))
      BY <1>4, RetriedBecomes DEF NotYet
    <3> QED BY <1>4, <1>b, <1>c, <3>1, GoReplaced DEF NotYet
  <2>2. locked' \in [Parties -> BOOLEAN]
    BY <1>4 DEF NotYet, GivesUp, TypeInv
  <2> QED BY <1>4, <2>1, <2>2 DEF TypeInv, NotYet
<1>5. CASE TimeOut(p, g)
  <2>1. GoInv'
    <3>1. Becomes(p, g, Tries(g))
      BY <1>5, RetriedBecomes DEF TimeOut
    <3>2. late' = [late EXCEPT ![p] = @ \cup {g}]
      BY <1>5 DEF TimeOut
    <3>3. DOMAIN late' = Parties /\ \A r \in Parties : \A h \in late'[r] :
                h \in late[r] \/ (h \in BagToSet(go[r]) /\ h.do \in Messages)
      BY <1>0, <1>c, <3>2
    <3> QED BY <1>b, <3>1, <3>3, GoReplaced
  <2>2. locked' \in [Parties -> BOOLEAN]
    BY <1>5 DEF TimeOut, GivesUp, TypeInv
  <2> QED BY <1>5, <2>1, <2>2 DEF TypeInv, TimeOut
<1> QED BY <1>1, <1>2, <1>3, <1>4, <1>5

LEMMA LateHoldType ==
    ASSUME TypeInv, NEW p \in Parties, NEW g \in late[p], LateHold(p, g)
    PROVE  TypeInv'
<1>1. GoroutineOK(g) /\ g.do \in Messages /\ DOMAIN late = Parties
  BY DEF TypeInv, GoInv, Pool
<1>2. GoroutineOK(Held(g)) /\ Held(g).do \in Messages
  BY <1>1, HeldOK
<1>3. late' = [late EXCEPT ![p] = (@ \ {g}) \cup {Held(g)}] /\ UNCHANGED go
  BY DEF LateHold, Held
<1>4. GoInv'
  <2>1. /\ DOMAIN late' = Parties
        /\ \A r \in Parties : \A h \in late'[r] : h \in late[r] \/ h = Held(g)
    BY <1>1, <1>3
  <2>2. DOMAIN go' = Parties /\ \A r \in Parties : IsBag(go'[r])
    BY <1>3 DEF TypeInv, GoInv
  <2> QED BY <1>2, <1>3, <2>1, <2>2, GoKept DEF TypeInv
<1> QED BY <1>4 DEF TypeInv, LateHold

LEMMA LateType ==
    ASSUME TypeInv, NEW p \in Parties, NEW g \in late[p], LateDelivery(p, g)
    PROVE  TypeInv'
<1>0. GoroutineOK(g) /\ g.do \in Messages
  BY DEF TypeInv, GoInv, Pool
<1> DEFINE q == Other(p)
<1>a. q \in Parties /\ q # p /\ \A r \in Parties : r = p \/ r = q
  BY OtherParty
<1>c. /\ DOMAIN late' = Parties /\ DOMAIN go = Parties
      /\ \A r \in Parties : late'[r] \subseteq late[r]
      /\ \A r \in Parties : IsBag(go[r])
  BY DEF TypeInv, GoInv, LateDelivery
<1>1. CASE PartRefused(q, g)
  <2>1. UNCHANGED <<proc, psi, go>>
    BY <1>1 DEF LateDelivery
  <2>2. GoInv'
    BY <1>c, <2>1, GoKept DEF TypeInv
  <2> QED BY <2>1, <2>2 DEF TypeInv, LateDelivery
<1>2. CASE ~ PartRefused(q, g)
  <2>1. \A h \in Started(q, g) : GoroutineOK(h)
    BY <1>0, <1>a, StartedOK
  <2>2. GoInv'
    <3>1. /\ DOMAIN go' = Parties
          /\ go'[p] = go[p]
          /\ Within(go'[q], go[q], Started(q, g))
          /\ \A r \in Parties : IsBag(go'[r])
      BY <1>2, LateGo
    <3>2. \A r \in Parties : \A h \in BagToSet(go'[r]) : h \in BagToSet(go[r]) \/ GoroutineOK(h)
      BY <1>a, <2>1, <3>1 DEF Within
    <3> QED BY <1>c, <3>1, <3>2, GoKept DEF TypeInv
  <2>3. proc' \in [Parties -> Processes]
    <3>1. Received(q, g) \in Processes
      BY <1>0, <1>a, ReceivedOK
    <3>2. proc' = [proc EXCEPT ![q] = Received(q, g)]
      BY <1>2 DEF LateDelivery
    <3> QED BY <3>1, <3>2 DEF TypeInv
  <2>4. psi' \in [Parties -> [mine: BOOLEAN, others: BOOLEAN]]
    <3>1. psi' = [psi EXCEPT ![q] = SetOtherFinalReEncryptIDSet(q, g)]
      BY <1>2 DEF LateDelivery
    <3>2. SetOtherFinalReEncryptIDSet(q, g) \in [mine: BOOLEAN, others: BOOLEAN]
      BY <1>a, PsiOK
    <3> QED BY <3>1, <3>2 DEF TypeInv
  <2> QED BY <2>2, <2>3, <2>4 DEF TypeInv, LateDelivery
<1> QED BY <1>1, <1>2

LEMMA TypeStep == TypeInv /\ [Next]_vars => TypeInv'
<1> SUFFICES ASSUME TypeInv, [Next]_vars PROVE TypeInv'
  OBVIOUS
<1>1. CASE UNCHANGED vars
  BY <1>1 DEF vars, TypeInv, GoInv, Pool
<1>2. ASSUME NEW p \in Parties, DeleteLearner(p)  PROVE TypeInv'
  BY <1>2 DEF DeleteLearner, TypeInv, GoInv, Pool
<1>3. ASSUME NEW p \in Parties, Step(p)  PROVE TypeInv'
  BY <1>2, <1>3, NewLearnerType, PsiType, LoopType, CalcType, EndType, CallType DEF Step
<1>4. ASSUME NEW p \in Parties, Fault(p)  PROVE TypeInv'
  BY <1>4, EndType, CallType, LateType, LateHoldType DEF Fault
<1> QED BY <1>1, <1>3, <1>4 DEF Next

-----------------------------------------------------------------------------
(***************************************************************************)
(* Every step, as far as rounds and data are concerned, is one of eight.   *)
(* Most are quiet: no process changes but for its parameters, and what is  *)
(* new is a copy of a goroutine, or belongs to the start of the training.  *)
(***************************************************************************)
Early == {"PsiEnc", "ReEnc", "Intersect", "TrainHup", "HomoPubkey"}

\* Process pr becomes qr, which differs from it in its parameters at most.
Alike(pr, qr) ==
    /\ qr.round = pr.round /\ qr.rawPart = pr.rawPart
    /\ qr.part = pr.part /\ qr.nextPart = pr.nextPart
    /\ qr.noise = pr.noise /\ qr.encFrom = pr.encFrom
    /\ qr.gradFrom = pr.gradFrom /\ qr.stopped = pr.stopped
    /\ qr.otherStopped = pr.otherStopped /\ qr.pub = pr.pub

Same(p) == Alike(proc[p], proc'[p])

\* Neither does what p is doing.
Idle(p) ==
    /\ Pool(p)' \subseteq Pool(p)
    /\ Solo(p, Upd) => Solo(p, Upd)'

\* At most the goroutines gs are new.
Grows(p, gs) ==
    /\ Pool(p)' \subseteq Pool(p) \cup gs
    /\ (\A h \in gs : h.do \notin Upd) => (Solo(p, Upd) => Solo(p, Upd)')

Copy(p, h, g) ==
    /\ h.do = g.do /\ h.data = g.data
    /\ h.round = g.round \/ (h.do = "CalLocalGradCost" /\ h.round = loopRound[p])
    /\ h.at = g.at \/ Calling(h) \/ Suspended'

Quiet(p) ==
    /\ Same(p) /\ Same(Other(p)) /\ Idle(Other(p))
    /\ \A h \in Pool(p)' : \/ h \in Pool(p)
                           \/ \E g \in Pool(p) : Copy(p, h, g)
                           \/ h.do \in Early /\ h.round <= loopRound[p] /\ h.at # "checked"
    /\ Solo(p, Upd) => Solo(p, Upd)'
    /\ panicked' = panicked

Entered(p, g) ==
    /\ g.do = "TrainLoop"
    /\ \/ Same(p)
       \/ g.round = proc[p].round + 1 /\ proc'[p] = upRound(proc[p])
    /\ Same(Other(p)) /\ Idle(Other(p))
    /\ Grows(p, {Local("CalLocalGradCost", 0)})
    /\ panicked' = panicked

InRound(p, g) == g.at = "checked" \/ RoundOf(p, g) = loopRound[p]

LocalDone(p, g) ==
    /\ g.do = "CalLocalGradCost" /\ InRound(p, g)
    /\ proc'[p] = [proc[p] EXCEPT !.rawPart = TRUE]
    /\ Same(Other(p)) /\ Idle(Other(p))
    /\ Grows(p, {Call("PartBytes", RoundOf(p, g), proc[p].round)})
    /\ panicked' = panicked

EncDone(p, g) ==
    /\ g.do = "CalEncGradCost" /\ InRound(p, g) /\ EncReady(proc[p])
    /\ proc'[p] = [proc[p] EXCEPT !.noise = TRUE]
    /\ Same(Other(p)) /\ Idle(Other(p))
    /\ Grows(p, {Call("EncGradCost", g.round, proc[p].round)})
    /\ panicked' = panicked

DecDone(p, g) ==
    /\ g.do = "DecLocalGradCost" /\ InRound(p, g) /\ proc[p].encFrom # None
    /\ Same(p)
    /\ Same(Other(p)) /\ Idle(Other(p))
    /\ Grows(p, {Call("GradAndCost", g.round, proc[p].encFrom)})
    /\ panicked' = panicked

UpdDone(p, g, s) ==
    /\ g.do = "UpdCostGrad"
    /\ s \in IF proc[p].stopped # 0 THEN {proc[p].stopped} ELSE StopTraining(proc[p].round)
    /\ proc'[p] = [proc[p] EXCEPT !.stopped = s]
    /\ Same(Other(p)) /\ Idle(Other(p))
    /\ Pool(p)' \subseteq Pool(p) \cup {Call("Status", g.round, s)}
    /\ Solo(p, Upd) => \A h \in Pool(p)' : h.do \notin Upd
    /\ panicked' = (panicked \/ (proc[p].stopped = 0 /\ ~ (proc[p].gradFrom # None /\ proc[p].noise)))

StatusDone(p, g) ==
    /\ g.do = "CheckStatus" /\ decided(proc[p])
    /\ Same(p)
    /\ Same(Other(p)) /\ Idle(Other(p))
    /\ Grows(p, IF stop(proc[p]) THEN {Local("TrainModels", g.round)}
                                 ELSE {Local("TrainLoop", g.round + 1)})
    /\ panicked' = panicked

Got(p, g) == LET q == Other(p) IN
    /\ g.do \in Messages
    /\ OnTime(q, g)
    /\ proc'[q] = Received(q, g)
    /\ Same(p) /\ Grows(p, Answered(g))
    /\ Grows(q, Started(q, g))
    /\ (\A h \in Pool(q) : h.do \notin Upd) => Solo(q, Upd)'
    /\ panicked' = panicked

OneOf(p) ==
    \/ Quiet(p)
    \/ \E g \in Pool(p) :
          \/ Entered(p, g) \/ LocalDone(p, g) \/ EncDone(p, g) \/ DecDone(p, g)
          \/ (\E s \in {1, 2} : UpdDone(p, g, s)) \/ StatusDone(p, g) \/ Got(p, g)

LEMMA UpdIsNotNew ==
    ASSUME NEW b, IsBag(b), NEW g \in BagToSet(b), NEW gs, \A h \in gs : h.do \notin Upd
    PROVE  SoloBag(b, Upd) => SoloBag(Replace(b, g, gs), Upd)
BY SoloKept, ReplaceWithin

LEMMA BecomesPool ==
    ASSUME TypeInv, NEW p \in Parties, NEW g \in BagToSet(go[p]), NEW gs,
           Becomes(p, g, gs), late' = late
    PROVE  Idle(Other(p)) /\ Grows(p, gs)
<1>2. /\ go'[p] = Replace(go[p], g, gs)
      /\ \A r \in Parties : r # p => go'[r] = go[r]
      /\ BagToSet(go'[p]) \subseteq BagToSet(go[p]) \cup gs
  BY BecomesGo
<1>3. IsBag(go[p])
  BY TypeFacts
<1>4. Idle(Other(p))
  BY <1>2, OtherParty DEF Idle, Pool, Solo
<1>5. Pool(p)' \subseteq Pool(p) \cup gs
  BY <1>2 DEF Pool
<1>6. ASSUME \A h \in gs : h.do \notin Upd, Solo(p, Upd)  PROVE Solo(p, Upd)'
  BY <1>2, <1>3, <1>6, UpdIsNotNew DEF Solo
<1> QED BY <1>4, <1>5, <1>6 DEF Grows

LEMMA RetriesPool ==
    ASSUME TypeInv, NEW p \in Parties, NEW g \in BagToSet(go[p]), g.do \in Messages,
           Becomes(p, g, Tries(g)),
           \A r \in Parties : r # p => late'[r] = late[r], late'[p] \subseteq late[p] \cup {g}
    PROVE  /\ Idle(Other(p))
           /\ \A h \in Pool(p)' : h \in Pool(p) \/ Copy(p, h, g)
           /\ Solo(p, Upd) => Solo(p, Upd)'
<1>0. GoroutineOK(g)
  BY TypeFacts
<1>2. /\ go'[p] = Replace(go[p], g, Tries(g))
      /\ \A r \in Parties : r # p => go'[r] = go[r]
      /\ BagToSet(go'[p]) \subseteq BagToSet(go[p]) \cup Tries(g)
  BY BecomesGo
<1>3. IsBag(go[p])
  BY TypeFacts
<1>5. Idle(Other(p))
  BY <1>2, OtherParty DEF Idle, Pool, Solo
<1>6. \A h \in Tries(g) : h.do = g.do /\ h.round = g.round /\ h.data = g.data /\ h.at = "call"
  BY <1>0, TriesOK
<1>7. \A h \in Pool(p)' : h \in Pool(p) \/ Copy(p, h, g)
  BY <1>2, <1>6 DEF Pool, Copy, Calling
<1>8. \A h \in Tries(g) : h.do \notin Upd
  BY <1>6 DEF Messages, Upd
<1>9. Solo(p, Upd) => Solo(p, Upd)'
  BY <1>2, <1>3, <1>8, UpdIsNotNew DEF Solo
<1> QED BY <1>5, <1>7, <1>9

LEMMA SameProc == ASSUME NEW p, proc'[p] = proc[p]  PROVE Same(p)
BY DEF Same, Alike

LEMMA SameOther ==
    ASSUME TypeInv, NEW p \in Parties, NEW x, proc' = [proc EXCEPT ![p] = x]
    PROVE  proc'[p] = x /\ Same(Other(p))
<1>1. DOMAIN proc = Parties
  BY DEF TypeInv
<1> QED BY <1>1, OtherParty, SameProc

\* Nothing happens to processes and goroutines.
LEMMA QuietNothing ==
    ASSUME TypeInv, NEW p \in Parties, UNCHANGED <<proc, go, panicked>>,
           \A r \in Parties : late'[r] \subseteq late[r]
    PROVE  Quiet(p)
<1>1. Same(p) /\ Same(Other(p))
  BY SameProc
<1>2. \A r \in Parties : Pool(r)' \subseteq Pool(r) /\ (Solo(r, Upd) => Solo(r, Upd)')
  BY DEF Pool, Solo
<1> QED BY <1>1, <1>2, OtherParty DEF Quiet, Idle

\* A goroutine ends, or one that starts the training takes its place.
LEMMA QuietEnds ==
    ASSUME TypeInv, NEW p \in Parties, NEW g \in BagToSet(go[p]), NEW gs, Becomes(p, g, gs),
           Same(p), Same(Other(p)), UNCHANGED <<late, panicked>>,
           \A h \in gs : h.do \in Early /\ h.round <= loopRound[p] /\ h.at # "checked"
    PROVE  Quiet(p)
<1>1. Idle(Other(p)) /\ Grows(p, gs)
  BY BecomesPool
<1>2. \A h \in gs : h.do \notin Upd
  BY DEF Early, Upd
<1> QED BY <1>1, <1>2 DEF Quiet, Grows

LEMMA NewLearnerQuiet ==
    ASSUME TypeInv, NEW p \in Parties, NewLearner(p)
    PROVE  Quiet(p)
<1> DEFINE x == Local("PsiEnc", 0)
<1>1. x.do = "PsiEnc" /\ x.round = 0 /\ x.at = "new"
  BY DEF Local
<1>2. /\ BagToSet(SetToBag({x})) = {x}
      /\ SetToBag({x})[x] = 1
  BY DEF BagToSet, SetToBag
<1>3. go' = [go EXCEPT ![p] = SetToBag({x})] /\ UNCHANGED <<proc, late, panicked>>
  BY DEF NewLearner
<1> HIDE DEF x
<1>4. go'[p] = SetToBag({x}) /\ \A r \in Parties : r # p => go'[r] = go[r]
  BY <1>3 DEF TypeInv, GoInv
<1>5. Same(p) /\ Same(Other(p))
  BY <1>3, SameProc
<1>6. Idle(Other(p))
  BY <1>3, <1>4, OtherParty DEF Idle, Pool, Solo
<1>7. \A h \in Pool(p)' : h \in Pool(p) \/ h = x
  BY <1>2, <1>3, <1>4 DEF Pool
<1>8. Solo(p, Upd)'
  BY <1>2, <1>4 DEF Solo, SoloBag
<1>9. x.do \in Early /\ x.round <= loopRound[p] /\ x.at # "checked"
  BY <1>1, TypeFacts DEF Early
<1> QED BY <1>3, <1>5, <1>6, <1>7, <1>8, <1>9 DEF Quiet

LEMMA PsiQuiet ==
    ASSUME TypeInv, NEW p \in Parties, NEW g \in BagToSet(go[p]),
           PsiEnc(p, g) \/ PsiIntersect(p, g) \/ TrainHup(p, g)
    PROVE  Quiet(p)
<1>0. loopRound[p] \in Nat
  BY TypeFacts
<1>1. CASE PsiEnc(p, g)
  <2>1. Same(p) /\ Same(Other(p)) /\ UNCHANGED <<late, panicked>>
    BY <1>1, SameProc DEF PsiEnc
  <2>2. PICK x : x = Call("ReEnc", loopRound[p], 0)
    OBVIOUS
  <2>3. x.do \in Early /\ x.round <= loopRound[p] /\ x.at # "checked"
    BY <1>0, <2>2 DEF Call, Early
  <2> QED BY <1>1, <2>1, <2>2, <2>3, QuietEnds DEF PsiEnc
<1>2. CASE PsiIntersect(p, g)
  <2>1. Same(p) /\ Same(Other(p)) /\ UNCHANGED <<late, panicked>>
    BY <1>2, SameProc DEF PsiIntersect
  <2>2. PICK x : x = Local("TrainHup", 0)
    OBVIOUS
  <2>3. x.do \in Early /\ x.round <= loopRound[p] /\ x.at # "checked"
    BY <1>0, <2>2 DEF Local, Early
  <2>4. Becomes(p, g, {x}) \/ Becomes(p, g, {})
    BY <1>2, <2>2 DEF PsiIntersect
  <2> QED BY <2>1, <2>3, <2>4, QuietEnds
<1>3. CASE TrainHup(p, g)
  <2>1. UNCHANGED <<late, panicked>> /\ DOMAIN proc = Parties /\ proc[p] \in Processes
    BY <1>3 DEF TrainHup, TypeInv
  <2>2. proc' = proc \/ proc' = [proc EXCEPT ![p] = [proc[p] EXCEPT !.thetas = 0]]
    BY <1>3 DEF TrainHup
  <2>3. Same(Other(p))
    BY <2>2, SameProc, SameOther
  <2>4. Same(p)
    <3>1. proc'[p] = proc[p] \/ proc'[p] = [proc[p] EXCEPT !.thetas = 0]
      BY <2>1, <2>2
    <3> QED BY <2>1, <3>1 DEF Same, Alike, Processes
  <2>5. PICK x : x = Call("HomoPubkey", loopRound[p], 0)
    OBVIOUS
  <2>6. x.do \in Early /\ x.round <= loopRound[p] /\ x.at # "checked"
    BY <1>0, <2>5 DEF Call, Early
  <2>7. Becomes(p, g, {x}) \/ Becomes(p, g, {})
    BY <1>3, <2>5 DEF TrainHup
  <2> QED BY <2>1, <2>3, <2>4, <2>6, <2>7, QuietEnds
<1> QED BY <1>1, <1>2, <1>3

LEMMA LoopOneOf ==
    ASSUME TypeInv, NEW p \in Parties, NEW g \in BagToSet(go[p]), TrainLoop(p, g)
    PROVE  Quiet(p) \/ Entered(p, g)
<1>1. UNCHANGED <<late, panicked>> /\ g.do = "TrainLoop"
  BY DEF TrainLoop
<1>2. CASE Becomes(p, g, {}) /\ UNCHANGED proc
  BY <1>1, <1>2, SameProc, QuietEnds
<1>3. CASE /\ EntersRound(p, g, g.round)
           /\ \/ UNCHANGED proc
              \/ g.round = proc[p].round + 1 /\ proc' = [proc EXCEPT ![p] = upRound(proc[p])]
  <2>1. /\ Same(Other(p))
        /\ Same(p) \/ (g.round = proc[p].round + 1 /\ proc'[p] = upRound(proc[p]))
    BY <1>3, SameProc, SameOther
  <2>2. PICK x : x = Local("CalLocalGradCost", 0)
    OBVIOUS
  <2>3. /\ Within(go'[p], go[p], {x})
        /\ \A s \in Parties : s # p => go'[s] = go[s]
        /\ BagToSet(go'[p]) \subseteq BagToSet(go[p]) \cup {x}
    BY <1>3, <2>2, EntersGo
  <2>4. Idle(Other(p))
    BY <1>1, <2>3, OtherParty DEF Idle, Pool, Solo
  <2>5. Pool(p)' \subseteq Pool(p) \cup {x}
    BY <1>1, <2>3 DEF Pool
  <2>6. x.do \notin Upd
    BY <2>2 DEF Local, Upd
  <2>7. Solo(p, Upd) => Solo(p, Upd)'
    BY <2>3, <2>6, TypeFacts, SoloKept DEF Solo
  <2>8. Grows(p, {x})
    BY <2>5, <2>7 DEF Grows
  <2> QED BY <1>1, <2>1, <2>2, <2>4, <2>8 DEF Entered
<1> QED BY <1>2, <1>3 DEF TrainLoop, Fails

LEMMA CalcOneOf ==
    ASSUME TypeInv, NEW p \in Parties, NEW g \in BagToSet(go[p]),
           CalLocalGradCost(p, g) \/ CalEncGradCost(p, g) \/ DecLocalGradCost(p, g)
             \/ UpdCostGrad(p, g)
    PROVE  \/ Quiet(p) \/ LocalDone(p, g) \/ EncDone(p, g) \/ DecDone(p, g)
           \/ \E s \in {1, 2} : UpdDone(p, g, s)
<1>0. proc[p] \in Processes /\ DOMAIN proc = Parties
  BY DEF TypeInv
<1>1. CASE CalLocalGradCost(p, g)
  <2>1. /\ g.do = "CalLocalGradCost" /\ InRound(p, g)
        /\ proc' = [proc EXCEPT ![p] = [proc[p] EXCEPT !.rawPart = TRUE]]
        /\ UNCHANGED <<late, panicked>>
    BY <1>1 DEF CalLocalGradCost, Past, InRound
  <2>2. proc'[p] = [proc[p] EXCEPT !.rawPart = TRUE] /\ Same(Other(p))
    BY <2>1, SameOther
  <2>3. CASE proc[p].rawPart
    <3>1. Becomes(p, g, {})
      BY <1>1, <2>3 DEF CalLocalGradCost
    <3>2. Same(p)
      BY <1>0, <2>2, <2>3 DEF Same, Alike, Processes
    <3> QED BY <2>1, <2>2, <3>1, <3>2, QuietEnds
  <2>4. CASE ~ proc[p].rawPart
    <3>1. Becomes(p, g, {Call("PartBytes", RoundOf(p, g), proc[p].round)})
      BY <1>1, <2>4 DEF CalLocalGradCost
    <3>2. Idle(Other(p)) /\ Grows(p, {Call("PartBytes", RoundOf(p, g), proc[p].round)})
      BY <2>1, <3>1, BecomesPool
    <3> QED BY <2>1, <2>2, <3>2 DEF LocalDone
  <2> QED BY <2>3, <2>4
<1>2. CASE CalEncGradCost(p, g)
  <2>1. g.do = "CalEncGradCost" /\ InRound(p, g) /\ UNCHANGED <<late, panicked>>
    BY <1>2 DEF CalEncGradCost, Past, InRound
  <2>2. CASE EncReady(proc[p]) /\ proc[p].pub
    <3>1. /\ proc' = [proc EXCEPT ![p] = [proc[p] EXCEPT !.noise = TRUE]]
          /\ Becomes(p, g, {Call("EncGradCost", g.round, proc[p].round)})
      BY <1>2, <2>2 DEF CalEncGradCost
    <3>2. proc'[p] = [proc[p] EXCEPT !.noise = TRUE] /\ Same(Other(p))
      BY <3>1, SameOther
    <3>3. Idle(Other(p)) /\ Grows(p, {Call("EncGradCost", g.round, proc[p].round)})
      BY <2>1, <3>1, BecomesPool
    <3> QED BY <2>1, <2>2, <3>2, <3>3 DEF EncDone
  <2>3. CASE ~ (EncReady(proc[p]) /\ proc[p].pub)
    <3>1. proc' = proc /\ Becomes(p, g, {})
      BY <1>2, <2>3 DEF CalEncGradCost
    <3> QED BY <2>1, <3>1, SameProc, QuietEnds
  <2> QED BY <2>2, <2>3
<1>3. CASE DecLocalGradCost(p, g)
  <2>1. g.do = "DecLocalGradCost" /\ InRound(p, g) /\ UNCHANGED <<late, panicked>>
    BY <1>3 DEF DecLocalGradCost, Past, InRound
  <2>2. CASE ~ proc[p].dec /\ proc[p].encFrom # None
    <3>1. /\ proc' = [proc EXCEPT ![p] = [proc[p] EXCEPT !.dec = TRUE]]
          /\ Becomes(p, g, {Call("GradAndCost", g.round, proc[p].encFrom)})
      BY <1>3, <2>2 DEF DecLocalGradCost
    <3>2. proc'[p] = [proc[p] EXCEPT !.dec = TRUE] /\ Same(Other(p))
      BY <3>1, SameOther
    <3>3. Same(p)
      BY <1>0, <3>2 DEF Same, Alike, Processes
    <3>4. Idle(Other(p)) /\ Grows(p, {Call("GradAndCost", g.round, proc[p].encFrom)})
      BY <2>1, <3>1, BecomesPool
    <3> QED BY <2>1, <2>2, <3>2, <3>3, <3>4 DEF DecDone
  <2>3. CASE ~ (~ proc[p].dec /\ proc[p].encFrom # None)
    <3>1. proc' = proc /\ Becomes(p, g, {})
      BY <1>3, <2>3 DEF DecLocalGradCost
    <3> QED BY <2>1, <3>1, SameProc, QuietEnds
  <2> QED BY <2>2, <2>3
<1>4. CASE UpdCostGrad(p, g)
  <2>1. /\ g.do = "UpdCostGrad" /\ UNCHANGED late
        /\ panicked' = (panicked \/ (proc[p].stopped = 0 /\ ~ (proc[p].gradFrom # None /\ proc[p].noise)))
    BY <1>4 DEF UpdCostGrad, Past
  <2>2. PICK s : /\ s \in IF proc[p].stopped # 0 THEN {proc[p].stopped}
                                                  ELSE StopTraining(proc[p].round)
                 /\ proc' = [proc EXCEPT ![p] = [proc[p] EXCEPT !.stopped = s]]
                 /\ Becomes(p, g, {Call("Status", g.round, s)})
    BY <1>4 DEF UpdCostGrad
  <2>3. s \in {1, 2}
    BY <1>0, <2>2 DEF StopTraining, Processes
  <2>4. proc'[p] = [proc[p] EXCEPT !.stopped = s] /\ Same(Other(p))
    BY <2>2, SameOther
  <2>5. PICK x : x = Call("Status", g.round, s)
    OBVIOUS
  <2>6. Idle(Other(p)) /\ Grows(p, {x})
    BY <2>1, <2>2, <2>5, BecomesPool
  <2>7. Pool(p)' \subseteq Pool(p) \cup {x}
    BY <2>6 DEF Grows
  <2>8. Solo(p, Upd) => \A h \in Pool(p)' : h.do \notin Upd
    <3>1. x.do \notin Upd /\ g.do \in Upd
      BY <2>1, <2>5 DEF Call, Upd
    <3>2. go'[p] = Replace(go[p], g, {x})
      BY <2>2, <2>5, BecomesGo
    <3>3. Solo(p, Upd) => \A h \in BagToSet(go'[p]) : h.do \notin Upd
      BY <3>1, <3>2, TypeFacts, SoloEnds DEF Solo
    <3>4. \A h \in late'[p] : h.do \notin Upd
      BY <2>1 DEF TypeInv, GoInv, Messages, Upd
    <3> QED BY <3>3, <3>4 DEF Pool
  <2> QED BY <2>1, <2>2, <2>3, <2>4, <2>5, <2>6, <2>7, <2>8 DEF UpdDone
<1> QED BY <1>1, <1>2, <1>3, <1>4

LEMMA EndOneOf ==
    ASSUME TypeInv, faults \in Seq(FaultKinds), NEW p \in Parties, NEW g \in BagToSet(go[p]),
           CheckStatus(p, g) \/ TrainModels(p, g) \/ OtherRound(p, g) \/ CalculationFails(p, g)
             \/ Suspend(p, g) \/ Hold(p, g)
    PROVE  Quiet(p) \/ StatusDone(p, g)
<1>0. UNCHANGED <<proc, late, panicked>> /\ Same(p) /\ Same(Other(p))
  BY SameProc DEF CheckStatus, TrainModels, OtherRound, CalculationFails, Suspend, Hold
<1>1. CASE CheckStatus(p, g)
  <2>1. CASE ~ decided(proc[p])
    BY <1>0, <1>1, <2>1, QuietEnds DEF CheckStatus
  <2>2. CASE decided(proc[p])
    <3>1. Becomes(p, g, IF stop(proc[p]) THEN {Local("TrainModels", g.round)}
                                         ELSE {Local("TrainLoop", g.round + 1)})
      BY <1>1, <2>2 DEF CheckStatus
    <3>2. /\ Idle(Other(p))
          /\ Grows(p, IF stop(proc[p]) THEN {Local("TrainModels", g.round)}
                                       ELSE {Local("TrainLoop", g.round + 1)})
      BY <1>0, <3>1, BecomesPool
    <3> QED BY <1>0, <1>1, <2>2, <3>2 DEF StatusDone, CheckStatus
  <2> QED BY <2>1, <2>2
<1>2. CASE TrainModels(p, g) \/ OtherRound(p, g) \/ CalculationFails(p, g)
  <2>1. Becomes(p, g, {})
    BY <1>2 DEF TrainModels, OtherRound, CalculationFails, Fails
  <2> QED BY <1>0, <2>1, QuietEnds
<1>3. CASE Suspend(p, g)
  <2>1. /\ g.do \in RoundChecked /\ RoundOf(p, g) = loopRound[p] /\ g.at = "new"
        /\ Becomes(p, g, {Late(g, loopRound[p])})
        /\ faults' = Append(faults, "suspended")
    BY <1>3 DEF Suspend, Late, FaultHappens
  <2>2. GoroutineOK(g)
    BY TypeFacts
  <2>3. PICK x : x = Late(g, loopRound[p])
    OBVIOUS
  <2>4. x.do = g.do /\ x.data = g.data /\ x.round = loopRound[p]
    BY <2>2, <2>3 DEF Late, GoroutineOK
  <2>5. x.round = g.round \/ (x.do = "CalLocalGradCost" /\ x.round = loopRound[p])
    BY <2>1, <2>4 DEF RoundOf
  <2>6. Suspended'
    <3>1. /\ Len(faults) + 1 \in DOMAIN faults'
          /\ faults'[Len(faults) + 1] = "suspended"
      BY <2>1
    <3> QED BY <3>1 DEF Suspended, Happened
  <2>7. Copy(p, x, g)
    BY <2>4, <2>5, <2>6 DEF Copy
  <2>8. /\ go'[p] = Replace(go[p], g, {x})
        /\ \A r \in Parties : r # p => go'[r] = go[r]
        /\ BagToSet(go'[p]) \subseteq BagToSet(go[p]) \cup {x}
    BY <2>1, <2>3, BecomesGo
  <2>9. Idle(Other(p)) /\ \A h \in Pool(p)' : h \in Pool(p) \/ h = x
    BY <1>0, <2>8, OtherParty DEF Idle, Pool, Solo
  <2>10. Solo(p, Upd) => Solo(p, Upd)'
    <3>1. CASE g.do \in Upd
      <4>1. IsBag(go[p])
        BY TypeFacts
      <4>2. SoloBag(go[p], Upd) => SoloBag(Replace(go[p], g, {x}), Upd)
        BY <3>1, <4>1, SoloReplaced
      <4> QED BY <2>8, <4>2 DEF Solo
    <3>2. CASE g.do \notin Upd
      BY <2>4, <2>8, <3>2, TypeFacts, UpdIsNotNew DEF Solo
    <3> QED BY <3>1, <3>2
  <2>11. g \in Pool(p)
    BY DEF Pool
  <2> QED BY <1>0, <2>7, <2>9, <2>10, <2>11 DEF Quiet
<1>4. CASE Hold(p, g)
  <2>1. PICK x : x = Held(g)
    OBVIOUS
  <2>2. GoroutineOK(g) /\ g \in Pool(p) /\ g.do \in Messages /\ Becomes(p, g, {x})
    BY <1>4, <2>1, TypeFacts DEF Pool, Hold, Enters, Compared, Messages, Held
  <2>3. Copy(p, x, g) /\ x.do \notin Upd
    BY <2>1, <2>2, HeldOK DEF Copy, Calling, Messages, Upd
  <2>4. Idle(Other(p)) /\ Grows(p, {x})
    BY <1>0, <2>2, BecomesPool
  <2> QED BY <1>0, <2>2, <2>3, <2>4 DEF Quiet, Grows
<1> QED BY <1>1, <1>2, <1>3, <1>4

LEMMA LateHoldQuiet ==
    ASSUME TypeInv, NEW p \in Parties, NEW g \in late[p], LateHold(p, g)
    PROVE  Quiet(p)
<1>1. PICK x : x = Held(g)
  OBVIOUS
<1>2. GoroutineOK(g) /\ g \in Pool(p) /\ g.do \in Messages
  BY DEF TypeInv, GoInv, Pool
<1>3. Copy(p, x, g)
  BY <1>1, <1>2, HeldOK DEF Copy, Calling
<1>4. /\ late' = [late EXCEPT ![p] = (@ \ {g}) \cup {x}]
      /\ UNCHANGED <<go, proc, panicked>>
  BY <1>1 DEF LateHold, Held
<1>5. /\ \A h \in Pool(p)' : h \in Pool(p) \/ h = x
      /\ Pool(Other(p))' \subseteq Pool(Other(p))
  BY <1>4, OtherParty DEF Pool, TypeInv, GoInv
<1>6. \A r \in Parties : Solo(r, Upd) => Solo(r, Upd)'
  BY <1>4 DEF Solo
<1>7. Same(p) /\ Same(Other(p))
  BY <1>4, SameProc
<1> QED BY <1>2, <1>3, <1>4, <1>5, <1>6, <1>7, OtherParty DEF Quiet, Idle

LEMMA QuietRetries ==
    ASSUME TypeInv, NEW p \in Parties, NEW g \in BagToSet(go[p]), g.do \in Messages,
           go' = [go EXCEPT ![p] = Retried(p, g)], UNCHANGED <<proc, panicked>>,
           \A r \in Parties : r # p => late'[r] = late[r], late'[p] \subseteq late[p] \cup {g}
    PROVE  Quiet(p)
<1>1. Becomes(p, g, Tries(g))
  BY RetriedBecomes
<1>2. /\ Idle(Other(p))
      /\ \A h \in Pool(p)' : h \in Pool(p) \/ Copy(p, h, g)
      /\ Solo(p, Upd) => Solo(p, Upd)'
  BY <1>1, RetriesPool
<1>3. Same(p) /\ Same(Other(p)) /\ g \in Pool(p)
  BY SameProc DEF Pool
<1> QED BY <1>2, <1>3 DEF Quiet

\* A message that starts a decision finds none under way, or starts none.
LEMMA GotUpd ==
    ASSUME NEW b, IsBag(b), NEW gs, gs = {} \/ \E x : gs = {x}
    PROVE  /\ (\A h \in gs : h.do \notin Upd) => (SoloBag(b, Upd) => SoloBag(Plus(b, gs), Upd))
           /\ (\A h \in BagToSet(b) : h.do \notin Upd) => SoloBag(Plus(b, gs), Upd)
<1>1. Within(Plus(b, gs), b, gs)
  BY PlusWithin
<1>2. (\A h \in gs : h.do \notin Upd) => (SoloBag(b, Upd) => SoloBag(Plus(b, gs), Upd))
  BY <1>1, SoloKept
<1>3. ASSUME \A h \in BagToSet(b) : h.do \notin Upd  PROVE SoloBag(Plus(b, gs), Upd)
  <2>1. CASE gs = {}
    <3>1. SoloBag(b, Upd)
      BY <1>3 DEF SoloBag
    <3> QED BY <1>2, <2>1, <3>1
  <2>2. CASE \E x : gs = {x}
    BY <1>3, <2>2, SoloAdded
  <2> QED BY <2>1, <2>2
<1> QED BY <1>2, <1>3

LEMMA StartedOne ==
    ASSUME NEW q, NEW m, m.do \in Messages
    PROVE  Started(q, m) = {} \/ \E x : Started(q, m) = {x}
<1>1. CASE m.do = "ReEnc"
  BY <1>1 DEF Started
<1>2. CASE m.do = "HomoPubkey"
  BY <1>2 DEF Started
<1>3. CASE m.do = "PartBytes"
  BY <1>3 DEF Started
<1>4. CASE m.do = "EncGradCost"
  BY <1>4 DEF Started
<1>5. CASE m.do = "GradAndCost"
  BY <1>5 DEF Started
<1>6. CASE m.do = "Status"
  BY <1>6 DEF Started
<1> QED BY <1>1, <1>2, <1>3, <1>4, <1>5, <1>6 DEF Messages

LEMMA DeliverGot ==
    ASSUME TypeInv, NEW p \in Parties, NEW g \in BagToSet(go[p]), Deliver(p, g),
           InTime(Other(p), g)
    PROVE  Got(p, g)
<1> DEFINE q == Other(p)
<1>a. q \in Parties /\ q # p
  BY OtherParty
<1>0. g.do \in Messages /\ GoroutineOK(g) /\ IsBag(go[p])
  BY TypeFacts DEF Deliver, Calling
<1>b. IsBag(go[q])
  BY <1>a, TypeFacts
<1>1. UNCHANGED <<late, panicked>> /\ proc' = [proc EXCEPT ![q] = Received(q, g)]
  BY DEF Deliver
<1>2. proc'[q] = Received(q, g) /\ proc'[p] = proc[p]
  BY <1>1, <1>a DEF TypeInv
<1>3. /\ go'[p] = Replace(go[p], g, Answered(g))
      /\ go'[q] = Plus(go[q], Started(q, g))
      /\ Within(go'[p], go[p], Answered(g))
      /\ Within(go'[q], go[q], Started(q, g))
  BY DeliverGo
<1>4. Pool(p)' \subseteq Pool(p) \cup Answered(g) /\ Pool(q)' \subseteq Pool(q) \cup Started(q, g)
  BY <1>1, <1>3 DEF Within, Pool
<1>5. (\A h \in Answered(g) : h.do \notin Upd) => (Solo(p, Upd) => Solo(p, Upd)')
  BY <1>0, <1>3, UpdIsNotNew DEF Solo
<1>6. Started(q, g) = {} \/ \E x : Started(q, g) = {x}
  BY <1>0, StartedOne
<1>7. /\ (\A h \in Started(q, g) : h.do \notin Upd) => (Solo(q, Upd) => Solo(q, Upd)')
      /\ (\A h \in BagToSet(go[q]) : h.do \notin Upd) => Solo(q, Upd)'
  BY <1>b, <1>3, <1>6, GotUpd DEF Solo
<1>8. BagToSet(go[q]) \subseteq Pool(q)
  BY DEF Pool
<1>9. Same(p)
  BY <1>2, SameProc
<1>10. OnTime(q, g)
  BY DEF OnTime, Deliver
<1> QED BY <1>0, <1>1, <1>2, <1>4, <1>5, <1>7, <1>8, <1>9, <1>10 DEF Got, Grows

LEMMA LateOneOf ==
    ASSUME TypeInv, NEW p \in Parties, NEW g \in late[p], LateDelivery(p, g),
           InTime(Other(p), g)
    PROVE  Quiet(p) \/ Got(p, g)
<1> DEFINE q == Other(p)
<1>a. q \in Parties /\ q # p
  BY OtherParty
<1>0. g.do \in Messages /\ GoroutineOK(g)
  BY DEF TypeInv, GoInv, Pool
<1>b. IsBag(go[q])
  BY <1>a, TypeFacts
<1>1. UNCHANGED panicked /\ \A r \in Parties : late'[r] \subseteq late[r]
  BY DEF LateDelivery, TypeInv, GoInv
<1>2. CASE PartRefused(q, g)
  BY <1>1, <1>2, QuietNothing DEF LateDelivery
<1>3. CASE ~ PartRefused(q, g)
  <2>1. proc' = [proc EXCEPT ![q] = Received(q, g)]
    BY <1>3 DEF LateDelivery
  <2>2. proc'[q] = Received(q, g) /\ proc'[p] = proc[p]
    BY <2>1, <1>a DEF TypeInv
  <2>3. /\ go'[p] = go[p]
        /\ go'[q] = Plus(go[q], Started(q, g))
        /\ Within(go'[q], go[q], Started(q, g))
    BY <1>3, LateGo
  <2>4. Pool(p)' \subseteq Pool(p) /\ Pool(q)' \subseteq Pool(q) \cup Started(q, g)
    BY <1>1, <1>a, <2>3 DEF Within, Pool
  <2>5. Solo(p, Upd) => Solo(p, Upd)'
    BY <2>3 DEF Solo
  <2>6. Started(q, g) = {} \/ \E x : Started(q, g) = {x}
    BY <1>0, StartedOne
  <2>7. /\ (\A h \in Started(q, g) : h.do \notin Upd) => (Solo(q, Upd) => Solo(q, Upd)')
        /\ (\A h \in BagToSet(go[q]) : h.do \notin Upd) => Solo(q, Upd)'
    BY <1>b, <2>3, <2>6, GotUpd DEF Solo
  <2>8. BagToSet(go[q]) \subseteq Pool(q)
    BY DEF Pool
  <2>9. Same(p)
    BY <2>2, SameProc
  <2>10. OnTime(q, g)
    BY <1>3 DEF OnTime
  <2> QED BY <1>0, <1>1, <2>2, <2>4, <2>5, <2>7, <2>8, <2>9, <2>10 DEF Got, Grows
<1> QED BY <1>2, <1>3

LEMMA CallOneOf ==
    ASSUME TypeInv, NEW p \in Parties, NEW g \in BagToSet(go[p]),
           Deliver(p, g) \/ Refuse(p, g) \/ PeerDeleted(p, g) \/ NotYet(p, g) \/ TimeOut(p, g),
           Deliver(p, g) => InTime(Other(p), g)
    PROVE  Quiet(p) \/ Got(p, g)
<1>0. g.do \in Messages
  BY TypeFacts DEF Calling, Deliver, Refuse, PeerDeleted, NotYet, TimeOut
<1>1. CASE Refuse(p, g) \/ NotYet(p, g)
  BY <1>0, <1>1, QuietRetries DEF Refuse, NotYet
<1>2. CASE TimeOut(p, g)
  <2>1. (\A r \in Parties : r # p => late'[r] = late[r]) /\ late'[p] \subseteq late[p] \cup {g}
    BY <1>2 DEF TimeOut, TypeInv, GoInv
  <2> QED BY <1>0, <1>2, <2>1, QuietRetries DEF TimeOut
<1>3. CASE PeerDeleted(p, g)
  BY <1>3, SameProc, QuietEnds DEF PeerDeleted, Fails
<1> QED BY <1>1, <1>2, <1>3, DeliverGot

\* A learner that overtakes a handler is marked.
LEMMA MarkedInTime ==
    ASSUME TypeInv, faults \in Seq(FaultKinds), NEW p \in Parties, NEW g,
           loopRound[Other(p)] = proc[Other(p)].round, Marks(Other(p), g), ~ Overtook'
    PROVE  InTime(Other(p), g)
<1>1. ASSUME Overtaken(Other(p), g)  PROVE FALSE
  <2>1. faults' = Append(faults, "overtaken")
    BY <1>1 DEF Marks
  <2>2. /\ Len(faults) + 1 \in DOMAIN faults'
        /\ faults'[Len(faults) + 1] = "overtaken"
    BY <2>1
  <2> QED BY <2>2 DEF Overtook, Happened
<1> QED BY <1>1 DEF InTime

LEMMA NextOneOf ==
    ASSUME TypeInv, faults \in Seq(FaultKinds), [Next]_vars, ~ Overtook',
           \A r \in Parties : loopRound[r] = proc[r].round
    PROVE  \E p \in Parties : OneOf(p)
<1>1. CASE UNCHANGED vars
  <2>1. PICK p \in Parties : TRUE
    BY PartiesAssumption, FS_EmptySet
  <2>2. Quiet(p)
    BY <1>1, QuietNothing DEF vars
  <2> QED BY <2>2 DEF OneOf
<1>2. ASSUME NEW p \in Parties, DeleteLearner(p)  PROVE Quiet(p)
  BY <1>2, QuietNothing DEF DeleteLearner
<1>3. ASSUME NEW p \in Parties, NEW g \in BagToSet(go[p])
      PROVE  g \in Pool(p)
  BY DEF Pool
<1>4. ASSUME NEW p \in Parties, Step(p)  PROVE OneOf(p)
  <2>1. CASE NewLearner(p) \/ DeleteLearner(p)
    BY <1>2, <2>1, NewLearnerQuiet DEF OneOf
  <2>2. ASSUME NEW g \in BagToSet(go[p]),
               PsiEnc(p, g) \/ PsiIntersect(p, g) \/ TrainHup(p, g)
        PROVE  OneOf(p)
    BY <2>2, PsiQuiet DEF OneOf
  <2>3. ASSUME NEW g \in BagToSet(go[p]), TrainLoop(p, g)  PROVE OneOf(p)
    BY <1>3, <2>3, LoopOneOf DEF OneOf
  <2>4. ASSUME NEW g \in BagToSet(go[p]),
               CalLocalGradCost(p, g) \/ CalEncGradCost(p, g) \/ DecLocalGradCost(p, g)
                 \/ UpdCostGrad(p, g)
        PROVE  OneOf(p)
    BY <1>3, <2>4, CalcOneOf DEF OneOf
  <2>5. ASSUME NEW g \in BagToSet(go[p]),
               OtherRound(p, g) \/ CheckStatus(p, g) \/ TrainModels(p, g)
        PROVE  OneOf(p)
    BY <1>3, <2>5, EndOneOf DEF OneOf
  <2>6. ASSUME NEW g \in BagToSet(go[p]), Deliver(p, g) \/ Refuse(p, g) \/ PeerDeleted(p, g)
        PROVE  OneOf(p)
    <3>1. Deliver(p, g) => InTime(Other(p), g)
      BY MarkedInTime, OtherParty DEF Deliver
    <3> QED BY <1>3, <2>6, <3>1, CallOneOf DEF OneOf
  <2> QED BY <1>4, <2>1, <2>2, <2>3, <2>4, <2>5, <2>6 DEF Step
<1>5. ASSUME NEW p \in Parties, Fault(p)  PROVE OneOf(p)
  <2>1. ASSUME NEW g \in BagToSet(go[p]), NotYet(p, g) \/ TimeOut(p, g)  PROVE OneOf(p)
    <3>1. ~ Deliver(p, g) \/ InTime(Other(p), g)
      BY MarkedInTime, OtherParty DEF Deliver
    <3> QED BY <1>3, <2>1, <3>1, CallOneOf DEF OneOf
  <2>2. ASSUME NEW g \in BagToSet(go[p]),
               CalculationFails(p, g) \/ Suspend(p, g) \/ Hold(p, g)
        PROVE  OneOf(p)
    BY <1>3, <2>2, EndOneOf DEF OneOf
  <2>3. ASSUME NEW g \in late[p], LateDelivery(p, g)  PROVE OneOf(p)
    <3>1. g \in Pool(p)
      BY DEF Pool
    <3>2. InTime(Other(p), g)
      BY <2>3, MarkedInTime, OtherParty DEF LateDelivery
    <3> QED BY <2>3, <3>1, <3>2, LateOneOf DEF OneOf
  <2>4. ASSUME NEW g \in late[p], LateHold(p, g)  PROVE OneOf(p)
    BY <2>4, LateHoldQuiet DEF OneOf
  <2> QED BY <1>5, <2>1, <2>2, <2>3, <2>4 DEF Fault
<1> QED BY <1>1, <1>4, <1>5 DEF Next

-----------------------------------------------------------------------------
(***************************************************************************)
(* The parties stay together: what the eight steps do to two processes a   *)
(* and b, and to what is on its way between them.                          *)
(***************************************************************************)
LEMMA ProcessFacts ==
    ASSUME NEW a \in Processes
    PROVE  /\ a.round \in Nat /\ a.stopped \in 0..2 /\ a.otherStopped \in 0..2
           /\ a.noise \in BOOLEAN /\ a.rawPart \in BOOLEAN /\ a.pub \in BOOLEAN
           /\ a.part \in Rounds \cup {None} /\ a.nextPart \in Rounds \cup {None}
           /\ a.encFrom \in Rounds \cup {None} /\ a.gradFrom \in Rounds \cup {None}
<1>1. Rounds \subseteq Nat
  BY BoundAssumption DEF Rounds
<1> QED BY <1>1 DEF Processes

\* Process pr becomes qr, and nothing changes that Fits and Apart speak of.
Close(pr, qr) ==
    /\ qr.round = pr.round /\ (pr.rawPart => qr.rawPart) /\ qr.noise = pr.noise
    /\ qr.encFrom = pr.encFrom /\ qr.gradFrom = pr.gradFrom
    /\ qr.stopped = pr.stopped /\ qr.otherStopped = pr.otherStopped

LEMMA AlikeClose == ASSUME NEW a, NEW b, Alike(a, b)  PROVE Close(a, b)
BY DEF Alike, Close

LEMMA FitsClose ==
    ASSUME NEW a, NEW b, NEW c, NEW d, NEW g, Close(a, c), Close(b, d), Fits(a, b, g)
    PROVE  Fits(c, d, g)
BY DEF Fits, Close, decided, stop

LEMMA ApartClose ==
    ASSUME NEW a, NEW b, NEW c, NEW d, Close(a, c), Close(b, d), Apart(a, b)
    PROVE  Apart(c, d)
BY DEF Apart, Close, stop

\* The next round is entered.
LEMMA EntersNext ==
    ASSUME NEW a \in Processes, NEW b \in Processes, a.round + 1 \in Rounds,
           Apart(a, b), Apart(b, a), decided(a), ~ stop(a)
    PROVE  /\ Apart(upRound(a), b) /\ Apart(b, upRound(a))
           /\ \A h : GoroutineOK(h) /\ Fits(a, b, h) => Fits(upRound(a), b, h)
           /\ \A h : GoroutineOK(h) /\ Fits(b, a, h) => Fits(b, upRound(a), h)
<1> DEFINE c == upRound(a)
<1>1. /\ c.round = a.round + 1 /\ c.rawPart = FALSE /\ c.noise = FALSE /\ c.encFrom = None
      /\ c.gradFrom = None /\ c.stopped = 0 /\ c.otherStopped = 0
  BY upRoundOK
<1> HIDE DEF c
<1>2. /\ a.round \in Nat /\ b.round \in Nat /\ a.stopped \in 0..2 /\ a.otherStopped \in 0..2
      /\ b.stopped \in 0..2 /\ b.otherStopped \in 0..2
  BY ProcessFacts
<1>3. a.round <= b.round /\ (a.round = b.round => a.otherStopped = b.stopped)
  BY DEF Apart, decided
<1>4. b.round <= a.round + 1
  BY DEF Apart
<1>5. Apart(c, b)
  BY <1>1, <1>2, <1>4 DEF Apart
<1>6. Apart(b, c)
  <2>1. b.encFrom # None => b.round < c.round
    BY <1>1, <1>2 DEF Apart
  <2>2. b.otherStopped # 0 => b.round < c.round
    BY <1>1, <1>2 DEF Apart
  <2>3. c.round <= b.round + 1
    BY <1>1, <1>2, <1>3
  <2>4. c.round = b.round + 1 => b.stopped # 0 /\ ~ stop(b)
    BY <1>1, <1>2, <1>3 DEF Apart, decided, stop
  <2> QED BY <1>1, <1>2, <2>1, <2>2, <2>3, <2>4 DEF Apart
<1>7. ASSUME NEW h, GoroutineOK(h), Fits(a, b, h)  PROVE Fits(c, b, h)
  <2>1. h.round \in Nat
    BY <1>7, BoundAssumption DEF GoroutineOK
  <2>2. h.do # "UpdCostGrad" /\ h.do # "TrainModels"
    BY <1>7 DEF Fits, decided
  <2>3. h.round <= c.round
    BY <1>1, <1>2, <1>7, <2>1 DEF Fits
  <2>4. h.do # "TrainLoop" => h.round < c.round
    BY <1>1, <1>2, <1>7, <2>1 DEF Fits
  <2>5. ASSUME h.do = "Status", h.round = b.round, c.round = b.round + 1, b.stopped = 1
        PROVE  h.data # 1
    BY <1>1, <1>2, <1>3, <1>7, <2>5 DEF Fits, decided, stop
  <2> QED BY <1>1, <1>2, <1>7, <2>1, <2>2, <2>3, <2>4, <2>5 DEF Fits
<1>8. ASSUME NEW h, GoroutineOK(h), Fits(b, a, h)  PROVE Fits(b, c, h)
  <2>1. h.round \in Nat
    BY <1>8, BoundAssumption DEF GoroutineOK
  <2>2. h.do = "GradAndCost" => h.round < c.round
    BY <1>1, <1>2, <1>8, <2>1 DEF Fits
  <2>3. b.round # c.round + 1
    BY <1>1, <1>2, <1>4
  <2> QED BY <1>1, <1>2, <1>8, <2>1, <2>2, <2>3 DEF Fits
<1> QED BY <1>5, <1>6, <1>7, <1>8 DEF c

LEMMA GoroutineFacts ==
    ASSUME NEW h, GoroutineOK(h)
    PROVE  h.round \in Nat /\ (h.do = "Status" => h.data \in {1, 2})
BY BoundAssumption DEF GoroutineOK

\* The gradient is encrypted.
LEMMA EncsNext ==
    ASSUME NEW a \in Processes, NEW b \in Processes, EncReady(a), Apart(a, b), Apart(b, a),
           NEW c, c = [a EXCEPT !.noise = TRUE]
    PROVE  /\ c.round = a.round /\ c.noise
           /\ Apart(c, b) /\ Apart(b, c)
           /\ \A h : Fits(a, b, h) => Fits(c, b, h)
           /\ \A h : Fits(b, a, h) => Fits(b, c, h)
<1>1. /\ c.round = a.round /\ c.rawPart = a.rawPart /\ c.noise = TRUE /\ c.encFrom = a.encFrom
      /\ c.gradFrom = a.gradFrom /\ c.stopped = a.stopped /\ c.otherStopped = a.otherStopped
  BY DEF Processes
<1>2. a.rawPart
  BY DEF EncReady
<1>3. Apart(c, b) /\ Apart(b, c)
  BY <1>1, <1>2 DEF Apart, stop
<1>4. \A h : Fits(a, b, h) => Fits(c, b, h)
  BY <1>1 DEF Fits, decided, stop
<1>5. \A h : Fits(b, a, h) => Fits(b, c, h)
  BY <1>1 DEF Fits, decided, stop
<1> QED BY <1>1, <1>3, <1>4, <1>5

\* The party decides.
LEMMA UpdsNext ==
    ASSUME NEW a \in Processes, NEW b \in Processes, Apart(a, b), Apart(b, a),
           NEW g, GoroutineOK(g), g.do = "UpdCostGrad", Fits(a, b, g),
           NEW s \in IF a.stopped # 0 THEN {a.stopped} ELSE StopTraining(a.round),
           NEW c, c = [a EXCEPT !.stopped = s]
    PROVE  /\ Apart(c, b) /\ Apart(b, c)
           /\ \A h : GoroutineOK(h) /\ h.do # "UpdCostGrad" /\ Fits(a, b, h) => Fits(c, b, h)
           /\ \A h : GoroutineOK(h) /\ Fits(b, a, h) => Fits(b, c, h)
           /\ Fits(c, b, Call("Status", g.round, s))
           /\ a.stopped = 0 /\ a.gradFrom # None /\ a.noise
<1>1. /\ c.round = a.round /\ c.rawPart = a.rawPart /\ c.noise = a.noise /\ c.encFrom = a.encFrom
      /\ c.gradFrom = a.gradFrom /\ c.stopped = s /\ c.otherStopped = a.otherStopped
  BY DEF Processes
<1>2. /\ a.round \in Nat /\ b.round \in Nat /\ a.stopped \in 0..2 /\ a.otherStopped \in 0..2
      /\ b.stopped \in 0..2 /\ b.otherStopped \in 0..2
  BY ProcessFacts
<1>3. g.round = a.round /\ a.stopped = 0 /\ a.gradFrom # None /\ a.noise
  BY DEF Fits
<1>4. s \in {1, 2} /\ (s = 1 => a.round > 0)
  BY <1>2, <1>3 DEF StopTraining
<1>5. b.round <= a.round
  BY <1>2, <1>3 DEF Apart
<1>6. Apart(c, b)
  BY <1>1, <1>2, <1>3, <1>4, <1>5 DEF Apart
<1>7. Apart(b, c)
  <2>1. b.otherStopped # 0 => b.round # a.round
    BY <1>2, <1>3 DEF Apart
  <2> QED BY <1>1, <1>2, <2>1 DEF Apart
<1>8. ASSUME NEW h, GoroutineOK(h), h.do # "UpdCostGrad", Fits(a, b, h)  PROVE Fits(c, b, h)
  <2>1. h.round \in Nat /\ (h.do = "Status" => h.data \in {1, 2})
    BY <1>8, GoroutineFacts
  <2>2. h.do = "Status" => h.round # a.round
    BY <1>3, <1>8, <2>1 DEF Fits
  <2>3. h.do = "TrainLoop" => h.round <= a.round
    BY <1>3, <1>8 DEF Fits, decided
  <2>4. h.do # "TrainModels"
    BY <1>3, <1>8 DEF Fits, stop
  <2> QED BY <1>1, <1>8, <2>2, <2>3, <2>4 DEF Fits
<1>9. ASSUME NEW h, GoroutineOK(h), Fits(b, a, h)  PROVE Fits(b, c, h)
  <2>1. b.round # a.round + 1
    BY <1>2, <1>5
  <2> QED BY <1>1, <1>9, <2>1 DEF Fits
<1>10. Fits(c, b, Call("Status", g.round, s))
  <2>1. PICK x : x = Call("Status", g.round, s)
    OBVIOUS
  <2>2. x.do = "Status" /\ x.round = g.round /\ x.data = s
    BY <2>1 DEF Call
  <2>3. Fits(c, b, x)
    BY <1>1, <1>2, <1>3, <1>4, <2>2 DEF Fits
  <2> QED BY <2>1, <2>3
<1> QED BY <1>3, <1>6, <1>7, <1>8, <1>9, <1>10

\* A message m of the party with process a reaches the one with process b.
LEMMA EncGotNext ==
    ASSUME NEW a \in Processes, NEW b \in Processes, Apart(a, b), Apart(b, a),
           NEW m, GoroutineOK(m), m.do = "EncGradCost", Fits(a, b, m), m.round = b.round,
           NEW c, c = [b EXCEPT !.encFrom = m.data]
    PROVE  /\ Apart(a, c) /\ Apart(c, a)
           /\ \A h : Fits(a, b, h) => Fits(a, c, h)
           /\ \A h : Fits(b, a, h) => Fits(c, a, h)
<1>1. /\ c.round = b.round /\ c.rawPart = b.rawPart /\ c.noise = b.noise
      /\ c.gradFrom = b.gradFrom /\ c.stopped = b.stopped /\ c.otherStopped = b.otherStopped
  BY DEF Processes
<1>2. b.round <= a.round /\ (b.round = a.round => a.noise)
  BY DEF Fits
<1>3. Apart(c, a)
  BY <1>1, <1>2 DEF Apart, stop
<1>4. Apart(a, c)
  BY <1>1 DEF Apart
<1>5. \A h : Fits(a, b, h) => Fits(a, c, h)
  BY <1>1 DEF Fits
<1>6. \A h : Fits(b, a, h) => Fits(c, a, h)
  BY <1>1 DEF Fits, decided, stop
<1> QED BY <1>3, <1>4, <1>5, <1>6

LEMMA GradGotNext ==
    ASSUME NEW a \in Processes, NEW b \in Processes, Apart(a, b), Apart(b, a),
           NEW m, GoroutineOK(m), m.do = "GradAndCost", Fits(a, b, m), m.round = b.round,
           b.gradFrom = None,
           NEW c, c = [b EXCEPT !.gradFrom = m.data]
    PROVE  /\ Apart(a, c) /\ Apart(c, a)
           /\ \A h : Fits(a, b, h) => Fits(a, c, h)
           /\ \A h : Fits(b, a, h) => h.do # "UpdCostGrad" /\ Fits(c, a, h)
           /\ \A h : h.do = "UpdCostGrad" /\ h.round = m.round => Fits(c, a, h)
<1>1. /\ c.round = b.round /\ c.rawPart = b.rawPart /\ c.noise = b.noise /\ c.encFrom = b.encFrom
      /\ c.stopped = b.stopped /\ c.otherStopped = b.otherStopped /\ c.gradFrom = m.data
  BY DEF Processes
<1>2. m.data # None /\ b.round \in Nat
  BY ProcessFacts, BoundAssumption DEF GoroutineOK, Rounds, None
<1>3. b.noise
  BY DEF Fits
<1>4. b.stopped = 0
  BY DEF Apart
<1>5. Apart(c, a)
  BY <1>1, <1>4 DEF Apart, stop
<1>6. Apart(a, c)
  BY <1>1 DEF Apart
<1>7. \A h : Fits(a, b, h) => Fits(a, c, h)
  BY <1>1 DEF Fits
<1>8. \A h : Fits(b, a, h) => h.do # "UpdCostGrad" /\ Fits(c, a, h)
  BY <1>1 DEF Fits, decided, stop
<1>9. \A h : h.do = "UpdCostGrad" /\ h.round = m.round => Fits(c, a, h)
  BY <1>1, <1>2, <1>3, <1>4 DEF Fits
<1> QED BY <1>5, <1>6, <1>7, <1>8, <1>9

LEMMA StatusGotNext ==
    ASSUME NEW a \in Processes, NEW b \in Processes, Apart(a, b), Apart(b, a),
           NEW m, GoroutineOK(m), m.do = "Status", Fits(a, b, m), m.round = b.round,
           b.otherStopped = 0,
           NEW c, c = [b EXCEPT !.otherStopped = m.data]
    PROVE  /\ Apart(a, c) /\ Apart(c, a)
           /\ \A h : Fits(a, b, h) => Fits(a, c, h)
           /\ \A h : Fits(b, a, h) => Fits(c, a, h)
<1>1. /\ c.round = b.round /\ c.rawPart = b.rawPart /\ c.noise = b.noise /\ c.encFrom = b.encFrom
      /\ c.gradFrom = b.gradFrom /\ c.stopped = b.stopped /\ c.otherStopped = m.data
  BY DEF Processes
<1>2. b.round <= a.round /\ (b.round = a.round => m.data = a.stopped)
  BY DEF Fits
<1>3. a.round = b.round + 1 /\ b.stopped = 1 => m.data # 1
  BY DEF Fits
<1>4. Apart(c, a)
  BY <1>1, <1>2, <1>3 DEF Apart, stop
<1>5. Apart(a, c)
  BY <1>1 DEF Apart
<1>6. \A h : Fits(a, b, h) => Fits(a, c, h)
  BY <1>1 DEF Fits
<1>7. \A h : Fits(b, a, h) => Fits(c, a, h)
  BY <1>1 DEF Fits, decided, stop
<1> QED BY <1>4, <1>5, <1>6, <1>7

RoundPre == TypeInv /\ \A r \in Parties : loopRound[r] = proc[r].round /\ RoundInv(r)

\* The invariant of both parties, seen from p.
LEMMA RoundBoth ==
    ASSUME RoundPre, NEW p \in Parties
    PROVE  /\ Other(p) \in Parties /\ Other(p) # p
           /\ proc[p] \in Processes /\ proc[Other(p)] \in Processes
           /\ loopRound[p] = proc[p].round /\ loopRound[Other(p)] = proc[Other(p)].round
           /\ proc[p].round \in Nat /\ proc[Other(p)].round \in Nat
           /\ Apart(proc[p], proc[Other(p)]) /\ Apart(proc[Other(p)], proc[p])
           /\ \A h \in Pool(p) : GoroutineOK(h) /\ Fits(proc[p], proc[Other(p)], h)
           /\ \A h \in Pool(Other(p)) : GoroutineOK(h) /\ Fits(proc[Other(p)], proc[p], h)
           /\ Solo(p, Upd) /\ Solo(Other(p), Upd)
<1>1. Other(p) \in Parties /\ Other(p) # p /\ Other(Other(p)) = p
  BY OtherParty
<1>2. TypeInv /\ \A r \in Parties : loopRound[r] = proc[r].round /\ RoundInv(r)
  BY DEF RoundPre
<1>3. \A r \in Parties : proc[r] \in Processes /\ proc[r].round \in Nat
  BY <1>2, TypeFacts
<1>4. \A r \in Parties : \A h \in Pool(r) : GoroutineOK(h)
  BY <1>2, TypeFacts
<1> QED BY <1>1, <1>2, <1>3, <1>4 DEF RoundInv

LEMMA RoundBothNext ==
    ASSUME NEW p \in Parties,
           Apart(proc'[p], proc'[Other(p)]), Apart(proc'[Other(p)], proc'[p]),
           \A h \in Pool(p)' : Fits(proc'[p], proc'[Other(p)], h),
           \A h \in Pool(Other(p))' : Fits(proc'[Other(p)], proc'[p], h),
           Solo(p, Upd)', Solo(Other(p), Upd)'
    PROVE  \A r \in Parties : RoundInv(r)'
<1>1. Other(Other(p)) = p /\ \A r \in Parties : r = p \/ r = Other(p)
  BY OtherParty
<1>2. RoundInv(p)'
  BY DEF RoundInv
<1>3. RoundInv(Other(p))'
  BY <1>1 DEF RoundInv
<1> QED BY <1>1, <1>2, <1>3

\* The processes change in nothing that matters; what is new at p fits.
LEMMA RoundClose ==
    ASSUME RoundPre, NEW p \in Parties,
           Close(proc[p], proc'[p]), Close(proc[Other(p)], proc'[Other(p)]),
           Idle(Other(p)),
           \A h \in Pool(p)' : h \in Pool(p) \/ Fits(proc[p], proc[Other(p)], h),
           Solo(p, Upd) => Solo(p, Upd)'
    PROVE  \A r \in Parties : RoundInv(r)'
<1>1. /\ Apart(proc[p], proc[Other(p)]) /\ Apart(proc[Other(p)], proc[p])
      /\ \A h \in Pool(p) : Fits(proc[p], proc[Other(p)], h)
      /\ \A h \in Pool(Other(p)) : Fits(proc[Other(p)], proc[p], h)
      /\ Solo(p, Upd) /\ Solo(Other(p), Upd)
  BY RoundBoth
<1>2. Apart(proc'[p], proc'[Other(p)]) /\ Apart(proc'[Other(p)], proc'[p])
  BY <1>1, ApartClose
<1>3. \A h \in Pool(p)' : Fits(proc'[p], proc'[Other(p)], h)
  BY <1>1, FitsClose
<1>4. \A h \in Pool(Other(p))' : Fits(proc'[Other(p)], proc'[p], h)
  <2>1. Pool(Other(p))' \subseteq Pool(Other(p))
    BY DEF Idle
  <2> QED BY <1>1, <2>1, FitsClose
<1>5. Solo(p, Upd)' /\ Solo(Other(p), Upd)'
  BY <1>1 DEF Idle
<1> QED BY <1>2, <1>3, <1>4, <1>5, RoundBothNext

LEMMA RoundQuiet ==
    ASSUME RoundPre, NEW p \in Parties, Quiet(p)
    PROVE  \A r \in Parties : RoundInv(r)'
<1>1. /\ loopRound[p] = proc[p].round /\ proc[p].round \in Nat
      /\ \A h \in Pool(p) : Fits(proc[p], proc[Other(p)], h)
  BY RoundBoth
<1>2. Close(proc[p], proc'[p]) /\ Close(proc[Other(p)], proc'[Other(p)])
  BY AlikeClose DEF Quiet, Same
<1>3. ASSUME NEW h, h.do \in Early, h.round <= loopRound[p]
      PROVE  Fits(proc[p], proc[Other(p)], h)
  BY <1>1, <1>3 DEF Early, Fits
<1>4. ASSUME NEW h, NEW g \in Pool(p), Copy(p, h, g)
      PROVE  Fits(proc[p], proc[Other(p)], h)
  <2>1. Fits(proc[p], proc[Other(p)], g)
    BY <1>1
  <2>2. CASE h.do = "CalLocalGradCost" /\ h.round = loopRound[p]
    BY <1>1, <2>2 DEF Fits
  <2>3. CASE h.round = g.round
    BY <1>4, <2>1, <2>3 DEF Fits, Copy
  <2> QED BY <1>4, <2>2, <2>3 DEF Copy
<1>5. \A h \in Pool(p)' : h \in Pool(p) \/ Fits(proc[p], proc[Other(p)], h)
  BY <1>3, <1>4 DEF Quiet
<1> QED BY <1>2, <1>5, RoundClose DEF Quiet

LEMMA RoundEntered ==
    ASSUME RoundPre, TypeInv', NEW p \in Parties, NEW g \in Pool(p), Entered(p, g)
    PROVE  \A r \in Parties : RoundInv(r)'
<1>1. /\ proc[p] \in Processes /\ proc[Other(p)] \in Processes
      /\ proc[p].round \in Nat
      /\ Apart(proc[p], proc[Other(p)]) /\ Apart(proc[Other(p)], proc[p])
      /\ \A h \in Pool(p) : GoroutineOK(h) /\ Fits(proc[p], proc[Other(p)], h)
      /\ \A h \in Pool(Other(p)) : GoroutineOK(h) /\ Fits(proc[Other(p)], proc[p], h)
      /\ Solo(p, Upd) /\ Solo(Other(p), Upd)
  BY RoundBoth
<1>2. PICK x : x = Local("CalLocalGradCost", 0)
  OBVIOUS
<1>3. x.do = "CalLocalGradCost" /\ x.round = 0
  BY <1>2 DEF Local
<1>4. Grows(p, {x})
  BY <1>2 DEF Entered
<1>5. Pool(p)' \subseteq Pool(p) \cup {x} /\ Solo(p, Upd)'
  BY <1>1, <1>3, <1>4 DEF Grows, Upd
<1>6. Close(proc[Other(p)], proc'[Other(p)]) /\ Idle(Other(p))
  BY AlikeClose DEF Entered, Same
<1>7. CASE Same(p)
  <2>1. Close(proc[p], proc'[p])
    BY <1>7, AlikeClose DEF Same
  <2>2. Fits(proc[p], proc[Other(p)], x)
    BY <1>1, <1>3 DEF Fits
  <2> QED BY <1>5, <1>6, <2>1, <2>2, RoundClose
<1>8. CASE g.round = proc[p].round + 1 /\ proc'[p] = upRound(proc[p])
  <2>1. decided(proc[p]) /\ ~ stop(proc[p])
    BY <1>1, <1>8 DEF Fits, Entered
  <2>2. proc'[p].round \in Rounds /\ proc'[p].round \in Nat
    BY DEF TypeInv, Processes, Rounds
  <2>3. proc[p].round + 1 \in Rounds
    <3>1. upRound(proc[p]).round = proc[p].round + 1
      BY DEF upRound, NewProcess
    <3> QED BY <1>8, <2>2, <3>1
  <2>4. /\ Apart(upRound(proc[p]), proc[Other(p)]) /\ Apart(proc[Other(p)], upRound(proc[p]))
        /\ \A h : GoroutineOK(h) /\ Fits(proc[p], proc[Other(p)], h) => Fits(upRound(proc[p]), proc[Other(p)], h)
        /\ \A h : GoroutineOK(h) /\ Fits(proc[Other(p)], proc[p], h) => Fits(proc[Other(p)], upRound(proc[p]), h)
    BY <1>1, <2>1, <2>3, EntersNext
  <2>5. Close(proc'[p], proc'[p])
    BY DEF Close
  <2>6. Apart(proc'[p], proc'[Other(p)]) /\ Apart(proc'[Other(p)], proc'[p])
    BY <1>6, <1>8, <2>4, <2>5, ApartClose
  <2>7. \A h \in Pool(p)' : Fits(proc'[p], proc'[Other(p)], h)
    <3>1. Fits(proc'[p], proc'[Other(p)], x)
      BY <1>3, <2>2 DEF Fits
    <3>2. \A h \in Pool(p) : Fits(proc'[p], proc[Other(p)], h)
      BY <1>1, <1>8, <2>4
    <3>3. \A h \in Pool(p) : Fits(proc'[p], proc'[Other(p)], h)
      BY <1>6, <2>5, <3>2, FitsClose
    <3> QED BY <1>5, <3>1, <3>3
  <2>8. \A h \in Pool(Other(p))' : Fits(proc'[Other(p)], proc'[p], h)
    <3>1. \A h \in Pool(Other(p)) : Fits(proc[Other(p)], proc'[p], h)
      BY <1>1, <1>8, <2>4
    <3>2. \A h \in Pool(Other(p)) : Fits(proc'[Other(p)], proc'[p], h)
      BY <1>6, <2>5, <3>1, FitsClose
    <3> QED BY <1>6, <3>2 DEF Idle
  <2> QED BY <1>1, <1>5, <1>6, <2>6, <2>7, <2>8, RoundBothNext DEF Idle
<1> QED BY <1>7, <1>8 DEF Entered

LEMMA RoundLocal ==
    ASSUME RoundPre, NEW p \in Parties, NEW g \in Pool(p), LocalDone(p, g)
    PROVE  \A r \in Parties : RoundInv(r)'
<1>1. /\ proc[p] \in Processes /\ loopRound[p] = proc[p].round /\ proc[p].round \in Nat
      /\ \A h \in Pool(p) : Fits(proc[p], proc[Other(p)], h)
  BY RoundBoth
<1>2. RoundOf(p, g) <= proc[p].round
  BY <1>1 DEF LocalDone, InRound, RoundOf, Fits
<1>3. PICK x : x = Call("PartBytes", RoundOf(p, g), proc[p].round)
  OBVIOUS
<1>4. x.do = "PartBytes" /\ x.round = RoundOf(p, g)
  BY <1>3 DEF Call
<1>5. Grows(p, {x})
  BY <1>3 DEF LocalDone
<1>6. Pool(p)' \subseteq Pool(p) \cup {x} /\ (Solo(p, Upd) => Solo(p, Upd)')
  BY <1>4, <1>5 DEF Grows, Upd
<1>7. Close(proc[Other(p)], proc'[Other(p)]) /\ Idle(Other(p))
  BY AlikeClose DEF LocalDone, Same
<1>8. Close(proc[p], proc'[p])
  BY <1>1 DEF LocalDone, Close, Processes
<1>9. Fits(proc[p], proc[Other(p)], x)
  BY <1>2, <1>4 DEF Fits
<1> QED BY <1>6, <1>7, <1>8, <1>9, RoundClose

LEMMA RoundEnc ==
    ASSUME RoundPre, NEW p \in Parties, NEW g \in Pool(p), EncDone(p, g)
    PROVE  \A r \in Parties : RoundInv(r)'
<1>1. /\ proc[p] \in Processes /\ proc[Other(p)] \in Processes
      /\ proc[p].round \in Nat
      /\ Apart(proc[p], proc[Other(p)]) /\ Apart(proc[Other(p)], proc[p])
      /\ \A h \in Pool(p) : Fits(proc[p], proc[Other(p)], h)
      /\ \A h \in Pool(Other(p)) : Fits(proc[Other(p)], proc[p], h)
      /\ Solo(p, Upd) /\ Solo(Other(p), Upd)
  BY RoundBoth
<1>2. PICK x : x = Call("EncGradCost", g.round, proc[p].round)
  OBVIOUS
<1>3. x.do = "EncGradCost" /\ x.round = g.round
  BY <1>2 DEF Call
<1>4. Grows(p, {x})
  BY <1>2 DEF EncDone
<1>5. Pool(p)' \subseteq Pool(p) \cup {x} /\ Solo(p, Upd)'
  BY <1>1, <1>3, <1>4 DEF Grows, Upd
<1>6. Close(proc[Other(p)], proc'[Other(p)]) /\ Idle(Other(p)) /\ Close(proc'[p], proc'[p])
  BY AlikeClose DEF EncDone, Same, Close
<1>7. /\ proc'[p].round = proc[p].round /\ proc'[p].noise
      /\ Apart(proc'[p], proc[Other(p)]) /\ Apart(proc[Other(p)], proc'[p])
      /\ \A h : Fits(proc[p], proc[Other(p)], h) => Fits(proc'[p], proc[Other(p)], h)
      /\ \A h : Fits(proc[Other(p)], proc[p], h) => Fits(proc[Other(p)], proc'[p], h)
  BY <1>1, EncsNext DEF EncDone
<1>8. Apart(proc'[p], proc'[Other(p)]) /\ Apart(proc'[Other(p)], proc'[p])
  BY <1>6, <1>7, ApartClose
<1>9. \A h \in Pool(p)' : Fits(proc'[p], proc'[Other(p)], h)
  <2>1. g.round <= proc[p].round
    BY <1>1 DEF EncDone, Fits
  <2>2. Fits(proc'[p], proc'[Other(p)], x)
    BY <1>3, <1>7, <2>1 DEF Fits
  <2>3. \A h \in Pool(p) : Fits(proc'[p], proc'[Other(p)], h)
    BY <1>1, <1>6, <1>7, FitsClose
  <2> QED BY <1>5, <2>2, <2>3
<1>10. \A h \in Pool(Other(p))' : Fits(proc'[Other(p)], proc'[p], h)
  <2>1. \A h \in Pool(Other(p)) : Fits(proc'[Other(p)], proc'[p], h)
    BY <1>1, <1>6, <1>7, FitsClose
  <2> QED BY <1>6, <2>1 DEF Idle
<1> QED BY <1>1, <1>5, <1>6, <1>8, <1>9, <1>10, RoundBothNext DEF Idle

LEMMA RoundDec ==
    ASSUME RoundPre, NEW p \in Parties, NEW g \in Pool(p), DecDone(p, g)
    PROVE  \A r \in Parties : RoundInv(r)'
<1>1. /\ Apart(proc[p], proc[Other(p)])
      /\ proc[p].round \in Nat /\ proc[Other(p)].round \in Nat
      /\ \A h \in Pool(p) : GoroutineOK(h) /\ Fits(proc[p], proc[Other(p)], h)
  BY RoundBoth
<1>2. PICK x : x = Call("GradAndCost", g.round, proc[p].encFrom)
  OBVIOUS
<1>3. x.do = "GradAndCost" /\ x.round = g.round
  BY <1>2 DEF Call
<1>4. Grows(p, {x})
  BY <1>2 DEF DecDone
<1>5. Pool(p)' \subseteq Pool(p) \cup {x} /\ (Solo(p, Upd) => Solo(p, Upd)')
  BY <1>3, <1>4 DEF Grows, Upd
<1>6. /\ Close(proc[Other(p)], proc'[Other(p)]) /\ Idle(Other(p))
      /\ Close(proc[p], proc'[p])
  BY AlikeClose DEF DecDone, Same
<1>7. /\ proc[p].round <= proc[Other(p)].round
      /\ proc[p].round = proc[Other(p)].round => proc[Other(p)].noise
  BY <1>1 DEF DecDone, Apart
<1>8. g.round \in Nat /\ g.round <= proc[p].round
  BY <1>1, GoroutineFacts DEF DecDone, Fits
<1>9. Fits(proc[p], proc[Other(p)], x)
  BY <1>1, <1>3, <1>7, <1>8 DEF Fits
<1> QED BY <1>5, <1>6, <1>9, RoundClose

LEMMA RoundUpd ==
    ASSUME RoundPre, TypeInv', NEW p \in Parties, NEW g \in Pool(p), NEW s, UpdDone(p, g, s)
    PROVE  /\ \A r \in Parties : RoundInv(r)'
           /\ ~ panicked => ~ panicked'
<1>1. /\ proc[p] \in Processes /\ proc[Other(p)] \in Processes
      /\ proc[p].round \in Nat
      /\ Apart(proc[p], proc[Other(p)]) /\ Apart(proc[Other(p)], proc[p])
      /\ \A h \in Pool(p) : GoroutineOK(h) /\ Fits(proc[p], proc[Other(p)], h)
      /\ \A h \in Pool(Other(p)) : GoroutineOK(h) /\ Fits(proc[Other(p)], proc[p], h)
      /\ Solo(p, Upd) /\ Solo(Other(p), Upd)
  BY RoundBoth
<1>2. Pool(p)' \subseteq Pool(p) \cup {Call("Status", g.round, s)} /\ \A h \in Pool(p)' : h.do \notin Upd
  BY <1>1 DEF UpdDone
<1>3. Close(proc[Other(p)], proc'[Other(p)]) /\ Idle(Other(p)) /\ Close(proc'[p], proc'[p])
  BY AlikeClose DEF UpdDone, Same, Close
<1>4. /\ Apart(proc'[p], proc[Other(p)]) /\ Apart(proc[Other(p)], proc'[p])
      /\ \A h : GoroutineOK(h) /\ h.do # "UpdCostGrad" /\ Fits(proc[p], proc[Other(p)], h)
                  => Fits(proc'[p], proc[Other(p)], h)
      /\ \A h : GoroutineOK(h) /\ Fits(proc[Other(p)], proc[p], h) => Fits(proc[Other(p)], proc'[p], h)
      /\ Fits(proc'[p], proc[Other(p)], Call("Status", g.round, s))
      /\ proc[p].stopped = 0 /\ proc[p].gradFrom # None /\ proc[p].noise
  BY <1>1, UpdsNext DEF UpdDone
<1>5. Apart(proc'[p], proc'[Other(p)]) /\ Apart(proc'[Other(p)], proc'[p])
  BY <1>3, <1>4, ApartClose
<1>6. \A h \in Pool(p)' : Fits(proc'[p], proc'[Other(p)], h)
  <2>1. \A h \in Pool(p)' : Fits(proc'[p], proc[Other(p)], h)
    BY <1>1, <1>2, <1>4 DEF Upd
  <2> QED BY <1>3, <2>1, FitsClose
<1>7. \A h \in Pool(Other(p))' : Fits(proc'[Other(p)], proc'[p], h)
  <2>1. \A h \in Pool(Other(p)) : Fits(proc'[Other(p)], proc'[p], h)
    BY <1>1, <1>3, <1>4, FitsClose
  <2> QED BY <1>3, <2>1 DEF Idle
<1>8. Solo(p, Upd)'
  BY <1>2 DEF Solo, SoloBag, Pool
<1>9. panicked' = (panicked \/ (proc[p].stopped = 0 /\ ~ (proc[p].gradFrom # None /\ proc[p].noise)))
  BY DEF UpdDone
<1>10. ~ panicked => ~ panicked'
  BY <1>4, <1>9
<1>11. \A r \in Parties : RoundInv(r)'
  BY <1>1, <1>3, <1>5, <1>6, <1>7, <1>8, RoundBothNext DEF Idle
<1> QED BY <1>10, <1>11

LEMMA RoundStatus ==
    ASSUME RoundPre, NEW p \in Parties, NEW g \in Pool(p), StatusDone(p, g)
    PROVE  \A r \in Parties : RoundInv(r)'
<1>1. /\ proc[p].round \in Nat
      /\ \A h \in Pool(p) : GoroutineOK(h) /\ Fits(proc[p], proc[Other(p)], h)
  BY RoundBoth
<1>2. g.round \in Nat /\ g.round <= proc[p].round
  BY <1>1, GoroutineFacts DEF StatusDone, Fits
<1>3. PICK x : /\ x = IF stop(proc[p]) THEN Local("TrainModels", g.round) ELSE Local("TrainLoop", g.round + 1)
  OBVIOUS
<1>4. \/ stop(proc[p]) /\ x.do = "TrainModels" /\ x.round = g.round
      \/ ~ stop(proc[p]) /\ x.do = "TrainLoop" /\ x.round = g.round + 1
  BY <1>3 DEF Local
<1>5. Grows(p, {x})
  BY <1>3 DEF StatusDone
<1>6. Pool(p)' \subseteq Pool(p) \cup {x} /\ (Solo(p, Upd) => Solo(p, Upd)')
  BY <1>4, <1>5 DEF Grows, Upd
<1>7. /\ Close(proc[Other(p)], proc'[Other(p)]) /\ Idle(Other(p))
      /\ Close(proc[p], proc'[p])
  BY AlikeClose DEF StatusDone, Same
<1>8. Fits(proc[p], proc[Other(p)], x)
  BY <1>1, <1>2, <1>4 DEF Fits, StatusDone
<1> QED BY <1>6, <1>7, <1>8, RoundClose

LEMMA RoundGot ==
    ASSUME RoundPre, TypeInv', NEW p \in Parties, NEW g \in Pool(p), Got(p, g)
    PROVE  \A r \in Parties : RoundInv(r)'
<1> DEFINE q == Other(p)
<1>1. /\ proc[p] \in Processes /\ proc[q] \in Processes /\ q \in Parties
      /\ loopRound[q] = proc[q].round
      /\ proc[p].round \in Nat /\ proc[q].round \in Nat
      /\ Apart(proc[p], proc[q]) /\ Apart(proc[q], proc[p])
      /\ \A h \in Pool(p) : GoroutineOK(h) /\ Fits(proc[p], proc[q], h)
      /\ \A h \in Pool(q) : GoroutineOK(h) /\ Fits(proc[q], proc[p], h)
      /\ Solo(p, Upd) /\ Solo(q, Upd)
  BY RoundBoth
<1>t. TypeInv /\ OnTime(q, g) /\ ~ Overtaken(q, g)
  BY DEF RoundPre, Got, OnTime, InTime
<1>2. GoroutineOK(g) /\ g.do \in Messages /\ Fits(proc[p], proc[q], g) /\ g.round \in Nat
  BY <1>1, GoroutineFacts DEF Got
<1>3. /\ proc'[q] = Received(q, g) /\ Same(p)
      /\ Pool(p)' \subseteq Pool(p) \cup Answered(g)
      /\ Pool(q)' \subseteq Pool(q) \cup Started(q, g)
      /\ (\A h \in Answered(g) : h.do \notin Upd) => (Solo(p, Upd) => Solo(p, Upd)')
      /\ (\A h \in Started(q, g) : h.do \notin Upd) => (Solo(q, Upd) => Solo(q, Upd)')
      /\ (\A h \in Pool(q) : h.do \notin Upd) => Solo(q, Upd)'
  BY DEF Got, Grows
<1>4. Close(proc[p], proc'[p]) /\ Close(proc'[q], proc'[q])
  BY <1>3, AlikeClose DEF Same, Close
<1>5. g.round <= proc[p].round
  BY <1>2 DEF Fits, Messages
<1>6. \A h \in Answered(g) : /\ h.do \notin Upd
                             /\ h.do \in {"Intersect", "TrainLoop", "CalEncGradCost", "CheckStatus"}
                             /\ h.round <= proc[p].round
  <2> TAKE h \in Answered(g)
  <2>1. \/ h = Local("Intersect", 0)
        \/ h = Local("TrainLoop", 0)
        \/ h.do = "CalEncGradCost" /\ h.round = g.round
        \/ h.do = "CheckStatus" /\ h.round = g.round
    BY <1>t, <1>1, <1>2, StartedOK
  <2> QED BY <1>1, <1>5, <2>1 DEF Local, Upd
<1>7. Solo(p, Upd)'
  BY <1>1, <1>3, <1>6
<1>8. \A h \in Started(q, g) :
         \/ h.do = "Intersect" /\ h.round = 0
         \/ h.do \in {"CalEncGradCost", "DecLocalGradCost", "CheckStatus"} /\ h.round = proc[q].round
         \/ g.do = "GradAndCost" /\ g.round = proc[q].round /\ h.do = "UpdCostGrad"
              /\ h.round = g.round /\ proc[q].gradFrom = None
  <2> TAKE h \in Started(q, g)
  <2>1. \/ h = Local("Intersect", 0)
        \/ g.round = loopRound[q] /\ h.round = g.round /\
           \/ h.do = "CalEncGradCost"
           \/ h.do = "DecLocalGradCost"
           \/ g.do = "GradAndCost" /\ h.do = "UpdCostGrad" /\ proc[q].gradFrom = None
           \/ h.do = "CheckStatus"
    BY <1>t, <1>1, <1>2, StartedOK
  <2> QED BY <1>1, <2>1 DEF Local
<1>9. SUFFICES /\ Apart(proc[p], proc'[q]) /\ Apart(proc'[q], proc[p])
               /\ \A h \in Pool(p) : Fits(proc[p], proc'[q], h)
               /\ \A h \in Pool(q) \cup Started(q, g) : Fits(proc'[q], proc[p], h)
               /\ Solo(q, Upd)'
  <2>1. Apart(proc'[p], proc'[q]) /\ Apart(proc'[q], proc'[p])
    BY <1>4, <1>9, ApartClose
  <2>2. \A h \in Pool(p) : Fits(proc'[p], proc'[q], h)
    BY <1>4, <1>9, FitsClose
  <2>3. \A h \in Answered(g) : Fits(proc'[p], proc'[q], h)
    <3>1. proc'[p].round = proc[p].round
      BY <1>4 DEF Close
    <3> QED BY <1>6, <3>1 DEF Fits
  <2>4. \A h \in Pool(q)' : Fits(proc'[q], proc'[p], h)
    BY <1>3, <1>4, <1>9, FitsClose
  <2> QED BY <1>3, <1>7, <1>9, <2>1, <2>2, <2>3, <2>4, RoundBothNext
<1>10. CASE Close(proc[q], proc'[q]) /\ \A h \in Started(q, g) : h.do # "UpdCostGrad"
  <2>0. Close(proc[p], proc[p])
    BY DEF Close
  <2>1. Apart(proc[p], proc'[q]) /\ Apart(proc'[q], proc[p])
    BY <1>1, <1>10, <2>0, ApartClose
  <2>2. \A h \in Pool(p) : Fits(proc[p], proc'[q], h)
    BY <1>1, <1>10, <2>0, FitsClose
  <2>3. \A h \in Pool(q) : Fits(proc'[q], proc[p], h)
    BY <1>1, <1>10, <2>0, FitsClose
  <2>4. \A h \in Started(q, g) : Fits(proc'[q], proc[p], h)
    <3>1. proc'[q].round = proc[q].round
      BY <1>10 DEF Close
    <3> QED BY <1>1, <1>8, <1>10, <3>1 DEF Fits
  <2>5. Solo(q, Upd)'
    BY <1>1, <1>3, <1>10 DEF Upd
  <2> QED BY <2>1, <2>2, <2>3, <2>4, <2>5
<1>11. CASE g.do \in {"ReEnc", "HomoPubkey", "PartBytes"}
  <2>1. Close(proc[q], proc'[q])
    <3>1. CASE g.do = "ReEnc"
      BY <1>t, <1>1, <1>2, <1>3, <3>1, ReceivedIs DEF Close
    <3>2. CASE g.do = "HomoPubkey"
      <4>1. proc'[q] = [proc[q] EXCEPT !.pub = TRUE]
        BY <1>t, <1>1, <1>2, <1>3, <3>2, ReceivedIs
      <4> QED BY <1>1, <4>1 DEF Close, Processes
    <3>3. CASE g.do = "PartBytes"
      <4>1. proc'[q] = proc[q] \/ proc'[q] = [proc[q] EXCEPT !.part = g.data]
              \/ proc'[q] = [proc[q] EXCEPT !.nextPart = g.data]
        BY <1>t, <1>1, <1>2, <1>3, <3>3, ReceivedIs DEF SetPart
      <4> QED BY <1>1, <4>1 DEF Close, Processes
    <3> QED BY <1>11, <3>1, <3>2, <3>3
  <2> QED BY <1>8, <1>10, <1>11, <2>1
<1>12. CASE g.do = "EncGradCost"
  <2>1. CASE g.round = proc[q].round /\ proc[q].encFrom = None
    <3>1. proc'[q] = [proc[q] EXCEPT !.encFrom = g.data]
      BY <1>t, <1>1, <1>2, <1>3, <1>12, <2>1, ReceivedIs
    <3>2. /\ Apart(proc[p], proc'[q]) /\ Apart(proc'[q], proc[p])
          /\ \A h : Fits(proc[p], proc[q], h) => Fits(proc[p], proc'[q], h)
          /\ \A h : Fits(proc[q], proc[p], h) => Fits(proc'[q], proc[p], h)
      BY <1>1, <1>2, <1>12, <2>1, <3>1, EncGotNext
    <3>3. proc'[q].round = proc[q].round
      BY <1>1, <3>1 DEF Processes
    <3>4. \A h \in Started(q, g) : Fits(proc'[q], proc[p], h)
      BY <1>1, <1>8, <1>12, <3>3 DEF Fits
    <3>5. Solo(q, Upd)'
      BY <1>1, <1>3, <1>8, <1>12 DEF Upd
    <3> QED BY <1>1, <3>2, <3>4, <3>5
  <2>2. CASE ~ (g.round = proc[q].round /\ proc[q].encFrom = None)
    <3>1. proc'[q] = proc[q]
      BY <1>t, <1>1, <1>2, <1>3, <1>12, <2>2, ReceivedIs
    <3> QED BY <1>8, <1>10, <1>12, <3>1 DEF Close
  <2> QED BY <2>1, <2>2
<1>13. CASE g.do = "GradAndCost"
  <2>1. CASE g.round = proc[q].round /\ proc[q].gradFrom = None
    <3>1. proc'[q] = [proc[q] EXCEPT !.gradFrom = g.data]
      BY <1>t, <1>1, <1>2, <1>3, <1>13, <2>1, ReceivedIs
    <3>2. /\ Apart(proc[p], proc'[q]) /\ Apart(proc'[q], proc[p])
          /\ \A h : Fits(proc[p], proc[q], h) => Fits(proc[p], proc'[q], h)
          /\ \A h : Fits(proc[q], proc[p], h) => h.do # "UpdCostGrad" /\ Fits(proc'[q], proc[p], h)
          /\ \A h : h.do = "UpdCostGrad" /\ h.round = g.round => Fits(proc'[q], proc[p], h)
      BY <1>1, <1>2, <1>13, <2>1, <3>1, GradGotNext
    <3>3. \A h \in Started(q, g) : h.do = "UpdCostGrad" /\ h.round = g.round
      <4> TAKE h \in Started(q, g)
      <4> QED BY <1>t, <1>1, <1>2, <1>13, StartedOK
    <3>4. \A h \in Started(q, g) : Fits(proc'[q], proc[p], h)
      BY <3>2, <3>3
    <3>5. Solo(q, Upd)'
      BY <1>1, <1>3, <3>2 DEF Upd
    <3> QED BY <1>1, <3>2, <3>4, <3>5
  <2>2. CASE ~ (g.round = proc[q].round /\ proc[q].gradFrom = None)
    <3>1. proc'[q] = proc[q]
      BY <1>t, <1>1, <1>2, <1>3, <1>13, <2>2, ReceivedIs
    <3>2. \A h \in Started(q, g) : h.do # "UpdCostGrad"
      BY <1>8, <2>2
    <3> QED BY <1>10, <3>1, <3>2 DEF Close
  <2> QED BY <2>1, <2>2
<1>14. CASE g.do = "Status"
  <2>1. CASE g.round = proc[q].round /\ proc[q].otherStopped = 0
    <3>1. proc'[q] = [proc[q] EXCEPT !.otherStopped = g.data]
      BY <1>t, <1>1, <1>2, <1>3, <1>14, <2>1, ReceivedIs
    <3>2. /\ Apart(proc[p], proc'[q]) /\ Apart(proc'[q], proc[p])
          /\ \A h : Fits(proc[p], proc[q], h) => Fits(proc[p], proc'[q], h)
          /\ \A h : Fits(proc[q], proc[p], h) => Fits(proc'[q], proc[p], h)
      BY <1>1, <1>2, <1>14, <2>1, <3>1, StatusGotNext
    <3>3. proc'[q].round = proc[q].round
      BY <1>1, <3>1 DEF Processes
    <3>4. \A h \in Started(q, g) : Fits(proc'[q], proc[p], h)
      BY <1>1, <1>8, <1>14, <3>3 DEF Fits
    <3>5. Solo(q, Upd)'
      BY <1>1, <1>3, <1>8, <1>14 DEF Upd
    <3> QED BY <1>1, <3>2, <3>4, <3>5
  <2>2. CASE ~ (g.round = proc[q].round /\ proc[q].otherStopped = 0)
    <3>1. proc'[q] = proc[q]
      BY <1>t, <1>1, <1>2, <1>3, <1>14, <2>2, ReceivedIs
    <3> QED BY <1>8, <1>10, <1>14, <3>1 DEF Close
  <2> QED BY <2>1, <2>2
<1> QED BY <1>2, <1>11, <1>12, <1>13, <1>14 DEF Messages

\* The rounds stay together, and no calculation panics.
LEMMA RoundStep ==
    ASSUME RoundPre, TypeInv', ~ panicked, NEW p \in Parties, OneOf(p)
    PROVE  (\A r \in Parties : RoundInv(r)') /\ ~ panicked'
<1>1. CASE Quiet(p)
  BY <1>1, RoundQuiet DEF Quiet
<1>2. ASSUME NEW g \in Pool(p), Entered(p, g)  PROVE (\A r \in Parties : RoundInv(r)') /\ ~ panicked'
  BY <1>2, RoundEntered DEF Entered
<1>3. ASSUME NEW g \in Pool(p), LocalDone(p, g)  PROVE (\A r \in Parties : RoundInv(r)') /\ ~ panicked'
  BY <1>3, RoundLocal DEF LocalDone
<1>4. ASSUME NEW g \in Pool(p), EncDone(p, g)  PROVE (\A r \in Parties : RoundInv(r)') /\ ~ panicked'
  BY <1>4, RoundEnc DEF EncDone
<1>5. ASSUME NEW g \in Pool(p), DecDone(p, g)  PROVE (\A r \in Parties : RoundInv(r)') /\ ~ panicked'
  BY <1>5, RoundDec DEF DecDone
<1>6. ASSUME NEW g \in Pool(p), NEW s, UpdDone(p, g, s)
      PROVE  (\A r \in Parties : RoundInv(r)') /\ ~ panicked'
  BY <1>6, RoundUpd
<1>7. ASSUME NEW g \in Pool(p), StatusDone(p, g)  PROVE (\A r \in Parties : RoundInv(r)') /\ ~ panicked'
  BY <1>7, RoundStatus DEF StatusDone
<1>8. ASSUME NEW g \in Pool(p), Got(p, g)  PROVE (\A r \in Parties : RoundInv(r)') /\ ~ panicked'
  BY <1>8, RoundGot DEF Got
<1> QED BY <1>1, <1>2, <1>3, <1>4, <1>5, <1>6, <1>7, <1>8 DEF OneOf

-----------------------------------------------------------------------------
(***************************************************************************)
(* The key is there before it is needed.                                   *)
(***************************************************************************)
KeyPre == RoundPre /\ \A r \in Parties : KeyInv(r)

LEMMA KeyBoth ==
    ASSUME KeyPre, NEW p \in Parties
    PROVE  /\ Other(p) \in Parties
           /\ ~ proc[p].pub =>
                /\ proc[p].part = None /\ proc[p].nextPart = None
                /\ ~ proc[Other(p)].rawPart /\ proc[Other(p)].stopped = 0
                /\ \A g \in Pool(p) : g.do \notin NeedsOwnKey
                /\ \A g \in Pool(Other(p)) : g.do \notin NeedsPeerKey
           /\ ~ proc[Other(p)].pub =>
                /\ proc[Other(p)].part = None /\ proc[Other(p)].nextPart = None
                /\ ~ proc[p].rawPart /\ proc[p].stopped = 0
                /\ \A g \in Pool(Other(p)) : g.do \notin NeedsOwnKey
                /\ \A g \in Pool(p) : g.do \notin NeedsPeerKey
<1>1. Other(p) \in Parties /\ Other(Other(p)) = p
  BY OtherParty
<1>2. KeyInv(p) /\ KeyInv(Other(p))
  BY <1>1 DEF KeyPre
<1> QED BY <1>1, <1>2 DEF KeyInv

LEMMA KeyBothNext ==
    ASSUME NEW p \in Parties,
           ~ proc'[p].pub =>
                /\ proc'[p].part = None /\ proc'[p].nextPart = None
                /\ ~ proc'[Other(p)].rawPart /\ proc'[Other(p)].stopped = 0
                /\ \A g \in Pool(p)' : g.do \notin NeedsOwnKey
                /\ \A g \in Pool(Other(p))' : g.do \notin NeedsPeerKey,
           ~ proc'[Other(p)].pub =>
                /\ proc'[Other(p)].part = None /\ proc'[Other(p)].nextPart = None
                /\ ~ proc'[p].rawPart /\ proc'[p].stopped = 0
                /\ \A g \in Pool(Other(p))' : g.do \notin NeedsOwnKey
                /\ \A g \in Pool(p)' : g.do \notin NeedsPeerKey
    PROVE  \A r \in Parties : KeyInv(r)'
<1>1. Other(Other(p)) = p /\ \A r \in Parties : r = p \/ r = Other(p)
  BY OtherParty
<1>2. KeyInv(p)'
  BY DEF KeyInv
<1>3. KeyInv(Other(p))'
  BY <1>1 DEF KeyInv
<1> QED BY <1>1, <1>2, <1>3

\* Only p changes, and what is new there needs a key that is there.
LEMMA KeyMoves ==
    ASSUME KeyPre, NEW p \in Parties, Same(Other(p)), Idle(Other(p)),
           proc'[p].pub = proc[p].pub,
           ~ proc[p].pub => /\ proc'[p].part \in {proc[p].part, proc[p].nextPart, None}
                            /\ proc'[p].nextPart \in {proc[p].nextPart, None},
           ~ proc[Other(p)].pub => proc'[p].rawPart = proc[p].rawPart /\ proc'[p].stopped = proc[p].stopped,
           \A h \in Pool(p)' :
              \/ h \in Pool(p) \/ (\E g \in Pool(p) : h.do = g.do)
              \/ /\ h.do \in NeedsOwnKey => proc[p].pub
                 /\ h.do \in NeedsPeerKey => proc[Other(p)].pub
    PROVE  \A r \in Parties : KeyInv(r)'
<1>1. /\ ~ proc[p].pub =>
                /\ proc[p].part = None /\ proc[p].nextPart = None
                /\ ~ proc[Other(p)].rawPart /\ proc[Other(p)].stopped = 0
                /\ \A g \in Pool(p) : g.do \notin NeedsOwnKey
                /\ \A g \in Pool(Other(p)) : g.do \notin NeedsPeerKey
      /\ ~ proc[Other(p)].pub =>
                /\ proc[Other(p)].part = None /\ proc[Other(p)].nextPart = None
                /\ ~ proc[p].rawPart /\ proc[p].stopped = 0
                /\ \A g \in Pool(Other(p)) : g.do \notin NeedsOwnKey
                /\ \A g \in Pool(p) : g.do \notin NeedsPeerKey
  BY KeyBoth
<1>2. /\ proc'[Other(p)].part = proc[Other(p)].part /\ proc'[Other(p)].nextPart = proc[Other(p)].nextPart
      /\ proc'[Other(p)].rawPart = proc[Other(p)].rawPart
      /\ proc'[Other(p)].stopped = proc[Other(p)].stopped /\ proc'[Other(p)].pub = proc[Other(p)].pub
  BY DEF Same, Alike
<1>3. Pool(Other(p))' \subseteq Pool(Other(p))
  BY DEF Idle
<1>4. ASSUME ~ proc[p].pub  PROVE \A h \in Pool(p)' : h.do \notin NeedsOwnKey
  BY <1>1, <1>4
<1>5. ASSUME ~ proc[Other(p)].pub  PROVE \A h \in Pool(p)' : h.do \notin NeedsPeerKey
  BY <1>1, <1>5
<1>6. ~ proc'[p].pub =>
                /\ proc'[p].part = None /\ proc'[p].nextPart = None
                /\ ~ proc'[Other(p)].rawPart /\ proc'[Other(p)].stopped = 0
                /\ \A g \in Pool(p)' : g.do \notin NeedsOwnKey
                /\ \A g \in Pool(Other(p))' : g.do \notin NeedsPeerKey
  BY <1>1, <1>2, <1>3, <1>4
<1>7. ~ proc'[Other(p)].pub =>
                /\ proc'[Other(p)].part = None /\ proc'[Other(p)].nextPart = None
                /\ ~ proc'[p].rawPart /\ proc'[p].stopped = 0
                /\ \A g \in Pool(Other(p))' : g.do \notin NeedsOwnKey
                /\ \A g \in Pool(p)' : g.do \notin NeedsPeerKey
  BY <1>1, <1>2, <1>3, <1>5
<1> QED BY <1>6, <1>7, KeyBothNext

LEMMA KeyGot ==
    ASSUME KeyPre, NEW p \in Parties, NEW g \in Pool(p), Got(p, g)
    PROVE  \A r \in Parties : KeyInv(r)'
<1> DEFINE q == Other(p)
<1>1. /\ q \in Parties
      /\ ~ proc[p].pub =>
                /\ proc[p].part = None /\ proc[p].nextPart = None
                /\ ~ proc[q].rawPart /\ proc[q].stopped = 0
                /\ \A h \in Pool(p) : h.do \notin NeedsOwnKey
                /\ \A h \in Pool(q) : h.do \notin NeedsPeerKey
      /\ ~ proc[q].pub =>
                /\ proc[q].part = None /\ proc[q].nextPart = None
                /\ ~ proc[p].rawPart /\ proc[p].stopped = 0
                /\ \A h \in Pool(q) : h.do \notin NeedsOwnKey
                /\ \A h \in Pool(p) : h.do \notin NeedsPeerKey
  BY KeyBoth
<1>t. /\ TypeInv /\ proc[q] \in Processes /\ GoroutineOK(g) /\ g.do \in Messages
      /\ OnTime(q, g) /\ ~ Overtaken(q, g)
  BY RoundBoth DEF KeyPre, RoundPre, Got, OnTime, InTime
<1>2. /\ proc'[q] = Received(q, g)
      /\ Pool(p)' \subseteq Pool(p) \cup Answered(g)
      /\ Pool(q)' \subseteq Pool(q) \cup Started(q, g)
  BY DEF Got, Grows
<1>3. /\ proc'[p].part = proc[p].part /\ proc'[p].nextPart = proc[p].nextPart
      /\ proc'[p].rawPart = proc[p].rawPart
      /\ proc'[p].stopped = proc[p].stopped /\ proc'[p].pub = proc[p].pub
  BY DEF Got, Same, Alike
<1>4. \A h \in Answered(g) : /\ h.do \notin NeedsOwnKey
                             /\ h.do \in NeedsPeerKey => g.do = "HomoPubkey"
  <2> TAKE h \in Answered(g)
  <2>1. \/ h = Local("Intersect", 0)
        \/ g.do = "HomoPubkey" /\ h = Local("TrainLoop", 0)
        \/ h.do = "CalEncGradCost"
        \/ h.do = "CheckStatus"
    BY <1>t, <1>1, StartedOK
  <2> QED BY <2>1 DEF Local, NeedsOwnKey, NeedsPeerKey
<1>5. \A h \in Started(q, g) : /\ h.do \in NeedsOwnKey => g.do = "EncGradCost"
                               /\ h.do \in NeedsPeerKey => g.do = "GradAndCost"
  <2> TAKE h \in Started(q, g)
  <2>1. \/ h = Local("Intersect", 0)
        \/ h.do = "CalEncGradCost"
        \/ g.do = "EncGradCost" /\ h.do = "DecLocalGradCost"
        \/ g.do = "GradAndCost" /\ h.do = "UpdCostGrad"
        \/ h.do = "CheckStatus"
    BY <1>t, <1>1, StartedOK
  <2> QED BY <2>1 DEF Local, NeedsOwnKey, NeedsPeerKey
<1>6. /\ proc'[q].rawPart = proc[q].rawPart /\ proc'[q].stopped = proc[q].stopped
      /\ proc'[q].pub = proc[q].pub \/ g.do = "HomoPubkey"
      /\ g.do = "HomoPubkey" => proc'[q].pub
      /\ g.do # "PartBytes" => proc'[q].part = proc[q].part /\ proc'[q].nextPart = proc[q].nextPart
  <2>1. CASE g.do = "ReEnc"
    BY <1>t, <1>1, <1>2, <2>1, ReceivedIs
  <2>2. CASE g.do = "HomoPubkey"
    <3>1. proc'[q] = [proc[q] EXCEPT !.pub = TRUE]
      BY <1>t, <1>1, <1>2, <2>2, ReceivedIs
    <3> QED BY <1>t, <2>2, <3>1 DEF Processes
  <2>3. CASE g.do = "PartBytes"
    <3>1. proc'[q] = proc[q] \/ proc'[q] = [proc[q] EXCEPT !.part = g.data]
            \/ proc'[q] = [proc[q] EXCEPT !.nextPart = g.data]
      BY <1>t, <1>1, <1>2, <2>3, ReceivedIs DEF SetPart
    <3> QED BY <1>t, <2>3, <3>1 DEF Processes
  <2>4. CASE g.do = "EncGradCost"
    <3>1. proc'[q] = proc[q] \/ proc'[q] = [proc[q] EXCEPT !.encFrom = g.data]
      BY <1>t, <1>1, <1>2, <2>4, ReceivedIs
    <3> QED BY <1>t, <2>4, <3>1 DEF Processes
  <2>5. CASE g.do = "GradAndCost"
    <3>1. proc'[q] = proc[q] \/ proc'[q] = [proc[q] EXCEPT !.gradFrom = g.data]
      BY <1>t, <1>1, <1>2, <2>5, ReceivedIs
    <3> QED BY <1>t, <2>5, <3>1 DEF Processes
  <2>6. CASE g.do = "Status"
    <3>1. proc'[q] = proc[q] \/ proc'[q] = [proc[q] EXCEPT !.otherStopped = g.data]
      BY <1>t, <1>1, <1>2, <2>6, ReceivedIs
    <3> QED BY <1>t, <2>6, <3>1 DEF Processes
  <2> QED BY <1>t, <2>1, <2>2, <2>3, <2>4, <2>5, <2>6 DEF Messages
<1>7. ASSUME ~ proc'[p].pub
      PROVE  /\ proc'[p].part = None /\ proc'[p].nextPart = None
             /\ ~ proc'[q].rawPart /\ proc'[q].stopped = 0
             /\ \A h \in Pool(p)' : h.do \notin NeedsOwnKey
             /\ \A h \in Pool(q)' : h.do \notin NeedsPeerKey
  <2>1. g.do # "GradAndCost"
    BY <1>1, <1>3, <1>7 DEF NeedsOwnKey
  <2> QED BY <1>1, <1>2, <1>3, <1>4, <1>5, <1>6, <1>7, <2>1
<1>8. ASSUME ~ proc'[q].pub
      PROVE  /\ proc'[q].part = None /\ proc'[q].nextPart = None
             /\ ~ proc'[p].rawPart /\ proc'[p].stopped = 0
             /\ \A h \in Pool(q)' : h.do \notin NeedsOwnKey
             /\ \A h \in Pool(p)' : h.do \notin NeedsPeerKey
  <2>1. g.do # "HomoPubkey" /\ ~ proc[q].pub
    BY <1>6, <1>8
  <2>2. g.do # "PartBytes" /\ g.do # "EncGradCost"
    BY <1>1, <2>1 DEF NeedsPeerKey
  <2> QED BY <1>1, <1>2, <1>3, <1>4, <1>5, <1>6, <2>1, <2>2
<1> QED BY <1>7, <1>8, KeyBothNext

LEMMA KeyStep ==
    ASSUME KeyPre, TypeInv', NEW p \in Parties, OneOf(p)
    PROVE  \A r \in Parties : KeyInv(r)'
<1>0. /\ Other(p) \in Parties
      /\ ~ proc[Other(p)].pub => /\ ~ proc[p].rawPart /\ proc[p].stopped = 0
                                 /\ \A g \in Pool(p) : g.do \notin NeedsPeerKey
      /\ ~ proc[p].pub => /\ proc[p].part = None
                          /\ \A g \in Pool(p) : g.do \notin NeedsOwnKey
  BY KeyBoth
<1>t. proc[p] \in Processes
  BY RoundBoth DEF KeyPre
<1>1. CASE Quiet(p)
  <2>1. /\ Same(Other(p)) /\ Idle(Other(p)) /\ proc'[p].pub = proc[p].pub
        /\ proc'[p].part = proc[p].part /\ proc'[p].nextPart = proc[p].nextPart
        /\ proc'[p].rawPart = proc[p].rawPart /\ proc'[p].stopped = proc[p].stopped
    BY <1>1 DEF Quiet, Same, Alike
  <2>2. \A h \in Pool(p)' : \/ h \in Pool(p) \/ (\E g \in Pool(p) : h.do = g.do)
                            \/ h.do \notin NeedsOwnKey /\ h.do \notin NeedsPeerKey
    BY <1>1 DEF Quiet, Copy, Early, NeedsOwnKey, NeedsPeerKey
  <2> QED BY <2>1, <2>2, KeyMoves
<1>2. ASSUME NEW g \in Pool(p), Entered(p, g)  PROVE \A r \in Parties : KeyInv(r)'
  <2>1. proc[Other(p)].pub
    BY <1>0, <1>2 DEF Entered, NeedsPeerKey
  <2>2. /\ Same(Other(p)) /\ Idle(Other(p))
        /\ Pool(p)' \subseteq Pool(p) \cup {Local("CalLocalGradCost", 0)}
    BY <1>2 DEF Entered, Grows
  <2>3. Local("CalLocalGradCost", 0).do \notin NeedsOwnKey
    BY DEF Local, NeedsOwnKey
  <2>4. /\ proc'[p].pub = proc[p].pub
        /\ proc'[p].part \in {proc[p].part, proc[p].nextPart}
        /\ proc'[p].nextPart \in {proc[p].nextPart, None}
    <3>1. CASE Same(p)
      BY <3>1 DEF Same, Alike
    <3>2. CASE proc'[p] = upRound(proc[p])
      <4>1. /\ upRound(proc[p]).pub = proc[p].pub /\ upRound(proc[p]).part = proc[p].nextPart
            /\ upRound(proc[p]).nextPart = None
        BY DEF upRound, NewProcess
      <4> QED BY <3>2, <4>1
    <3> QED BY <1>2, <3>1, <3>2 DEF Entered
  <2> QED BY <2>1, <2>2, <2>3, <2>4, KeyMoves
<1>3. ASSUME NEW g \in Pool(p), LocalDone(p, g)  PROVE \A r \in Parties : KeyInv(r)'
  <2>1. proc[Other(p)].pub
    BY <1>0, <1>3 DEF LocalDone, NeedsPeerKey
  <2>2. PICK x : x = Call("PartBytes", RoundOf(p, g), proc[p].round)
    OBVIOUS
  <2>3. /\ Same(Other(p)) /\ Idle(Other(p)) /\ Pool(p)' \subseteq Pool(p) \cup {x}
    BY <1>3, <2>2 DEF LocalDone, Grows
  <2>4. x.do \notin NeedsOwnKey
    BY <2>2 DEF Call, NeedsOwnKey
  <2>5. /\ proc'[p].pub = proc[p].pub /\ proc'[p].part = proc[p].part
        /\ proc'[p].nextPart = proc[p].nextPart
    BY <1>t, <1>3 DEF LocalDone, Processes
  <2> QED BY <2>1, <2>3, <2>4, <2>5, KeyMoves
<1>4. ASSUME NEW g \in Pool(p), EncDone(p, g)  PROVE \A r \in Parties : KeyInv(r)'
  <2>1. proc[Other(p)].pub /\ proc[p].pub
    BY <1>0, <1>4 DEF EncDone, EncReady
  <2>2. PICK x : x = Call("EncGradCost", g.round, proc[p].round)
    OBVIOUS
  <2>3. /\ Same(Other(p)) /\ Idle(Other(p)) /\ Pool(p)' \subseteq Pool(p) \cup {x}
    BY <1>4, <2>2 DEF EncDone, Grows
  <2>5. proc'[p].pub = proc[p].pub
    BY <1>t, <1>4 DEF EncDone, Processes
  <2> QED BY <2>1, <2>3, <2>5, KeyMoves
<1>5. ASSUME NEW g \in Pool(p), DecDone(p, g)  PROVE \A r \in Parties : KeyInv(r)'
  <2>1. proc[p].pub
    BY <1>0, <1>5 DEF DecDone, NeedsOwnKey
  <2>2. PICK x : x = Call("GradAndCost", g.round, proc[p].encFrom)
    OBVIOUS
  <2>3. /\ Same(Other(p)) /\ Idle(Other(p)) /\ Pool(p)' \subseteq Pool(p) \cup {x}
    BY <1>5, <2>2 DEF DecDone, Grows
  <2>4. x.do \notin NeedsPeerKey
    BY <2>2 DEF Call, NeedsPeerKey
  <2>5. /\ proc'[p].pub = proc[p].pub
        /\ proc'[p].rawPart = proc[p].rawPart /\ proc'[p].stopped = proc[p].stopped
    BY <1>5 DEF DecDone, Same, Alike
  <2> QED BY <2>1, <2>3, <2>4, <2>5, KeyMoves
<1>6. ASSUME NEW g \in Pool(p), NEW s, UpdDone(p, g, s)  PROVE \A r \in Parties : KeyInv(r)'
  <2>1. proc[Other(p)].pub
    BY <1>0, <1>6 DEF UpdDone, NeedsPeerKey
  <2>2. PICK x : x = Call("Status", g.round, s)
    OBVIOUS
  <2>3. /\ Same(Other(p)) /\ Idle(Other(p)) /\ Pool(p)' \subseteq Pool(p) \cup {x}
    BY <1>6, <2>2 DEF UpdDone
  <2>4. x.do \notin NeedsOwnKey
    BY <2>2 DEF Call, NeedsOwnKey
  <2>5. /\ proc'[p].pub = proc[p].pub /\ proc'[p].part = proc[p].part
        /\ proc'[p].nextPart = proc[p].nextPart
    BY <1>t, <1>6 DEF UpdDone, Processes
  <2> QED BY <2>1, <2>3, <2>4, <2>5, KeyMoves
<1>7. ASSUME NEW g \in Pool(p), StatusDone(p, g)  PROVE \A r \in Parties : KeyInv(r)'
  <2>1. proc[Other(p)].pub
    BY <1>0, <1>7 DEF StatusDone, decided
  <2>2. PICK x : x = IF stop(proc[p]) THEN Local("TrainModels", g.round) ELSE Local("TrainLoop", g.round + 1)
    OBVIOUS
  <2>3. /\ Same(Other(p)) /\ Idle(Other(p)) /\ Pool(p)' \subseteq Pool(p) \cup {x}
    BY <1>7, <2>2 DEF StatusDone, Grows
  <2>4. x.do \notin NeedsOwnKey
    BY <2>2 DEF Local, NeedsOwnKey
  <2>5. /\ proc'[p].pub = proc[p].pub /\ proc'[p].part = proc[p].part
        /\ proc'[p].nextPart = proc[p].nextPart
    BY <1>7 DEF StatusDone, Same, Alike
  <2> QED BY <2>1, <2>3, <2>4, <2>5, KeyMoves
<1> QED BY <1>1, <1>2, <1>3, <1>4, <1>5, <1>6, <1>7, KeyGot DEF OneOf

-----------------------------------------------------------------------------
(***************************************************************************)
(* Nothing of another round is used.                                       *)
(***************************************************************************)
DataPre == RoundPre /\ \A r \in Parties : DataInv(r)

\* Only p changes; its process stays coherent, and what is new there is current.
LEMMA DataMoves ==
    ASSUME DataPre, NEW p \in Parties, Same(Other(p)), Idle(Other(p)), Coherent(proc'[p]),
           \A h \in Pool(p)' : h \in Pool(p) \/ Current(h)
    PROVE  \A r \in Parties : DataInv(r)'
<1>1. Other(p) \in Parties /\ \A r \in Parties : r = p \/ r = Other(p)
  BY OtherParty
<1>2. DataInv(p) /\ DataInv(Other(p))
  BY <1>1 DEF DataPre
<1>3. DataInv(p)'
  BY <1>2 DEF DataInv
<1>4. Coherent(proc'[Other(p)])
  BY <1>2 DEF DataInv, Same, Alike, Coherent
<1>5. DataInv(Other(p))'
  BY <1>2, <1>4 DEF DataInv, Idle
<1> QED BY <1>1, <1>3, <1>5

LEMMA CoherentAlike == ASSUME NEW a, NEW b, Coherent(a), Alike(a, b)  PROVE Coherent(b)
BY DEF Coherent, Alike

\* A message of the current round reaches process b.
LEMMA DataReceived ==
    ASSUME DataPre, NEW p \in Parties, NEW g \in Pool(p), g.do \in Messages, OnTime(Other(p), g)
    PROVE  Coherent(Received(Other(p), g))
<1> DEFINE q == Other(p)
<1>1. /\ q \in Parties /\ proc[q] \in Processes /\ loopRound[q] = proc[q].round
      /\ proc[q].round \in Nat /\ GoroutineOK(g)
  BY RoundBoth DEF DataPre
<1>t. TypeInv
  BY DEF DataPre, RoundPre
<1>2. Coherent(proc[q]) /\ Current(g)
  BY <1>1 DEF DataPre, DataInv
<1> DEFINE b == proc[q]
           c == Received(q, g)
<1>3. CASE g.do = "ReEnc"
  BY <1>t, <1>1, <1>2, <1>3, ReceivedIs
<1>4. CASE g.do = "HomoPubkey"
  <2>1. c = [b EXCEPT !.pub = TRUE]
    BY <1>t, <1>1, <1>4, ReceivedIs
  <2>2. c.round = b.round /\ c.part = b.part /\ c.nextPart = b.nextPart
        /\ c.encFrom = b.encFrom /\ c.gradFrom = b.gradFrom
    BY <1>1, <2>1 DEF Processes
  <2> QED BY <1>2, <2>2 DEF Coherent
<1>5. CASE g.do = "PartBytes"
  <2>1. c = IF g.round \in {b.round, b.round + 1} THEN SetPart(b, g) ELSE b
    BY <1>t, <1>1, <1>5, ReceivedIs
  <2>2. g.data = g.round
    BY <1>2, <1>5 DEF Current
  <2>3. CASE g.round = b.round
    <3>1. c = [b EXCEPT !.part = b.round]
      BY <2>1, <2>2, <2>3 DEF SetPart
    <3>2. c.round = b.round /\ c.part = b.round /\ c.nextPart = b.nextPart
          /\ c.encFrom = b.encFrom /\ c.gradFrom = b.gradFrom
      BY <1>1, <3>1 DEF Processes
    <3> QED BY <1>2, <3>2 DEF Coherent
  <2>4. CASE g.round # b.round /\ g.round = b.round + 1
    <3>1. c = [b EXCEPT !.nextPart = b.round + 1]
      BY <2>1, <2>2, <2>4 DEF SetPart
    <3>2. c.round = b.round /\ c.part = b.part /\ c.nextPart = b.round + 1
          /\ c.encFrom = b.encFrom /\ c.gradFrom = b.gradFrom
      BY <1>1, <3>1 DEF Processes
    <3> QED BY <1>2, <3>2 DEF Coherent
  <2>5. CASE g.round \notin {b.round, b.round + 1}
    BY <1>2, <2>1, <2>5
  <2> QED BY <2>3, <2>4, <2>5
<1>6. CASE g.do = "EncGradCost"
  <2>1. c = IF g.round = b.round /\ b.encFrom = None THEN [b EXCEPT !.encFrom = g.data] ELSE b
    BY <1>t, <1>1, <1>6, ReceivedIs
  <2>2. g.data = g.round
    BY <1>2, <1>6 DEF Current
  <2>3. CASE c = b
    BY <1>2, <2>3
  <2>4. CASE c = [b EXCEPT !.encFrom = b.round]
    <3>1. c.round = b.round /\ c.part = b.part /\ c.nextPart = b.nextPart
          /\ c.encFrom = b.round /\ c.gradFrom = b.gradFrom
      BY <1>1, <2>4 DEF Processes
    <3> QED BY <1>2, <3>1 DEF Coherent
  <2> QED BY <2>1, <2>2, <2>3, <2>4
<1>7. CASE g.do = "GradAndCost"
  <2>1. c = IF g.round = b.round /\ b.gradFrom = None THEN [b EXCEPT !.gradFrom = g.data] ELSE b
    BY <1>t, <1>1, <1>7, ReceivedIs
  <2>2. g.data = g.round
    BY <1>2, <1>7 DEF Current
  <2>3. CASE c = b
    BY <1>2, <2>3
  <2>4. CASE c = [b EXCEPT !.gradFrom = b.round]
    <3>1. c.round = b.round /\ c.part = b.part /\ c.nextPart = b.nextPart
          /\ c.encFrom = b.encFrom /\ c.gradFrom = b.round
      BY <1>1, <2>4 DEF Processes
    <3> QED BY <1>2, <3>1 DEF Coherent
  <2> QED BY <2>1, <2>2, <2>3, <2>4
<1>8. CASE g.do = "Status"
  <2>1. c = b \/ c = [b EXCEPT !.otherStopped = g.data]
    BY <1>t, <1>1, <1>8, ReceivedIs
  <2>2. c.round = b.round /\ c.part = b.part /\ c.nextPart = b.nextPart
        /\ c.encFrom = b.encFrom /\ c.gradFrom = b.gradFrom
    BY <1>1, <2>1 DEF Processes
  <2> QED BY <1>2, <2>2 DEF Coherent
<1> QED BY <1>3, <1>4, <1>5, <1>6, <1>7, <1>8 DEF Messages

\* A new goroutine that carries no data, or a call that carries data of its round.
LEMMA LocalCurrent ==
    ASSUME NEW d \in RoundChecked \cup Unchecked, NEW r
    PROVE  Current(Local(d, r))
BY DEF Current, Local, RoundChecked, Unchecked

LEMMA CallCurrent ==
    ASSUME NEW d, NEW r, NEW x, d \in {"PartBytes", "EncGradCost", "GradAndCost"} => x = r
    PROVE  Current(Call(d, r, x))
BY DEF Current, Call

LEMMA DataGot ==
    ASSUME DataPre, NEW p \in Parties, NEW g \in Pool(p), Got(p, g)
    PROVE  \A r \in Parties : DataInv(r)'
<1> DEFINE q == Other(p)
<1>1. /\ q \in Parties /\ GoroutineOK(g) /\ g.do \in Messages /\ TypeInv
      /\ OnTime(q, g) /\ ~ Overtaken(q, g)
      /\ \A r \in Parties : r = p \/ r = q
  BY RoundBoth, OtherParty DEF DataPre, RoundPre, Got, OnTime, InTime
<1>2. Coherent(proc'[q])
  BY <1>1, DataReceived DEF Got
<1>3. DataInv(p) /\ DataInv(q)
  BY <1>1 DEF DataPre
<1>4. Coherent(proc'[p])
  BY <1>3, CoherentAlike DEF Got, Same, DataInv
<1>5. \A h \in Started(q, g) : h.at = "new" /\ h.do \notin {"PartBytes", "EncGradCost", "GradAndCost"}
  BY <1>1, StartedOK DEF Local
<1>6. \A h \in Answered(g) : h.at = "new" /\ h.do \notin {"PartBytes", "EncGradCost", "GradAndCost"}
  BY <1>1, StartedOK DEF Local
<1>7. \A h \in Started(q, g) \cup Answered(g) : Current(h)
  BY <1>5, <1>6 DEF Current
<1>8. Pool(p)' \subseteq Pool(p) \cup Answered(g) /\ Pool(q)' \subseteq Pool(q) \cup Started(q, g)
  BY DEF Got, Grows
<1>9. DataInv(p)' /\ DataInv(q)'
  BY <1>2, <1>3, <1>4, <1>7, <1>8 DEF DataInv
<1> QED BY <1>1, <1>9

LEMMA DataStep ==
    ASSUME DataPre, TypeInv', ~ Suspended', NEW p \in Parties, OneOf(p)
    PROVE  \A r \in Parties : DataInv(r)'
<1>0. /\ Coherent(proc[p]) /\ loopRound[p] = proc[p].round /\ proc[p] \in Processes
      /\ proc[p].round \in Nat
      /\ \A g \in Pool(p) : GoroutineOK(g) /\ Current(g)
  BY RoundBoth DEF DataPre, RoundPre, DataInv
<1>1. CASE Quiet(p)
  <2>1. Same(Other(p)) /\ Idle(Other(p)) /\ Coherent(proc'[p])
    BY <1>0, <1>1, CoherentAlike DEF Quiet, Same
  <2>2. ASSUME NEW h \in Pool(p)', NEW g \in Pool(p), Copy(p, h, g)  PROVE Current(h)
    <3>1. h.at # "checked" /\ h.do = g.do /\ h.data = g.data
      BY <1>0, <2>2 DEF Copy, Calling, Current
    <3>2. h.do \in {"PartBytes", "EncGradCost", "GradAndCost"} => h.round = g.round
      BY <2>2 DEF Copy
    <3> QED BY <1>0, <3>1, <3>2 DEF Current
  <2>3. ASSUME NEW h \in Pool(p)', h.do \in Early, h.at # "checked"  PROVE Current(h)
    BY <2>3 DEF Current, Early
  <2>4. \A h \in Pool(p)' : h \in Pool(p) \/ Current(h)
    BY <1>1, <2>2, <2>3 DEF Quiet
  <2> QED BY <2>1, <2>4, DataMoves
<1>2. ASSUME NEW g \in Pool(p), Entered(p, g)  PROVE \A r \in Parties : DataInv(r)'
  <2>1. Coherent(proc'[p])
    <3>1. CASE Same(p)
      BY <1>0, <3>1, CoherentAlike DEF Same
    <3>2. CASE proc'[p] = upRound(proc[p])
      <4>1. /\ upRound(proc[p]).round = proc[p].round + 1 /\ upRound(proc[p]).part = proc[p].nextPart
            /\ upRound(proc[p]).nextPart = None /\ upRound(proc[p]).encFrom = None
            /\ upRound(proc[p]).gradFrom = None
        BY DEF upRound, NewProcess
      <4> QED BY <1>0, <3>2, <4>1 DEF Coherent
    <3> QED BY <1>2, <3>1, <3>2 DEF Entered
  <2>2. Current(Local("CalLocalGradCost", 0))
    BY LocalCurrent DEF RoundChecked
  <2>3. /\ Same(Other(p)) /\ Idle(Other(p))
        /\ Pool(p)' \subseteq Pool(p) \cup {Local("CalLocalGradCost", 0)}
    BY <1>2 DEF Entered, Grows
  <2> QED BY <2>1, <2>2, <2>3, DataMoves
<1>3. ASSUME NEW g \in Pool(p), LocalDone(p, g)  PROVE \A r \in Parties : DataInv(r)'
  <2>1. Coherent(proc'[p])
    <3>1. /\ proc'[p].round = proc[p].round /\ proc'[p].part = proc[p].part
          /\ proc'[p].nextPart = proc[p].nextPart /\ proc'[p].encFrom = proc[p].encFrom
          /\ proc'[p].gradFrom = proc[p].gradFrom
      BY <1>0, <1>3 DEF LocalDone, Processes
    <3> QED BY <1>0, <3>1 DEF Coherent
  <2>2. RoundOf(p, g) = proc[p].round
    BY <1>0, <1>3 DEF LocalDone, InRound, Current
  <2>3. PICK x : x = Call("PartBytes", RoundOf(p, g), proc[p].round)
    OBVIOUS
  <2>4. Current(x)
    BY <2>2, <2>3, CallCurrent
  <2>5. /\ Same(Other(p)) /\ Idle(Other(p)) /\ Pool(p)' \subseteq Pool(p) \cup {x}
    BY <1>3, <2>3 DEF LocalDone, Grows
  <2> QED BY <2>1, <2>4, <2>5, DataMoves
<1>4. ASSUME NEW g \in Pool(p), EncDone(p, g)  PROVE \A r \in Parties : DataInv(r)'
  <2>1. Coherent(proc'[p])
    <3>1. /\ proc'[p].round = proc[p].round /\ proc'[p].part = proc[p].part
          /\ proc'[p].nextPart = proc[p].nextPart /\ proc'[p].encFrom = proc[p].encFrom
          /\ proc'[p].gradFrom = proc[p].gradFrom
      BY <1>0, <1>4 DEF EncDone, Processes
    <3> QED BY <1>0, <3>1 DEF Coherent
  <2>2. g.round = proc[p].round
    BY <1>0, <1>4 DEF EncDone, InRound, Current, RoundOf
  <2>3. PICK x : x = Call("EncGradCost", g.round, proc[p].round)
    OBVIOUS
  <2>4. Current(x)
    BY <2>2, <2>3, CallCurrent
  <2>5. /\ Same(Other(p)) /\ Idle(Other(p)) /\ Pool(p)' \subseteq Pool(p) \cup {x}
    BY <1>4, <2>3 DEF EncDone, Grows
  <2> QED BY <2>1, <2>4, <2>5, DataMoves
<1>5. ASSUME NEW g \in Pool(p), DecDone(p, g)  PROVE \A r \in Parties : DataInv(r)'
  <2>1. Coherent(proc'[p])
    BY <1>0, <1>5, CoherentAlike DEF DecDone, Same
  <2>2. g.round = proc[p].round /\ proc[p].encFrom = proc[p].round
    BY <1>0, <1>5 DEF DecDone, InRound, Current, RoundOf, Coherent
  <2>3. PICK x : x = Call("GradAndCost", g.round, proc[p].encFrom)
    OBVIOUS
  <2>4. Current(x)
    BY <2>2, <2>3, CallCurrent
  <2>5. /\ Same(Other(p)) /\ Idle(Other(p)) /\ Pool(p)' \subseteq Pool(p) \cup {x}
    BY <1>5, <2>3 DEF DecDone, Grows
  <2> QED BY <2>1, <2>4, <2>5, DataMoves
<1>6. ASSUME NEW g \in Pool(p), NEW s, UpdDone(p, g, s)  PROVE \A r \in Parties : DataInv(r)'
  <2>1. Coherent(proc'[p])
    <3>1. /\ proc'[p].round = proc[p].round /\ proc'[p].part = proc[p].part
          /\ proc'[p].nextPart = proc[p].nextPart /\ proc'[p].encFrom = proc[p].encFrom
          /\ proc'[p].gradFrom = proc[p].gradFrom
      BY <1>0, <1>6 DEF UpdDone, Processes
    <3> QED BY <1>0, <3>1 DEF Coherent
  <2>3. PICK x : x = Call("Status", g.round, s)
    OBVIOUS
  <2>4. Current(x)
    BY <2>3, CallCurrent
  <2>5. /\ Same(Other(p)) /\ Idle(Other(p)) /\ Pool(p)' \subseteq Pool(p) \cup {x}
    BY <1>6, <2>3 DEF UpdDone
  <2> QED BY <2>1, <2>4, <2>5, DataMoves
<1>7. ASSUME NEW g \in Pool(p), StatusDone(p, g)  PROVE \A r \in Parties : DataInv(r)'
  <2>1. Coherent(proc'[p])
    BY <1>0, <1>7, CoherentAlike DEF StatusDone, Same
  <2>2. PICK x : x = IF stop(proc[p]) THEN Local("TrainModels", g.round) ELSE Local("TrainLoop", g.round + 1)
    OBVIOUS
  <2>3. Current(x)
    BY <2>2, LocalCurrent DEF Unchecked
  <2>4. /\ Same(Other(p)) /\ Idle(Other(p)) /\ Pool(p)' \subseteq Pool(p) \cup {x}
    BY <1>7, <2>2 DEF StatusDone, Grows
  <2> QED BY <2>1, <2>3, <2>4, DataMoves
<1> QED BY <1>1, <1>2, <1>3, <1>4, <1>5, <1>6, <1>7, DataGot DEF OneOf

-----------------------------------------------------------------------------
(***************************************************************************)
(* The training is started once.                                           *)
(***************************************************************************)

\* What a new goroutine h of r may be.
Timed(r, h) ==
    /\ h.do = "TrainHup" => psi'[r].mine /\ psi'[r].others
    /\ h.do \in {"HomoPubkey", "TrainLoop", "CalLocalGradCost"} => proc'[r].thetas # None
    /\ proc[r].round > 0 => /\ h.do \notin {"Intersect", "TrainHup", "HomoPubkey"}
                            /\ h.do = "TrainLoop" => h.round > 0

\* Party r stays in its round; its parameters are set at most.
Stays(r) ==
    /\ loopRound'[r] = loopRound[r] /\ proc'[r].round = proc[r].round
    /\ \/ proc'[r].thetas = proc[r].thetas
       \/ proc'[r].thetas = proc[r].round /\ psi[r].mine /\ psi[r].others
    /\ proc'[r].rawPart => proc[r].rawPart \/ proc'[r].thetas # None

\* Nothing but the exchange of the keys may hold the lock of r.
Exclusive(r) ==
    /\ Solo(r, Asking)
    /\ Solo(r, {"HomoPubkey"})
    /\ Doing(r, {"HomoPubkey"}) => locked[r]

LEMMA StartKept ==
    ASSUME TypeInv, NEW r \in Parties, StartInv(r), Stays(r), Exclusive(r)',
           exists'[r] = "no" => BagToSet(go'[r]) = {} /\ ~ psi'[r].mine,
           psi[r].mine => psi'[r].mine, psi[r].others => psi'[r].others,
           psi'[Other(r)].others = psi'[r].mine,
           psi'[r].mine => ~ Doing(r, Asking)',
           \A h \in late'[r] : h.do # "ReEnc",
           \A h \in BagToSet(go'[r]) : h \in BagToSet(go[r]) \/ Timed(r, h)
    PROVE  StartInv(r)'
<1>0. proc[r].round \in Nat /\ None \notin Nat
  BY TypeFacts DEF None
<1>1. loopRound'[r] = proc'[r].round
  BY DEF StartInv, Stays
<1>2. Doing(r, {"TrainHup"})' => psi'[r].mine /\ psi'[r].others
  <2> SUFFICES ASSUME NEW h \in BagToSet(go'[r]), h.do = "TrainHup"
               PROVE  psi'[r].mine /\ psi'[r].others
    BY DEF Doing
  <2>1. CASE h \in BagToSet(go[r])
    BY <2>1 DEF StartInv, Doing
  <2>2. CASE Timed(r, h)
    BY <2>2 DEF Timed
  <2> QED BY <2>1, <2>2
<1>3. proc'[r].thetas # None => proc'[r].thetas = proc'[r].round /\ psi'[r].mine /\ psi'[r].others
  BY DEF StartInv, Stays
<1>4. ASSUME proc'[r].thetas = None
      PROVE  /\ proc'[r].round = 0 /\ ~ proc'[r].rawPart
             /\ ~ Doing(r, {"HomoPubkey", "TrainLoop", "CalLocalGradCost"})'
  <2>1. proc[r].thetas = None
    BY <1>0, <1>4 DEF Stays
  <2>2. proc'[r].round = 0 /\ ~ proc'[r].rawPart
    BY <1>4, <2>1 DEF StartInv, Stays
  <2>3. ASSUME NEW h \in BagToSet(go'[r]), h.do \in {"HomoPubkey", "TrainLoop", "CalLocalGradCost"}
        PROVE  FALSE
    <3>1. CASE h \in BagToSet(go[r])
      BY <2>1, <2>3, <3>1 DEF StartInv, Doing
    <3>2. CASE Timed(r, h)
      BY <1>4, <2>3, <3>2 DEF Timed
    <3> QED BY <3>1, <3>2
  <2> QED BY <2>2, <2>3 DEF Doing
<1>5. ASSUME proc'[r].round > 0
      PROVE  /\ ~ Doing(r, {"Intersect", "TrainHup", "HomoPubkey"})'
             /\ \A h \in BagToSet(go'[r]) : h.do = "TrainLoop" => h.round > 0
  <2>1. proc[r].round > 0
    BY <1>5 DEF Stays
  <2>2. ASSUME NEW h \in BagToSet(go'[r])
        PROVE  /\ h.do \notin {"Intersect", "TrainHup", "HomoPubkey"}
               /\ h.do = "TrainLoop" => h.round > 0
    <3>1. CASE h \in BagToSet(go[r])
      BY <2>1, <3>1 DEF StartInv, Doing
    <3>2. CASE Timed(r, h)
      BY <2>1, <3>2 DEF Timed
    <3> QED BY <2>2, <3>1, <3>2
  <2> QED BY <2>2 DEF Doing
<1> QED BY <1>1, <1>2, <1>3, <1>4, <1>5 DEF StartInv, Exclusive

\* Nothing that concerns the start happens to r.
Aside(r) ==
    /\ loopRound'[r] = loopRound[r] /\ proc'[r] = proc[r] /\ locked'[r] = locked[r]
    /\ exists'[r] = "no" => exists[r] = "no"
    /\ psi'[r] = psi[r] /\ psi'[Other(r)].others = psi[Other(r)].others
    /\ go'[r] = go[r] /\ late'[r] \subseteq late[r]

LEMMA StartAside ==
    ASSUME NEW r \in Parties, StartInv(r), Aside(r)
    PROVE  StartInv(r)'
BY DEF StartInv, Aside, Solo, Doing

\* A party that does something has a learner.
LEMMA Acting ==
    ASSUME NEW p \in Parties, StartInv(p), NEW g \in BagToSet(go[p])
    PROVE  exists[p] # "no"
BY DEF StartInv

\* Goroutines of another kind than K take the place of g.
LEMMA SoloBecomes ==
    ASSUME TypeInv, NEW p \in Parties, NEW g \in BagToSet(go[p]), NEW gs, Becomes(p, g, gs),
           NEW K, Solo(p, K), \A h \in gs : h.do \notin K
    PROVE  /\ Solo(p, K)'
           /\ Doing(p, K)' => Doing(p, K)
           /\ g.do \in K => ~ Doing(p, K)'
<1>1. go'[p] = Replace(go[p], g, gs) /\ IsBag(go[p])
  BY BecomesGo, TypeFacts
<1>2. Within(go'[p], go[p], gs)
  BY BecomesGo
<1>3. SoloBag(go'[p], K)
  BY <1>1, <1>2, SoloKept DEF Solo
<1>4. g.do \in K => \A h \in BagToSet(go'[p]) : h.do \notin K
  BY <1>1, SoloEnds DEF Solo
<1>5. \A h \in BagToSet(go'[p]) : h.do \in K => h \in BagToSet(go[p])
  BY <1>2 DEF Within
<1> QED BY <1>3, <1>4, <1>5 DEF Solo, Doing

StartPre == TypeInv /\ \A r \in Parties : StartInv(r)

LEMMA StartBoth ==
    ASSUME StartPre, NEW p \in Parties, Aside(Other(p)), StartInv(p)'
    PROVE  \A r \in Parties : StartInv(r)'
<1>1. Other(p) \in Parties /\ \A r \in Parties : r = p \/ r = Other(p)
  BY OtherParty
<1>2. StartInv(Other(p))'
  BY <1>1, StartAside DEF StartPre
<1> QED BY <1>1, <1>2

\* Goroutine g of p goes on as goroutines that neither ask nor send a key.
LEMMA StartBecomes ==
    ASSUME StartPre, NEW p \in Parties, NEW g \in BagToSet(go[p]), NEW gs, Becomes(p, g, gs),
           UNCHANGED <<exists, psi, late, locked>>, Stays(p),
           loopRound'[Other(p)] = loopRound[Other(p)], proc'[Other(p)] = proc[Other(p)],
           \A h \in gs : h.do \notin {"PsiEnc", "ReEnc", "HomoPubkey"} /\ Timed(p, h)
    PROVE  \A r \in Parties : StartInv(r)'
<1>0. TypeInv /\ StartInv(p) /\ Other(p) \in Parties /\ Other(p) # p /\ Other(Other(p)) = p
  BY OtherParty DEF StartPre
<1>1. /\ \A r \in Parties : r # p => go'[r] = go[r]
      /\ BagToSet(go'[p]) \subseteq BagToSet(go[p]) \cup gs
  BY <1>0, BecomesGo
<1>2. Aside(Other(p))
  BY <1>0, <1>1 DEF Aside
<1>3. exists'[p] # "no"
  BY <1>0, Acting
<1>4. Solo(p, Asking)' /\ (Doing(p, Asking)' => Doing(p, Asking))
  <2>1. \A h \in gs : h.do \notin Asking
    BY DEF Asking
  <2>2. Solo(p, Asking)
    BY <1>0 DEF StartInv
  <2> QED BY <1>0, <2>1, <2>2, SoloBecomes
<1>5. Solo(p, {"HomoPubkey"})' /\ (Doing(p, {"HomoPubkey"})' => Doing(p, {"HomoPubkey"}))
  <2>1. \A h \in gs : h.do \notin {"HomoPubkey"}
    OBVIOUS
  <2>2. Solo(p, {"HomoPubkey"})
    BY <1>0 DEF StartInv
  <2> QED BY <1>0, <2>1, <2>2, SoloBecomes
<1>6. Exclusive(p)'
  BY <1>0, <1>4, <1>5 DEF Exclusive, StartInv
<1>7. psi'[Other(p)].others = psi'[p].mine /\ (psi'[p].mine => ~ Doing(p, Asking)')
  BY <1>0, <1>4 DEF StartInv
<1>8. \A h \in late'[p] : h.do # "ReEnc"
  BY <1>0 DEF StartInv
<1>9. \A h \in BagToSet(go'[p]) : h \in BagToSet(go[p]) \/ Timed(p, h)
  BY <1>1
<1>10. StartInv(p)'
  BY <1>0, <1>3, <1>6, <1>7, <1>8, <1>9, StartKept
<1> QED BY <1>2, <1>10, StartBoth

LEMMA StaysSame ==
    ASSUME NEW r, loopRound'[r] = loopRound[r], proc'[r] = proc[r]
    PROVE  Stays(r)
BY DEF Stays

\* Goroutine g of p ends, and nothing else changes of the start.
LEMMA StartEnds ==
    ASSUME StartPre, NEW p \in Parties, NEW g \in BagToSet(go[p]), Becomes(p, g, {}),
           UNCHANGED <<exists, psi, late, locked, loopRound, proc>>
    PROVE  \A r \in Parties : StartInv(r)'
BY StartBecomes, StaysSame

LEMMA NewLearnerStart ==
    ASSUME StartPre, NEW p \in Parties, NewLearner(p)
    PROVE  \A r \in Parties : StartInv(r)'
<1>0. TypeInv /\ StartInv(p) /\ Other(p) \in Parties /\ Other(p) # p /\ Other(Other(p)) = p
  BY OtherParty DEF StartPre
<1> DEFINE x == Local("PsiEnc", 0)
<1>1. x.do = "PsiEnc"
  BY DEF Local
<1>2. go' = [go EXCEPT ![p] = SetToBag({x})] /\ exists' = [exists EXCEPT ![p] = "yes"]
      /\ UNCHANGED <<loopRound, locked, psi, proc, late>> /\ exists[p] = "no"
  BY DEF NewLearner
<1> HIDE DEF x
<1>3. BagToSet(SetToBag({x})) = {x} /\ SetToBag({x})[x] = 1
  BY DEF BagToSet, SetToBag
<1>4. go'[p] = SetToBag({x}) /\ go'[Other(p)] = go[Other(p)]
  BY <1>0, <1>2 DEF TypeInv, GoInv
<1>5. exists'[p] = "yes" /\ exists'[Other(p)] = exists[Other(p)]
  BY <1>0, <1>2 DEF TypeInv
<1>6. Aside(Other(p))
  BY <1>0, <1>2, <1>4, <1>5 DEF Aside
<1>7. Exclusive(p)'
  BY <1>1, <1>3, <1>4 DEF Exclusive, Solo, SoloBag, Doing
<1>8. ~ psi'[p].mine /\ psi'[Other(p)].others = psi'[p].mine /\ \A h \in late'[p] : h.do # "ReEnc"
  BY <1>0, <1>2 DEF StartInv
<1>9. \A h \in BagToSet(go'[p]) : Timed(p, h)
  BY <1>1, <1>3, <1>4 DEF Timed
<1>10. Stays(p)
  BY <1>2, StaysSame
<1>11. StartInv(p)'
  BY <1>0, <1>2, <1>5, <1>7, <1>8, <1>9, <1>10, StartKept
<1> QED BY <1>6, <1>11, StartBoth

LEMMA PsiStart ==
    ASSUME StartPre, NEW p \in Parties, NEW g \in BagToSet(go[p]),
           PsiEnc(p, g) \/ PsiIntersect(p, g) \/ TrainHup(p, g)
    PROVE  \A r \in Parties : StartInv(r)'
<1>0. /\ TypeInv /\ StartInv(p) /\ Other(p) \in Parties /\ Other(p) # p /\ Other(Other(p)) = p
      /\ IsBag(go[p]) /\ proc[p].round \in Nat /\ proc[p] \in Processes
  BY OtherParty, TypeFacts DEF StartPre
<1>1. CASE PsiEnc(p, g)
  <2> DEFINE x == Call("ReEnc", loopRound[p], 0)
  <2>1. x.do = "ReEnc"
    BY DEF Call
  <2>2. Becomes(p, g, {x}) /\ UNCHANGED <<exists, loopRound, locked, psi, proc, late>> /\ g.do = "PsiEnc"
    BY <1>1 DEF PsiEnc
  <2> HIDE DEF x
  <2>3. /\ go'[p] = Replace(go[p], g, {x})
        /\ \A r \in Parties : r # p => go'[r] = go[r]
        /\ BagToSet(go'[p]) \subseteq BagToSet(go[p]) \cup {x}
    BY <1>0, <2>2, BecomesGo
  <2>4. Aside(Other(p))
    BY <1>0, <2>2, <2>3 DEF Aside
  <2>5. Solo(p, Asking)'
    <3>1. SoloBag(go[p], Asking) /\ g.do \in Asking
      BY <1>0, <2>2 DEF Solo, Asking, StartInv
    <3>2. SoloBag(Replace(go[p], g, {x}), Asking)
      BY <1>0, <3>1, SoloReplaced
    <3> QED BY <2>3, <3>2 DEF Solo
  <2>6. Solo(p, {"HomoPubkey"})' /\ (Doing(p, {"HomoPubkey"})' => Doing(p, {"HomoPubkey"}))
    <3>1. \A h \in {x} : h.do \notin {"HomoPubkey"}
      BY <2>1
    <3>2. Solo(p, {"HomoPubkey"})
      BY <1>0 DEF StartInv
    <3> QED BY <1>0, <2>2, <3>1, <3>2, SoloBecomes
  <2>7. Exclusive(p)'
    BY <1>0, <2>2, <2>5, <2>6 DEF Exclusive, StartInv
  <2>8. exists'[p] # "no"
    BY <1>0, <2>2, Acting
  <2>9. ~ psi'[p].mine /\ psi'[Other(p)].others = psi'[p].mine /\ \A h \in late'[p] : h.do # "ReEnc"
    BY <1>0, <2>2 DEF StartInv, Doing, Asking
  <2>10. Timed(p, x)
    BY <2>1 DEF Timed
  <2>11. Stays(p)
    BY <2>2, StaysSame
  <2>12. StartInv(p)'
    BY <1>0, <2>2, <2>3, <2>7, <2>8, <2>9, <2>10, <2>11, StartKept
  <2> QED BY <2>4, <2>12, StartBoth
<1>2. CASE PsiIntersect(p, g)
  <2>1. UNCHANGED <<exists, psi, late, locked, loopRound, proc>>
    BY <1>2 DEF PsiIntersect
  <2>2. CASE Becomes(p, g, {})
    BY <2>1, <2>2, StartEnds
  <2>3. CASE Becomes(p, g, {Local("TrainHup", 0)}) /\ IntersectParts(p)
    <3>1. PICK x : x = Local("TrainHup", 0)
      OBVIOUS
    <3>2. x.do = "TrainHup"
      BY <3>1 DEF Local
    <3>3. ~ (proc[p].round > 0)
      BY <1>0, <1>2 DEF PsiIntersect, StartInv, Doing
    <3>4. Timed(p, x)
      BY <2>1, <2>3, <3>2, <3>3 DEF Timed, IntersectParts
    <3>5. Becomes(p, g, {x})
      BY <2>3, <3>1
    <3>6. Stays(p)
      BY <2>1, StaysSame
    <3> QED BY <2>1, <3>2, <3>4, <3>5, <3>6, StartBecomes
  <2> QED BY <1>2, <2>2, <2>3 DEF PsiIntersect
<1>3. CASE TrainHup(p, g)
  <2>1. CASE status[p] # EndPSI
    BY <1>3, <2>1, StartEnds DEF TrainHup
  <2>2. CASE status[p] = EndPSI
    <3> DEFINE x == Call("HomoPubkey", loopRound[p], 0)
    <3>1. x.do = "HomoPubkey"
      BY DEF Call
    <3>2. /\ Becomes(p, g, {x}) /\ UNCHANGED <<exists, loopRound, psi, late>> /\ g.do = "TrainHup"
          /\ proc' = [proc EXCEPT ![p].thetas = 0] /\ locked' = [locked EXCEPT ![p] = TRUE]
          /\ ~ locked[p]
      BY <1>3, <2>2 DEF TrainHup
    <3> HIDE DEF x
    <3>3. /\ go'[p] = Replace(go[p], g, {x})
          /\ \A r \in Parties : r # p => go'[r] = go[r]
          /\ BagToSet(go'[p]) \subseteq BagToSet(go[p]) \cup {x}
      BY <1>0, <3>2, BecomesGo
    <3>4. /\ proc'[Other(p)] = proc[Other(p)] /\ proc'[p] = [proc[p] EXCEPT !.thetas = 0]
          /\ locked'[Other(p)] = locked[Other(p)] /\ locked'[p]
      BY <1>0, <3>2 DEF TypeInv
    <3>5. Aside(Other(p))
      BY <1>0, <3>2, <3>3, <3>4 DEF Aside
    <3>6. ~ Doing(p, {"HomoPubkey"}) /\ proc[p].round = 0 /\ psi[p].mine /\ psi[p].others
      BY <1>0, <3>2 DEF StartInv, Doing
    <3>7. Solo(p, {"HomoPubkey"})'
      <4>1. PICK K : K = {"HomoPubkey"}
        OBVIOUS
      <4>2. SoloBag(go[p], K) /\ \A h \in BagToSet(go[p]) : h.do \notin K
        BY <1>0, <3>6, <4>1 DEF Solo, StartInv, Doing
      <4>3. SoloBag(Replace(go[p], g, {x}), K)
        BY <1>0, <4>2, SoloReplaced
      <4> QED BY <3>3, <4>1, <4>3 DEF Solo
    <3>8. Solo(p, Asking)' /\ (Doing(p, Asking)' => Doing(p, Asking))
      <4>1. \A h \in {x} : h.do \notin Asking
        BY <3>1 DEF Asking
      <4>2. Solo(p, Asking)
        BY <1>0 DEF StartInv
      <4> QED BY <1>0, <3>2, <4>1, <4>2, SoloBecomes
    <3>9. Exclusive(p)'
      BY <3>4, <3>7, <3>8 DEF Exclusive
    <3>10. exists'[p] # "no"
      BY <1>0, <3>2, Acting
    <3>11. /\ psi'[Other(p)].others = psi'[p].mine /\ (psi'[p].mine => ~ Doing(p, Asking)')
           /\ \A h \in late'[p] : h.do # "ReEnc"
      BY <1>0, <3>2, <3>8 DEF StartInv
    <3>12. /\ proc'[p].thetas = 0 /\ proc'[p].round = proc[p].round
           /\ proc'[p].rawPart = proc[p].rawPart
      BY <1>0, <3>4 DEF Processes
    <3>13. Stays(p)
      BY <3>2, <3>6, <3>12 DEF Stays
    <3>14. Timed(p, x)
      BY <3>1, <3>6, <3>12 DEF Timed, None
    <3>15. StartInv(p)'
      BY <1>0, <3>2, <3>3, <3>9, <3>10, <3>11, <3>13, <3>14, StartKept
    <3> QED BY <3>5, <3>15, StartBoth
  <2> QED BY <2>1, <2>2
<1> QED BY <1>1, <1>2, <1>3

\* The goroutines that start the training do not outlive its first round, and
\* no answer to a request for re-encryption arrives after its deadline.
Timely == ~ LateStart /\ \A m \in Unreliable : m[1] # "ReEnc"

\* TrainLoop(0) meets round 0 only, and the next round none of the start.
LEMMA LoopStart ==
    ASSUME Timely, StartPre, TypeInv', NEW p \in Parties, NEW g \in BagToSet(go[p]), TrainLoop(p, g)
    PROVE  \A r \in Parties : StartInv(r)'
<1>0. /\ TypeInv /\ StartInv(p) /\ Other(p) \in Parties /\ Other(p) # p /\ Other(Other(p)) = p
      /\ IsBag(go[p]) /\ proc[p].round \in Nat /\ proc[p] \in Processes /\ g.round \in Nat
      /\ proc'[p] \in Processes
  <2>1. BagToSet(go[p]) \subseteq Pool(p)
    BY DEF Pool
  <2> QED BY <2>1, OtherParty, TypeFacts DEF StartPre, TypeInv
<1>1. /\ UNCHANGED <<exists, psi, late, locked>> /\ g.do = "TrainLoop" /\ ~ locked[p]
  BY DEF TrainLoop
<1>2. CASE Becomes(p, g, {}) /\ UNCHANGED <<loopRound, proc>>
  BY <1>1, <1>2, StartEnds
<1>3. CASE EntersRound(p, g, g.round) /\ loopRound' = [loopRound EXCEPT ![p] = g.round]
             /\ (g.round = 0 \/ g.round = loopRound[p] + 1)
  <2>1. /\ Within(go'[p], go[p], {Local("CalLocalGradCost", 0)})
        /\ \A s \in Parties : s # p => go'[s] = go[s]
        /\ BagToSet(go'[p]) \subseteq BagToSet(go[p]) \cup {Local("CalLocalGradCost", 0)}
    BY <1>0, <1>3, EntersGo
  <2>2. PICK x : x = Local("CalLocalGradCost", 0)
    OBVIOUS
  <2>3. x.do = "CalLocalGradCost"
    BY <2>2 DEF Local
  <2>4. Within(go'[p], go[p], {x}) /\ BagToSet(go'[p]) \subseteq BagToSet(go[p]) \cup {x}
    BY <2>1, <2>2
  <2>5. /\ loopRound'[Other(p)] = loopRound[Other(p)] /\ proc'[Other(p)] = proc[Other(p)]
        /\ loopRound'[p] = g.round
    BY <1>0, <1>3 DEF TrainLoop, TypeInv
  <2>6. Aside(Other(p))
    BY <1>0, <1>1, <2>1, <2>5 DEF Aside
  <2>7. Solo(p, Asking)' /\ Solo(p, {"HomoPubkey"})'
    <3>1. \A h \in {x} : h.do \notin Asking /\ h.do \notin {"HomoPubkey"}
      BY <2>3 DEF Asking
    <3>2. SoloBag(go'[p], Asking)
      BY <1>0, <2>4, <3>1, SoloKept DEF StartInv, Solo
    <3>3. SoloBag(go'[p], {"HomoPubkey"})
      BY <1>0, <2>4, <3>1, SoloKept DEF StartInv, Solo
    <3> QED BY <3>2, <3>3 DEF Solo
  <2>8. \A h \in BagToSet(go'[p]) : h \in BagToSet(go[p]) \/ h = x
    BY <2>4
  <2>9. ~ Doing(p, {"HomoPubkey"})' /\ (Doing(p, Asking)' => Doing(p, Asking))
    BY <1>0, <1>1, <2>3, <2>8 DEF StartInv, Doing, Asking
  <2>10. Exclusive(p)'
    BY <2>7, <2>9 DEF Exclusive
  <2>11. exists'[p] # "no"
    BY <1>0, <1>1, Acting
  <2>12. /\ psi'[Other(p)].others = psi'[p].mine /\ (psi'[p].mine => ~ Doing(p, Asking)')
         /\ \A h \in late'[p] : h.do # "ReEnc"
    BY <1>0, <1>1, <2>9 DEF StartInv
  <2>13. /\ proc[p].thetas # None /\ proc[p].thetas = proc[p].round /\ loopRound[p] = proc[p].round
         /\ (proc[p].round > 0 => g.round > 0)
    BY <1>0, <1>1 DEF StartInv, Doing
  <2>14. CASE g.round = proc[p].round /\ UNCHANGED proc
    <3>1. Stays(p)
      BY <2>5, <2>13, <2>14 DEF Stays
    <3>2. Timed(p, x)
      BY <2>3, <2>13, <2>14 DEF Timed
    <3>3. StartInv(p)'
      BY <1>0, <1>1, <2>8, <2>10, <2>11, <2>12, <3>1, <3>2, StartKept
    <3> QED BY <2>6, <3>3, StartBoth
  <2>15. CASE g.round = proc[p].round + 1 /\ proc' = [proc EXCEPT ![p] = upRound(@)]
    <3>1. proc'[p] = upRound(proc[p])
      BY <1>0, <2>15 DEF TypeInv
    <3>2. /\ proc'[p].round = proc[p].round + 1 /\ proc'[p].thetas = proc[p].thetas + 1
      BY <3>1 DEF upRound, NewProcess
    <3>3. proc'[p].thetas = proc'[p].round /\ proc'[p].thetas # None /\ loopRound'[p] = proc'[p].round
      BY <1>0, <2>5, <2>13, <2>15, <3>2 DEF None
    <3>4. \A h \in BagToSet(go[p]) : /\ h.do \notin {"Intersect", "TrainHup"}
                                     /\ h.do = "TrainLoop" => h.round > 0
      BY <1>0, <2>15 DEF TrainLoop, Timely
    <3>5. /\ ~ Doing(p, {"Intersect", "TrainHup", "HomoPubkey"})'
          /\ \A h \in BagToSet(go'[p]) : h.do = "TrainLoop" => h.round > 0
      BY <2>3, <2>8, <2>9, <3>4 DEF Doing
    <3>6. psi'[p].mine /\ psi'[p].others
      BY <1>0, <1>1, <2>13 DEF StartInv
    <3>7. ~ Doing(p, {"TrainHup"})'
      BY <3>5 DEF Doing
    <3>8. StartInv(p)'
      BY <2>10, <2>11, <2>12, <3>3, <3>5, <3>6, <3>7 DEF StartInv, Exclusive
    <3> QED BY <2>6, <3>8, StartBoth
  <2>16. g.round \in {proc[p].round, proc[p].round + 1}
    BY <1>0, <1>3, <2>13
  <2>17. CASE g.round = proc[p].round
    BY <1>0, <1>3, <2>14, <2>17 DEF TrainLoop
  <2>18. CASE g.round = proc[p].round + 1
    BY <1>0, <2>13, <2>15, <2>18 DEF TrainLoop
  <2> QED BY <2>14, <2>15, <2>16, <2>17, <2>18
<1>4. loopRound[p] = proc[p].round /\ (g.round = 0 => proc[p].round = 0)
  BY <1>0, <1>1 DEF StartInv
<1> QED BY <1>0, <1>2, <1>3, <1>4 DEF TrainLoop

\* A new goroutine of a later stage may be there at any time.
LEMMA LaterTimed ==
    ASSUME NEW r, NEW h,
           h.do \notin {"TrainHup", "HomoPubkey", "TrainLoop", "CalLocalGradCost", "Intersect"}
    PROVE  Timed(r, h)
BY DEF Timed

\* The process of p alone changes, but neither its round nor its parameters.
LEMMA StaysProc ==
    ASSUME TypeInv, NEW p \in Parties, NEW x, proc' = [proc EXCEPT ![p] = x], UNCHANGED loopRound,
           x.round = proc[p].round, x.thetas = proc[p].thetas,
           x.rawPart => proc[p].rawPart \/ proc[p].thetas # None
    PROVE  Stays(p) /\ proc'[Other(p)] = proc[Other(p)] /\ loopRound'[Other(p)] = loopRound[Other(p)]
<1>1. proc'[p] = x /\ proc'[Other(p)] = proc[Other(p)]
  BY OtherParty DEF TypeInv
<1> QED BY <1>1 DEF Stays

LEMMA CalcStart ==
    ASSUME StartPre, NEW p \in Parties, NEW g \in BagToSet(go[p]),
           CalLocalGradCost(p, g) \/ CalEncGradCost(p, g) \/ DecLocalGradCost(p, g)
             \/ UpdCostGrad(p, g)
    PROVE  \A r \in Parties : StartInv(r)'
<1>0. /\ TypeInv /\ StartInv(p) /\ proc[p] \in Processes
  BY TypeFacts DEF StartPre
<1>1. CASE CalLocalGradCost(p, g)
  <2>1. UNCHANGED <<exists, psi, late, locked, loopRound>> /\ g.do = "CalLocalGradCost"
    BY <1>1 DEF CalLocalGradCost, Past
  <2>2. PICK x : x = [proc[p] EXCEPT !.rawPart = TRUE]
    OBVIOUS
  <2>3. proc' = [proc EXCEPT ![p] = x]
    BY <1>1, <2>2 DEF CalLocalGradCost
  <2>4. x.round = proc[p].round /\ x.thetas = proc[p].thetas
    BY <1>0, <2>2 DEF Processes
  <2>5. proc[p].thetas # None
    BY <1>0, <2>1 DEF StartInv, Doing
  <2>6. Stays(p) /\ proc'[Other(p)] = proc[Other(p)] /\ loopRound'[Other(p)] = loopRound[Other(p)]
    BY <1>0, <2>1, <2>3, <2>4, <2>5, StaysProc
  <2>7. PICK gs : gs = IF proc[p].rawPart THEN {} ELSE {Call("PartBytes", RoundOf(p, g), proc[p].round)}
    OBVIOUS
  <2>8. Becomes(p, g, gs)
    BY <1>1, <2>7 DEF CalLocalGradCost
  <2>9. \A h \in gs : h.do = "PartBytes"
    BY <2>7 DEF Call
  <2>10. \A h \in gs : h.do \notin {"PsiEnc", "ReEnc", "HomoPubkey"} /\ Timed(p, h)
    BY <2>9, LaterTimed
  <2> QED BY <2>1, <2>6, <2>8, <2>10, StartBecomes
<1>2. CASE CalEncGradCost(p, g)
  <2>1. UNCHANGED <<exists, psi, late, locked, loopRound>>
    BY <1>2 DEF CalEncGradCost
  <2>2. PICK first : first = (EncReady(proc[p]) /\ proc[p].pub)
    OBVIOUS
  <2>3. PICK x : x = IF first THEN [proc[p] EXCEPT !.noise = TRUE] ELSE proc[p]
    OBVIOUS
  <2>4. proc' = [proc EXCEPT ![p] = x]
    BY <1>0, <1>2, <2>2, <2>3 DEF CalEncGradCost, TypeInv
  <2>5. x.round = proc[p].round /\ x.thetas = proc[p].thetas /\ x.rawPart = proc[p].rawPart
    BY <1>0, <2>3 DEF Processes
  <2>6. Stays(p) /\ proc'[Other(p)] = proc[Other(p)] /\ loopRound'[Other(p)] = loopRound[Other(p)]
    BY <1>0, <2>1, <2>4, <2>5, StaysProc
  <2>7. PICK gs : gs = IF first THEN {Call("EncGradCost", g.round, proc[p].round)} ELSE {}
    OBVIOUS
  <2>8. Becomes(p, g, gs)
    BY <1>2, <2>2, <2>7 DEF CalEncGradCost
  <2>9. \A h \in gs : h.do = "EncGradCost"
    BY <2>7 DEF Call
  <2>10. \A h \in gs : h.do \notin {"PsiEnc", "ReEnc", "HomoPubkey"} /\ Timed(p, h)
    BY <2>9, LaterTimed
  <2> QED BY <2>1, <2>6, <2>8, <2>10, StartBecomes
<1>3. CASE DecLocalGradCost(p, g)
  <2>1. UNCHANGED <<exists, psi, late, locked, loopRound>>
    BY <1>3 DEF DecLocalGradCost
  <2>2. PICK first : first = (~ proc[p].dec /\ proc[p].encFrom # None)
    OBVIOUS
  <2>3. PICK x : x = IF first THEN [proc[p] EXCEPT !.dec = TRUE] ELSE proc[p]
    OBVIOUS
  <2>4. proc' = [proc EXCEPT ![p] = x]
    BY <1>0, <1>3, <2>2, <2>3 DEF DecLocalGradCost, TypeInv
  <2>5. x.round = proc[p].round /\ x.thetas = proc[p].thetas /\ x.rawPart = proc[p].rawPart
    BY <1>0, <2>3 DEF Processes
  <2>6. Stays(p) /\ proc'[Other(p)] = proc[Other(p)] /\ loopRound'[Other(p)] = loopRound[Other(p)]
    BY <1>0, <2>1, <2>4, <2>5, StaysProc
  <2>7. PICK gs : gs = IF first THEN {Call("GradAndCost", g.round, proc[p].encFrom)} ELSE {}
    OBVIOUS
  <2>8. Becomes(p, g, gs)
    BY <1>3, <2>2, <2>7 DEF DecLocalGradCost
  <2>9. \A h \in gs : h.do = "GradAndCost"
    BY <2>7 DEF Call
  <2>10. \A h \in gs : h.do \notin {"PsiEnc", "ReEnc", "HomoPubkey"} /\ Timed(p, h)
    BY <2>9, LaterTimed
  <2> QED BY <2>1, <2>6, <2>8, <2>10, StartBecomes
<1>4. CASE UpdCostGrad(p, g)
  <2>1. UNCHANGED <<exists, psi, late, locked, loopRound>>
    BY <1>4 DEF UpdCostGrad
  <2>2. PICK s : /\ proc' = [proc EXCEPT ![p].stopped = s]
                 /\ Becomes(p, g, {Call("Status", g.round, s)})
    BY <1>4 DEF UpdCostGrad
  <2>3. PICK x : x = [proc[p] EXCEPT !.stopped = s]
    OBVIOUS
  <2>4. proc' = [proc EXCEPT ![p] = x]
    BY <2>2, <2>3
  <2>5. x.round = proc[p].round /\ x.thetas = proc[p].thetas /\ x.rawPart = proc[p].rawPart
    BY <1>0, <2>3 DEF Processes
  <2>6. Stays(p) /\ proc'[Other(p)] = proc[Other(p)] /\ loopRound'[Other(p)] = loopRound[Other(p)]
    BY <1>0, <2>1, <2>4, <2>5, StaysProc
  <2>7. PICK gs : gs = {Call("Status", g.round, s)}
    OBVIOUS
  <2>8. Becomes(p, g, gs)
    BY <2>2, <2>7
  <2>9. \A h \in gs : h.do = "Status"
    BY <2>7 DEF Call
  <2>10. \A h \in gs : h.do \notin {"PsiEnc", "ReEnc", "HomoPubkey"} /\ Timed(p, h)
    BY <2>9, LaterTimed
  <2> QED BY <2>1, <2>6, <2>8, <2>10, StartBecomes
<1> QED BY <1>1, <1>2, <1>3, <1>4

LEMMA EndStart ==
    ASSUME StartPre, RoundPre, NEW p \in Parties, NEW g \in BagToSet(go[p]),
           OtherRound(p, g) \/ Suspend(p, g) \/ CheckStatus(p, g) \/ TrainModels(p, g)
             \/ CalculationFails(p, g) \/ Hold(p, g)
    PROVE  \A r \in Parties : StartInv(r)'
<1>0. /\ TypeInv /\ StartInv(p) /\ proc[p] \in Processes /\ RoundInv(p)
      /\ loopRound[p] \in Rounds /\ GoroutineOK(g) /\ g.round \in Nat
  <2>1. BagToSet(go[p]) \subseteq Pool(p)
    BY DEF Pool
  <2> QED BY <2>1, TypeFacts DEF StartPre, RoundPre
<1>1. CASE OtherRound(p, g)
  BY <1>1, StartEnds DEF OtherRound
<1>2. CASE TrainModels(p, g)
  BY <1>2, StartEnds DEF TrainModels
<1>3. CASE CalculationFails(p, g)
  BY <1>3, StartEnds DEF CalculationFails, Fails
<1>4. CASE Suspend(p, g)
  <2>1. UNCHANGED <<exists, psi, late, locked, loopRound, proc>> /\ g.do \in RoundChecked
    BY <1>4 DEF Suspend
  <2>2. PICK x : x = Late(g, loopRound[p])
    OBVIOUS
  <2>3. Becomes(p, g, {x})
    BY <1>4, <2>2 DEF Suspend, Late
  <2>4. x.do = g.do
    BY <1>0, <2>1, <2>2, LateOK
  <2>5. x.do = "CalLocalGradCost" => proc[p].thetas # None
    BY <1>0, <2>4 DEF StartInv, Doing
  <2>6. x.do \notin {"PsiEnc", "ReEnc", "HomoPubkey"} /\ Timed(p, x)
    BY <2>1, <2>4, <2>5 DEF Timed, RoundChecked
  <2>7. Stays(p)
    BY <2>1, StaysSame
  <2> QED BY <2>1, <2>3, <2>6, <2>7, StartBecomes
<1>5. CASE CheckStatus(p, g)
  <2>1. UNCHANGED <<exists, psi, late, locked, loopRound, proc>>
    BY <1>5 DEF CheckStatus
  <2>2. CASE ~ decided(proc[p])
    BY <1>5, <2>1, <2>2, StartEnds DEF CheckStatus
  <2>3. CASE decided(proc[p])
    <3>1. PICK x : x = IF stop(proc[p]) THEN Local("TrainModels", g.round) ELSE Local("TrainLoop", g.round + 1)
      OBVIOUS
    <3>2. Becomes(p, g, {x})
      BY <1>5, <2>3, <3>1 DEF CheckStatus
    <3>3. x.do = "TrainModels" \/ (x.do = "TrainLoop" /\ x.round > 0)
      BY <1>0, <3>1 DEF Local
    <3>4. proc[p].thetas # None
      BY <1>0, <2>3 DEF RoundInv, Apart, decided, StartInv
    <3>5. x.do \notin {"PsiEnc", "ReEnc", "HomoPubkey"} /\ Timed(p, x)
      BY <2>1, <3>3, <3>4 DEF Timed
    <3>6. Stays(p)
      BY <2>1, StaysSame
    <3> QED BY <2>1, <3>2, <3>5, <3>6, StartBecomes
  <2> QED BY <2>2, <2>3
<1>6. CASE Hold(p, g)
  <2>1. UNCHANGED <<exists, psi, late, locked, loopRound, proc>> /\ g.do \in Compared
    BY <1>6 DEF Hold, Enters
  <2>2. PICK x : x = Held(g)
    OBVIOUS
  <2>3. Becomes(p, g, {x})
    BY <1>6, <2>2 DEF Hold, Held
  <2>4. x.do = g.do
    BY <1>0, <2>1, <2>2, HeldOK DEF Compared, Messages
  <2>5. x.do \notin {"PsiEnc", "ReEnc", "HomoPubkey"} /\ Timed(p, x)
    BY <2>1, <2>4 DEF Timed, Compared
  <2>6. Stays(p)
    BY <2>1, StaysSame
  <2> QED BY <2>1, <2>3, <2>5, <2>6, StartBecomes
<1> QED BY <1>1, <1>2, <1>3, <1>4, <1>5, <1>6

\* A call that fails is tried again, or the goroutine ends: then it holds the
\* lock no more.
LEMMA RetryStart ==
    ASSUME StartPre, NEW p \in Parties, NEW g \in BagToSet(go[p]), NEW gs, Becomes(p, g, gs),
           UNCHANGED <<exists, psi, loopRound, proc>>, locked'[Other(p)] = locked[Other(p)],
           \/ gs = Tries(g) /\ g.tries < 2 /\ locked'[p] = locked[p]
           \/ gs = {} /\ (g.do # "HomoPubkey" => locked'[p] = locked[p]),
           late'[Other(p)] = late[Other(p)], late'[p] \subseteq late[p] \cup {g},
           late'[p] # late[p] => g.do # "ReEnc", g.do \in Messages
    PROVE  \A r \in Parties : StartInv(r)'
<1>0. /\ TypeInv /\ StartInv(p) /\ IsBag(go[p]) /\ GoroutineOK(g)
      /\ Other(p) \in Parties /\ Other(p) # p /\ Other(Other(p)) = p
  <2>1. BagToSet(go[p]) \subseteq Pool(p)
    BY DEF Pool
  <2> QED BY <2>1, OtherParty, TypeFacts DEF StartPre
<1>1. /\ go'[p] = Replace(go[p], g, gs)
      /\ \A r \in Parties : r # p => go'[r] = go[r]
      /\ BagToSet(go'[p]) \subseteq BagToSet(go[p]) \cup gs
  BY <1>0, BecomesGo
<1>2. Aside(Other(p))
  BY <1>0, <1>1 DEF Aside
<1>3. \A h \in gs : h.do = g.do /\ h.round = g.round
  BY <1>0, TriesOK
<1>4. gs = {} \/ gs = {Again(g)}
  BY DEF Tries
<1>5. ASSUME NEW K, SoloBag(go[p], K)
      PROVE  SoloBag(go'[p], K) /\ (\A h \in BagToSet(go'[p]) : h.do \in K => \E i \in BagToSet(go[p]) : i.do \in K)
  <2>1. CASE \A h \in gs : h.do \notin K
    <3>1. Within(go'[p], go[p], gs)
      BY <1>0, BecomesGo
    <3> QED BY <1>0, <1>5, <2>1, <3>1, SoloKept DEF Within
  <2>2. CASE gs = {Again(g)} /\ g.do \in K
    <3>1. SoloBag(Replace(go[p], g, {Again(g)}), K)
      BY <1>0, <1>5, <2>2, SoloReplaced
    <3> QED BY <1>1, <2>2, <3>1
  <2> QED BY <1>3, <1>4, <2>1, <2>2
<1>6. Solo(p, Asking)' /\ (Doing(p, Asking)' => Doing(p, Asking))
  <2>1. SoloBag(go[p], Asking)
    BY <1>0 DEF StartInv, Solo
  <2> QED BY <1>5, <2>1 DEF Solo, Doing
<1>7. Solo(p, {"HomoPubkey"})' /\ (Doing(p, {"HomoPubkey"})' => Doing(p, {"HomoPubkey"}))
  <2>1. PICK K : K = {"HomoPubkey"}
    OBVIOUS
  <2>2. SoloBag(go[p], K)
    BY <1>0, <2>1 DEF StartInv, Solo
  <2>3. SoloBag(go'[p], K) /\ (Doing(p, K)' => Doing(p, K))
    BY <1>5, <2>2 DEF Doing
  <2> QED BY <2>1, <2>3 DEF Solo
<1>8. Doing(p, {"HomoPubkey"})' => locked'[p]
  <2>1. CASE locked'[p] = locked[p]
    BY <1>0, <1>7, <2>1 DEF StartInv
  <2>2. CASE gs = {} /\ g.do = "HomoPubkey"
    <3>1. Solo(p, {"HomoPubkey"}) /\ \A h \in gs : h.do \notin {"HomoPubkey"}
      BY <1>0, <2>2 DEF StartInv
    <3>2. ~ Doing(p, {"HomoPubkey"})'
      BY <1>0, <2>2, <3>1, SoloBecomes
    <3> QED BY <3>2
  <2> QED BY <2>1, <2>2
<1>9. Exclusive(p)'
  BY <1>6, <1>7, <1>8 DEF Exclusive
<1>10. exists'[p] # "no"
  BY <1>0, Acting
<1>11. /\ psi'[Other(p)].others = psi'[p].mine /\ (psi'[p].mine => ~ Doing(p, Asking)')
       /\ \A h \in late'[p] : h.do # "ReEnc"
  BY <1>0, <1>6 DEF StartInv
<1>12. Stays(p)
  BY StaysSame
<1>13. \A h \in gs : Timed(p, h)
  BY <1>0, <1>3 DEF Timed, StartInv, Doing
<1>14. StartInv(p)'
  BY <1>0, <1>1, <1>9, <1>10, <1>11, <1>12, <1>13, StartKept
<1> QED BY <1>2, <1>14, StartBoth

\* The party q that a message of its peer reaches.
LEMMA GetsStart ==
    ASSUME StartPre, NEW q \in Parties, NEW g, GoroutineOK(g), g.do \in Messages,
           proc'[q] = Received(q, g), loopRound'[q] = loopRound[q], locked'[q] = locked[q],
           go'[q] = Plus(go[q], Started(q, g)), exists'[q] # "no", late'[q] = late[q],
           psi'[q].mine = psi[q].mine, psi[q].others => psi'[q].others,
           psi'[Other(q)].others = psi[Other(q)].others,
           g.do = "ReEnc" => ~ psi[q].others, ~ Overtaken(q, g)
    PROVE  StartInv(q)'
<1>0. TypeInv /\ StartInv(q) /\ IsBag(go[q]) /\ proc[q].round \in Nat
  BY TypeFacts DEF StartPre
<1>1. Stays(q)
  BY <1>0, ReceivedOK DEF Stays
<1>2. PICK gs : gs = Started(q, g)
  OBVIOUS
<1>3. \A h \in gs : \/ g.do = "ReEnc" /\ h = Local("Intersect", 0)
                    \/ h.do \in {"CalEncGradCost", "DecLocalGradCost", "UpdCostGrad", "CheckStatus"}
  BY <1>0, <1>2, StartedOK
<1>4. \A h \in gs : /\ h.do \in {"Intersect", "CalEncGradCost", "DecLocalGradCost", "UpdCostGrad", "CheckStatus"}
                    /\ h.do = "Intersect" => g.do = "ReEnc"
  BY <1>3 DEF Local
<1>5. g.do = "ReEnc" => ~ (proc[q].round > 0)
  BY <1>0 DEF StartInv
<1>6. \A h \in gs : Timed(q, h)
  BY <1>4, <1>5 DEF Timed
<1>7. Within(go'[q], go[q], gs)
  BY <1>0, <1>2, PlusWithin
<1>8. \A h \in gs : h.do \notin Asking /\ h.do \notin {"HomoPubkey"}
  BY <1>4 DEF Asking
<1>9. \A h \in BagToSet(go'[q]) : h \in BagToSet(go[q]) \/ h \in gs
  BY <1>7 DEF Within
<1>10. SoloBag(go'[q], Asking) /\ SoloBag(go'[q], {"HomoPubkey"})
  <2>1. SoloBag(go[q], Asking) /\ SoloBag(go[q], {"HomoPubkey"})
    BY <1>0 DEF StartInv, Solo
  <2> QED BY <1>0, <1>7, <1>8, <2>1, SoloKept
<1>11. (Doing(q, Asking)' => Doing(q, Asking)) /\ (Doing(q, {"HomoPubkey"})' => Doing(q, {"HomoPubkey"}))
  BY <1>8, <1>9 DEF Doing
<1>12. Exclusive(q)'
  BY <1>0, <1>10, <1>11 DEF Exclusive, Solo, StartInv
<1>13. /\ psi'[Other(q)].others = psi'[q].mine /\ (psi'[q].mine => ~ Doing(q, Asking)')
       /\ \A h \in late'[q] : h.do # "ReEnc"
  BY <1>0, <1>11 DEF StartInv
<1> QED BY <1>0, <1>1, <1>6, <1>9, <1>12, <1>13, StartKept

LEMMA DeliverStart ==
    ASSUME StartPre, NEW p \in Parties, NEW g \in BagToSet(go[p]), Deliver(p, g),
           ~ Overtaken(Other(p), g)
    PROVE  \A r \in Parties : StartInv(r)'
<1> DEFINE q == Other(p)
<1>0. /\ TypeInv /\ StartInv(p) /\ StartInv(q) /\ IsBag(go[p]) /\ GoroutineOK(g) /\ g.do \in Messages
      /\ q \in Parties /\ q # p /\ Other(q) = p /\ \A r \in Parties : r = p \/ r = q
      /\ proc[p].round \in Nat
  <2>1. BagToSet(go[p]) \subseteq Pool(p)
    BY DEF Pool
  <2> QED BY <2>1, OtherParty, TypeFacts DEF StartPre, Deliver, Calling
<1>1. /\ UNCHANGED <<exists, loopRound, late>> /\ exists[q] # "no" /\ ~ Overtaken(q, g)
      /\ proc' = [proc EXCEPT ![q] = Received(q, g)]
      /\ psi' = [psi EXCEPT ![p] = SetReEncryptIDSet(p, g), ![q] = SetOtherFinalReEncryptIDSet(q, g)]
      /\ locked' = [locked EXCEPT ![p] = @ /\ g.do # "HomoPubkey"]
  BY DEF Deliver, Found
<1>2. /\ go'[p] = Replace(go[p], g, Answered(g)) /\ go'[q] = Plus(go[q], Started(q, g))
      /\ Within(go'[p], go[p], Answered(g))
  BY <1>0, DeliverGo
<1>3. /\ proc'[q] = Received(q, g) /\ proc'[p] = proc[p]
      /\ locked'[q] = locked[q] /\ locked'[p] = (locked[p] /\ g.do # "HomoPubkey")
  BY <1>0, <1>1 DEF TypeInv
<1>4. /\ psi'[p].mine = (psi[p].mine \/ g.do = "ReEnc") /\ psi'[p].others = psi[p].others
      /\ psi'[q].others = (psi[q].others \/ g.do = "ReEnc") /\ psi'[q].mine = psi[q].mine
  <2>1. psi'[p] = SetReEncryptIDSet(p, g) /\ psi'[q] = SetOtherFinalReEncryptIDSet(q, g)
    BY <1>0, <1>1 DEF TypeInv
  <2>2. /\ SetReEncryptIDSet(p, g).mine = (psi[p].mine \/ g.do = "ReEnc")
        /\ SetReEncryptIDSet(p, g).others = psi[p].others
    BY <1>0, PsiOK
  <2>3. /\ SetOtherFinalReEncryptIDSet(q, g).others = (psi[q].others \/ g.do = "ReEnc")
        /\ SetOtherFinalReEncryptIDSet(q, g).mine = psi[q].mine
    BY <1>0, PsiOK
  <2> QED BY <2>1, <2>2, <2>3
<1>5. g.do = "ReEnc" => ~ psi[p].mine /\ ~ psi[q].others
  BY <1>0 DEF StartInv, Doing, Asking
<1> HIDE DEF q
<1>6. StartInv(q)'
  BY <1>0, <1>1, <1>2, <1>3, <1>4, <1>5, GetsStart
<1>7. PICK gs : gs = Answered(g)
  OBVIOUS
<1>8. \A h \in gs : \/ g.do = "ReEnc" /\ h = Local("Intersect", 0)
                    \/ g.do = "HomoPubkey" /\ h = Local("TrainLoop", 0)
                    \/ h.do \in {"CalEncGradCost", "CheckStatus"}
  BY <1>0, <1>7, StartedOK
<1>9. \A h \in gs : /\ h.do \in {"Intersect", "TrainLoop", "CalEncGradCost", "CheckStatus"}
                    /\ h.do = "Intersect" => g.do = "ReEnc"
                    /\ h.do = "TrainLoop" => g.do = "HomoPubkey"
  BY <1>8 DEF Local
<1>10. \A h \in gs : h.do \notin Asking /\ h.do \notin {"HomoPubkey"}
  BY <1>9 DEF Asking
<1>11. /\ g.do = "ReEnc" => ~ (proc[p].round > 0)
       /\ g.do = "HomoPubkey" => ~ (proc[p].round > 0) /\ proc[p].thetas # None
  BY <1>0, <1>5 DEF StartInv, Doing
<1>12. \A h \in gs : Timed(p, h)
  BY <1>3, <1>9, <1>11 DEF Timed
<1>13. SoloBag(go[p], Asking) /\ SoloBag(go[p], {"HomoPubkey"})
  BY <1>0 DEF StartInv, Solo
<1>14. SoloBag(go'[p], Asking) /\ SoloBag(go'[p], {"HomoPubkey"})
  BY <1>0, <1>2, <1>7, <1>10, <1>13, SoloKept
<1>15. \A h \in BagToSet(go'[p]) : h \in BagToSet(go[p]) \/ h \in gs
  BY <1>2, <1>7 DEF Within
<1>16. (Doing(p, Asking)' => Doing(p, Asking)) /\ (Doing(p, {"HomoPubkey"})' => Doing(p, {"HomoPubkey"}))
  BY <1>10, <1>15 DEF Doing
<1>17. g.do \in Asking => \A h \in BagToSet(go'[p]) : h.do \notin Asking
  BY <1>0, <1>2, <1>7, <1>10, <1>13, SoloEnds
<1>18. g.do \in {"HomoPubkey"} => \A h \in BagToSet(go'[p]) : h.do \notin {"HomoPubkey"}
  BY <1>0, <1>2, <1>7, <1>10, <1>13, SoloEnds
<1>19. Exclusive(p)'
  BY <1>0, <1>3, <1>14, <1>16, <1>18 DEF Exclusive, Solo, StartInv, Doing
<1>20. psi'[p].mine => ~ Doing(p, Asking)'
  BY <1>0, <1>4, <1>16, <1>17 DEF StartInv, Doing, Asking
<1>21. psi'[Other(p)].others = psi'[p].mine /\ \A h \in late'[p] : h.do # "ReEnc"
  BY <1>0, <1>1, <1>4 DEF StartInv, q
<1>22. exists'[p] # "no"
  BY <1>0, <1>1, Acting
<1>23. Stays(p)
  BY <1>1, <1>3, StaysSame
<1>24. StartInv(p)'
  BY <1>0, <1>4, <1>12, <1>15, <1>19, <1>20, <1>21, <1>22, <1>23, StartKept
<1> QED BY <1>0, <1>6, <1>24

LEMMA LateStarts ==
    ASSUME StartPre, NEW p \in Parties, NEW g \in late[p], LateDelivery(p, g),
           ~ Overtaken(Other(p), g)
    PROVE  \A r \in Parties : StartInv(r)'
<1> DEFINE q == Other(p)
<1>0. /\ TypeInv /\ StartInv(p) /\ StartInv(q) /\ GoroutineOK(g) /\ g.do \in Messages
      /\ q \in Parties /\ q # p /\ Other(q) = p /\ \A r \in Parties : r = p \/ r = q
  BY OtherParty DEF StartPre, TypeInv, GoInv, Pool
<1>1. UNCHANGED <<exists, loopRound, locked>> /\ exists[q] # "no" /\ late' = [late EXCEPT ![p] = @ \ {g}]
      /\ ~ Overtaken(q, g)
  BY DEF LateDelivery, Found
<1>2. late'[q] = late[q] /\ late'[p] \subseteq late[p]
  BY <1>0, <1>1 DEF TypeInv, GoInv
<1>3. g.do # "ReEnc"
  BY <1>0 DEF StartInv
<1>4. CASE PartRefused(q, g)
  <2>1. UNCHANGED <<proc, psi, go>>
    BY <1>4 DEF LateDelivery
  <2>2. Aside(p) /\ Aside(q)
    BY <1>1, <1>2, <2>1 DEF Aside
  <2> QED BY <1>0, <2>2, StartAside
<1>5. CASE ~ PartRefused(q, g)
  <2>1. /\ proc' = [proc EXCEPT ![q] = Received(q, g)]
        /\ psi' = [psi EXCEPT ![q] = SetOtherFinalReEncryptIDSet(q, g)]
    BY <1>5 DEF LateDelivery
  <2>2. go'[p] = go[p] /\ go'[q] = Plus(go[q], Started(q, g))
    BY <1>0, <1>5, LateGo
  <2>3. /\ proc'[q] = Received(q, g) /\ proc'[p] = proc[p]
    BY <1>0, <2>1 DEF TypeInv
  <2>4. psi'[q] = SetOtherFinalReEncryptIDSet(q, g) /\ psi'[p] = psi[p]
    BY <1>0, <2>1 DEF TypeInv
  <2>5. psi[q].others \in BOOLEAN
    BY <1>0 DEF TypeInv
  <2>6. psi'[q].others = psi[q].others /\ psi'[q].mine = psi[q].mine
    <3>1. /\ SetOtherFinalReEncryptIDSet(q, g).others = (psi[q].others \/ g.do = "ReEnc")
          /\ SetOtherFinalReEncryptIDSet(q, g).mine = psi[q].mine
      BY <1>0, PsiOK
    <3> QED BY <1>3, <2>4, <2>5, <3>1
  <2>7. Aside(p)
    BY <1>0, <1>1, <1>2, <2>2, <2>3, <2>4, <2>6 DEF Aside
  <2>8. StartInv(p)'
    BY <1>0, <2>7, StartAside
  <2> HIDE DEF q
  <2>9. StartInv(q)'
    BY <1>0, <1>1, <1>2, <1>3, <2>2, <2>3, <2>4, <2>6, GetsStart
  <2> QED BY <1>0, <2>8, <2>9
<1> QED BY <1>4, <1>5

LEMMA LateHoldStart ==
    ASSUME StartPre, NEW p \in Parties, NEW g \in late[p], LateHold(p, g)
    PROVE  \A r \in Parties : StartInv(r)'
<1>1. PICK x : x = Held(g)
  OBVIOUS
<1>2. GoroutineOK(g) /\ g.do \in Messages /\ g.do # "ReEnc"
  BY DEF StartPre, TypeInv, GoInv, Pool, StartInv
<1>3. x.do # "ReEnc"
  BY <1>1, <1>2, HeldOK
<1>4. /\ late' = [late EXCEPT ![p] = (@ \ {g}) \cup {x}]
      /\ UNCHANGED <<exists, loopRound, locked, psi, proc, go>>
  BY <1>1 DEF LateHold, Held
<1>5. \A r \in Parties : \A h \in late'[r] : h \in late[r] \/ h = x
  BY <1>4 DEF StartPre, TypeInv, GoInv
<1> QED BY <1>3, <1>4, <1>5 DEF StartPre, StartInv, Solo, Doing

LEMMA CallStart ==
    ASSUME Timely, StartPre, NEW p \in Parties, NEW g \in BagToSet(go[p]),
           Refuse(p, g) \/ PeerDeleted(p, g) \/ NotYet(p, g) \/ TimeOut(p, g)
    PROVE  \A r \in Parties : StartInv(r)'
<1>0. /\ TypeInv /\ GoroutineOK(g) /\ g.do \in Messages /\ g.tries \in 0..2
      /\ Other(p) \in Parties /\ Other(p) # p
      /\ (g.do = "HomoPubkey" => locked[p]) /\ locked[p] \in BOOLEAN
  <2>1. BagToSet(go[p]) \subseteq Pool(p)
    BY DEF Pool
  <2>2. GoroutineOK(g) /\ g.do \in Messages
    BY <2>1, TypeFacts DEF StartPre, Refuse, PeerDeleted, NotYet, TimeOut, Calling
  <2>3. g.tries \in 0..2
    BY <2>2 DEF GoroutineOK
  <2>4. StartInv(p) /\ locked[p] \in BOOLEAN
    BY DEF StartPre, TypeInv
  <2> QED BY <2>2, <2>3, <2>4, OtherParty DEF StartPre, StartInv, Doing
<1>1. CASE PeerDeleted(p, g)
  <2>1. /\ Becomes(p, g, {}) /\ UNCHANGED <<exists, psi, loopRound, proc, late>>
        /\ locked' = [locked EXCEPT ![p] = @ /\ g.do # "HomoPubkey"]
    BY <1>1 DEF PeerDeleted, Fails
  <2>2. locked'[Other(p)] = locked[Other(p)] /\ (g.do # "HomoPubkey" => locked'[p] = locked[p])
    BY <1>0, <2>1 DEF TypeInv
  <2> QED BY <1>0, <2>1, <2>2, RetryStart
<1>2. g.tries < 2 \/ (g.tries = 2 /\ Tries(g) = {})
  BY <1>0 DEF Tries
<1>3. CASE Refuse(p, g)
  <2>1. Becomes(p, g, Tries(g)) /\ UNCHANGED <<exists, psi, loopRound, proc, late, locked>>
    BY <1>3, RetriedBecomes DEF Refuse
  <2> QED BY <1>0, <1>2, <2>1, RetryStart
<1>4. CASE NotYet(p, g)
  <2>1. /\ Becomes(p, g, Tries(g)) /\ UNCHANGED <<exists, psi, loopRound, proc, late>>
        /\ locked' = [locked EXCEPT ![p] = @ /\ ~ (g.do = "HomoPubkey" /\ g.tries = 2)]
    BY <1>4, RetriedBecomes DEF NotYet, GivesUp
  <2>2. /\ locked'[Other(p)] = locked[Other(p)]
        /\ ~ (g.do = "HomoPubkey" /\ g.tries = 2) => locked'[p] = locked[p]
    BY <1>0, <2>1 DEF TypeInv
  <2>3. CASE g.tries < 2
    BY <1>0, <2>1, <2>2, <2>3, RetryStart
  <2>4. CASE g.tries = 2 /\ Tries(g) = {}
    BY <1>0, <2>1, <2>2, <2>4, RetryStart
  <2> QED BY <1>2, <2>3, <2>4
<1>5. CASE TimeOut(p, g)
  <2>1. /\ Becomes(p, g, Tries(g)) /\ UNCHANGED <<exists, psi, loopRound, proc>>
        /\ locked' = [locked EXCEPT ![p] = @ /\ ~ (g.do = "HomoPubkey" /\ g.tries = 2)]
        /\ late' = [late EXCEPT ![p] = @ \cup {g}]
    BY <1>5, RetriedBecomes DEF TimeOut, GivesUp
  <2>2. /\ locked'[Other(p)] = locked[Other(p)]
        /\ ~ (g.do = "HomoPubkey" /\ g.tries = 2) => locked'[p] = locked[p]
    BY <1>0, <2>1 DEF TypeInv
  <2>3. late'[Other(p)] = late[Other(p)] /\ late'[p] = late[p] \cup {g}
    BY <1>0, <2>1 DEF TypeInv, GoInv
  <2>4. g.do # "ReEnc"
    BY <1>5 DEF TimeOut, Timely
  <2>5. CASE g.tries < 2
    BY <1>0, <2>1, <2>2, <2>3, <2>4, <2>5, RetryStart
  <2>6. CASE g.tries = 2 /\ Tries(g) = {}
    BY <1>0, <2>1, <2>2, <2>3, <2>4, <2>6, RetryStart
  <2> QED BY <1>2, <2>5, <2>6
<1> QED BY <1>1, <1>3, <1>4, <1>5

LEMMA StartStep ==
    ASSUME Timely, StartPre, RoundPre, faults \in Seq(FaultKinds), [Next]_vars, ~ Overtook'
    PROVE  \A r \in Parties : StartInv(r)'
<1>0. TypeInv'
  BY TypeStep DEF StartPre
<1>1. CASE UNCHANGED vars
  <2>1. \A r \in Parties : Aside(r)
    BY <1>1 DEF vars, Aside
  <2> QED BY <2>1, StartAside DEF StartPre
<1>2. ASSUME NEW p \in Parties, DeleteLearner(p)  PROVE \A r \in Parties : StartInv(r)'
  <2>1. \A r \in Parties : exists'[r] = "no" => exists[r] = "no"
    BY <1>2 DEF DeleteLearner, StartPre, TypeInv
  <2>2. \A r \in Parties : Aside(r)
    BY <1>2, <2>1 DEF DeleteLearner, Aside
  <2> QED BY <2>2, StartAside DEF StartPre
<1>3. ASSUME NEW p \in Parties, Step(p)  PROVE \A r \in Parties : StartInv(r)'
  <2>1. ASSUME NEW g \in BagToSet(go[p]), Deliver(p, g)  PROVE \A r \in Parties : StartInv(r)'
    <3>1. ~ Overtaken(Other(p), g)
      BY <2>1, MarkedInTime, OtherParty DEF Deliver, StartPre, StartInv, InTime
    <3> QED BY <2>1, <3>1, DeliverStart
  <2> QED BY <1>0, <1>2, <1>3, <2>1, NewLearnerStart, PsiStart, LoopStart, CalcStart, EndStart, CallStart
         DEF Step
<1>4. ASSUME NEW p \in Parties, Fault(p)  PROVE \A r \in Parties : StartInv(r)'
  <2>1. ASSUME NEW g \in late[p], LateDelivery(p, g)  PROVE \A r \in Parties : StartInv(r)'
    <3>1. ~ Overtaken(Other(p), g)
      BY <2>1, MarkedInTime, OtherParty DEF LateDelivery, StartPre, StartInv, InTime
    <3> QED BY <2>1, <3>1, LateStarts
  <2> QED BY <1>4, <2>1, EndStart, CallStart, LateHoldStart DEF Fault
<1> QED BY <1>1, <1>3, <1>4 DEF Next

-----------------------------------------------------------------------------
(***************************************************************************)
(* What has happened, and what has been handed over.                       *)
(***************************************************************************)
LEMMA FaultStep ==
    ASSUME faults \in Seq(FaultKinds), [Next]_vars
    PROVE  faults' \in Seq(FaultKinds) /\ (Suspended => Suspended') /\ (Overtook => Overtook')
<1>1. faults' = faults \/ \E k \in FaultKinds : faults' = Append(faults, k)
  <2>1. CASE UNCHANGED vars
    BY <2>1 DEF vars
  <2>2. ASSUME NEW p \in Parties, Step(p)
        PROVE  faults' = faults \/ \E k \in FaultKinds : faults' = Append(faults, k)
    BY <2>2 DEF Step, NewLearner, DeleteLearner, PsiEnc, PsiIntersect, TrainHup, TrainLoop, OtherRound,
                CalLocalGradCost, CalEncGradCost, DecLocalGradCost, UpdCostGrad, CheckStatus, TrainModels,
                Deliver, Refuse, PeerDeleted, Marks, FaultKinds
  <2>3. ASSUME NEW p \in Parties, Fault(p)
        PROVE  faults' = faults \/ \E k \in FaultKinds : faults' = Append(faults, k)
    BY <2>3 DEF Fault, NotYet, TimeOut, Hold, LateHold, CalculationFails, Suspend, LateDelivery,
                Marks, FaultHappens, FaultKinds
  <2> QED BY <2>1, <2>2, <2>3 DEF Next
<1>2. CASE faults' = faults
  BY <1>2 DEF Suspended, Overtook, Happened
<1>3. ASSUME NEW k \in FaultKinds, faults' = Append(faults, k)
      PROVE  /\ faults' \in Seq(FaultKinds)
             /\ (Suspended => Suspended') /\ (Overtook => Overtook')
  <2>1. /\ faults' \in Seq(FaultKinds)
        /\ DOMAIN faults = 1..Len(faults) /\ DOMAIN faults' = 1..(Len(faults) + 1)
        /\ Len(faults) \in Nat
        /\ \A i \in 1..Len(faults) : faults'[i] = faults[i]
    BY <1>3
  <2>2. ASSUME NEW i \in DOMAIN faults
        PROVE  i \in DOMAIN faults' /\ faults'[i] = faults[i]
    BY <2>1, <2>2
  <2> QED BY <2>1, <2>2 DEF Suspended, Overtook, Happened
<1> QED BY <1>1, <1>2, <1>3

\* A learner hands over its model once, and when both parties want to stop.
Hands(r) ==
    \/ models'[r] = models[r] /\ (status'[r] = status[r] \/ models[r] = <<>>)
    \/ /\ models[r] = <<>> /\ stop(proc[r]) /\ status'[r] = EndTrain
       /\ models'[r] = <<[round |-> proc[r].round, thetas |-> proc[r].thetas]>>
       /\ proc' = proc

ModelPre ==
    /\ StartPre /\ RoundPre
    /\ models \in [Parties -> Seq([round: Rounds, thetas: Int])]
    /\ \A r \in Parties : ModelInv(r)

\* Before the training has got to its second round, there is no model.
LEMMA NoModelYet ==
    ASSUME ModelPre, NEW p \in Parties, NEW g \in BagToSet(go[p]), g.do \in {"Intersect", "TrainHup"}
    PROVE  models[p] = <<>>
<1>1. TypeInv /\ StartInv(p) /\ RoundInv(p) /\ ModelInv(p) /\ proc[p].round \in Nat
  BY TypeFacts DEF ModelPre, StartPre, RoundPre
<1>2. ~ (proc[p].round > 0)
  BY <1>1 DEF StartInv, Doing
<1>3. ~ stop(proc[p])
  BY <1>1, <1>2 DEF RoundInv, Apart, stop
<1> QED BY <1>1, <1>3 DEF ModelInv

\* The status of p changes at most, and then p has no model.
LEMMA HandsNothing ==
    ASSUME ModelPre, NEW p \in Parties, UNCHANGED models, NEW x, status' = [status EXCEPT ![p] = x],
           models[p] = <<>>
    PROVE  \A r \in Parties : Hands(r)
<1>1. \A r \in Parties : r # p => status'[r] = status[r]
  BY DEF ModelPre, StartPre, TypeInv
<1> QED BY <1>1 DEF Hands

LEMMA HandsStep ==
    ASSUME ModelPre, [Next]_vars
    PROVE  \A r \in Parties : Hands(r)
<1>0. ASSUME UNCHANGED <<status, models>>  PROVE \A r \in Parties : Hands(r)
  BY <1>0 DEF Hands
<1>1. ASSUME NEW p \in Parties, NEW g \in BagToSet(go[p]), PsiIntersect(p, g)
      PROVE  \A r \in Parties : Hands(r)
  <2>1. models[p] = <<>>
    BY <1>1, NoModelYet DEF PsiIntersect
  <2>2. UNCHANGED models /\ (UNCHANGED status \/ status' = [status EXCEPT ![p] = EndPSI])
    BY <1>1 DEF PsiIntersect
  <2> QED BY <1>0, <2>1, <2>2, HandsNothing
<1>2. ASSUME NEW p \in Parties, NEW g \in BagToSet(go[p]), TrainHup(p, g)
      PROVE  \A r \in Parties : Hands(r)
  <2>1. models[p] = <<>>
    BY <1>2, NoModelYet DEF TrainHup
  <2>2. UNCHANGED models /\ (UNCHANGED status \/ status' = [status EXCEPT ![p] = StartTrain])
    BY <1>2 DEF TrainHup
  <2> QED BY <1>0, <2>1, <2>2, HandsNothing
<1>3. ASSUME NEW p \in Parties, NEW g \in BagToSet(go[p]), TrainModels(p, g)
      PROVE  \A r \in Parties : Hands(r)
  <2>1. CASE status[p] # StartTrain
    BY <1>0, <1>3, <2>1 DEF TrainModels
  <2>2. CASE status[p] = StartTrain
    <3>1. models[p] = <<>>
      <4>1. ModelInv(p)
        BY DEF ModelPre
      <4> QED BY <2>2, <4>1 DEF ModelInv, StartTrain, EndTrain
    <3>2. stop(proc[p])
      <4>1. RoundInv(p) /\ g \in Pool(p)
        BY DEF ModelPre, RoundPre, Pool
      <4> QED BY <1>3, <4>1 DEF TrainModels, RoundInv, Fits
    <3>3. /\ status' = [status EXCEPT ![p] = EndTrain] /\ proc' = proc
          /\ models' = [models EXCEPT ![p] = Append(@, [round |-> proc[p].round, thetas |-> proc[p].thetas])]
      BY <1>3, <2>2 DEF TrainModels
    <3>4. /\ \A r \in Parties : r # p => status'[r] = status[r] /\ models'[r] = models[r]
          /\ status'[p] = EndTrain
          /\ models'[p] = Append(models[p], [round |-> proc[p].round, thetas |-> proc[p].thetas])
      BY <3>3 DEF ModelPre, StartPre, TypeInv
    <3>5. models'[p] = <<[round |-> proc[p].round, thetas |-> proc[p].thetas]>>
      BY <3>1, <3>4
    <3> QED BY <3>1, <3>2, <3>3, <3>4, <3>5 DEF Hands
  <2> QED BY <2>1, <2>2
<1>4. ASSUME NEW p \in Parties, NEW g \in BagToSet(go[p]), CalculationFails(p, g)
      PROVE  \A r \in Parties : Hands(r)
  <2>1. UNCHANGED models
    BY <1>4 DEF CalculationFails
  <2>2. CASE g.do = "TrainHup"
    <3>1. status' = [status EXCEPT ![p] = StartTrain]
      BY <1>4, <2>2 DEF CalculationFails
    <3> QED BY <2>1, <2>2, <3>1, NoModelYet, HandsNothing
  <2>3. CASE g.do = "TrainModels"
    <3>1. status' = [status EXCEPT ![p] = EndTrain]
      BY <1>4, <2>3 DEF CalculationFails
    <3>2. status[p] = StartTrain
      BY <1>4, <2>3 DEF CalculationFails, Computes, Past
    <3>3. models[p] = <<>>
      <4>1. ModelInv(p)
        BY DEF ModelPre
      <4> QED BY <3>2, <4>1 DEF ModelInv, StartTrain, EndTrain
    <3> QED BY <2>1, <3>1, <3>3, HandsNothing
  <2>4. CASE g.do \notin {"TrainHup", "TrainModels"}
    <3>1. status' = [status EXCEPT ![p] = status[p]]
      BY <1>4, <2>4 DEF CalculationFails
    <3>2. UNCHANGED status
      BY <3>1 DEF ModelPre, StartPre, TypeInv
    <3> QED BY <1>0, <2>1, <3>2
  <2> QED BY <2>2, <2>3, <2>4
<1>5. CASE UNCHANGED vars
  BY <1>0, <1>5 DEF vars
<1>6. ASSUME NEW p \in Parties, Step(p)  PROVE \A r \in Parties : Hands(r)
  <2>1. CASE NewLearner(p) \/ DeleteLearner(p)
    BY <1>0, <2>1 DEF NewLearner, DeleteLearner
  <2>2. ASSUME NEW g \in BagToSet(go[p]),
               \/ PsiEnc(p, g) \/ TrainLoop(p, g) \/ OtherRound(p, g) \/ CalLocalGradCost(p, g)
               \/ CalEncGradCost(p, g) \/ DecLocalGradCost(p, g) \/ UpdCostGrad(p, g) \/ CheckStatus(p, g)
               \/ Deliver(p, g) \/ Refuse(p, g) \/ PeerDeleted(p, g)
        PROVE  UNCHANGED <<status, models>>
    BY <2>2 DEF PsiEnc, TrainLoop, OtherRound, CalLocalGradCost, CalEncGradCost, DecLocalGradCost,
                UpdCostGrad, CheckStatus, Deliver, Refuse, PeerDeleted
  <2> QED BY <1>0, <1>1, <1>2, <1>3, <1>6, <2>1, <2>2 DEF Step
<1>7. ASSUME NEW p \in Parties, Fault(p)  PROVE \A r \in Parties : Hands(r)
  <2>1. ASSUME NEW g,
               \/ NotYet(p, g) \/ TimeOut(p, g) \/ Hold(p, g) \/ Suspend(p, g)
               \/ LateHold(p, g) \/ LateDelivery(p, g)
        PROVE  UNCHANGED <<status, models>>
    BY <2>1 DEF NotYet, TimeOut, Hold, Suspend, LateHold, LateDelivery
  <2> QED BY <1>0, <1>4, <1>7, <2>1 DEF Fault
<1> QED BY <1>5, <1>6, <1>7 DEF Next

\* A party that both want to stop stays where it is.
LEMMA StopKept ==
    ASSUME RoundPre, NEW p \in Parties, OneOf(p), NEW r \in Parties, stop(proc[r])
    PROVE  stop(proc'[r]) /\ proc'[r].round = proc[r].round
<1> DEFINE q == Other(p)
<1>0. /\ q \in Parties /\ q # p /\ \A s \in Parties : s = p \/ s = q
      /\ proc[p] \in Processes /\ proc[q] \in Processes /\ TypeInv
      /\ proc[p].round \in Nat
      /\ \A h \in Pool(p) : GoroutineOK(h) /\ Fits(proc[p], proc[q], h)
  BY OtherParty, RoundBoth DEF RoundPre
<1>1. ASSUME NEW s \in Parties, Same(s), stop(proc[s])
      PROVE  stop(proc'[s]) /\ proc'[s].round = proc[s].round
  BY <1>1 DEF Same, Alike, stop
<1>2. CASE Quiet(p)
  BY <1>0, <1>1, <1>2 DEF Quiet
<1>3. ASSUME NEW g \in Pool(p), Entered(p, g)
      PROVE  stop(proc'[r]) /\ proc'[r].round = proc[r].round
  <2>1. CASE r = q
    BY <1>1, <1>3, <2>1 DEF Entered
  <2>2. CASE r = p /\ Same(p)
    BY <1>1, <2>2
  <2>3. CASE r = p /\ g.round = proc[p].round + 1
    BY <1>0, <1>3, <2>3 DEF Entered, Fits
  <2> QED BY <1>0, <1>3, <2>1, <2>2, <2>3 DEF Entered
<1>4. ASSUME NEW g \in Pool(p), LocalDone(p, g)
      PROVE  stop(proc'[r]) /\ proc'[r].round = proc[r].round
  <2>1. CASE r = q
    BY <1>1, <1>4, <2>1 DEF LocalDone
  <2>2. CASE r = p
    BY <1>0, <1>4, <2>2 DEF LocalDone, Processes, stop
  <2> QED BY <1>0, <2>1, <2>2
<1>5. ASSUME NEW g \in Pool(p), EncDone(p, g)
      PROVE  stop(proc'[r]) /\ proc'[r].round = proc[r].round
  <2>1. CASE r = q
    BY <1>1, <1>5, <2>1 DEF EncDone
  <2>2. CASE r = p
    BY <1>0, <1>5, <2>2 DEF EncDone, Processes, stop
  <2> QED BY <1>0, <2>1, <2>2
<1>6. ASSUME NEW g \in Pool(p), DecDone(p, g) \/ StatusDone(p, g)
      PROVE  stop(proc'[r]) /\ proc'[r].round = proc[r].round
  BY <1>0, <1>1, <1>6 DEF DecDone, StatusDone
<1>7. ASSUME NEW g \in Pool(p), NEW s, UpdDone(p, g, s)
      PROVE  stop(proc'[r]) /\ proc'[r].round = proc[r].round
  <2>1. CASE r = q
    BY <1>1, <1>7, <2>1 DEF UpdDone
  <2>2. CASE r = p
    BY <1>0, <1>7, <2>2 DEF UpdDone, Fits, stop
  <2> QED BY <1>0, <2>1, <2>2
<1>8. ASSUME NEW g \in Pool(p), Got(p, g)
      PROVE  stop(proc'[r]) /\ proc'[r].round = proc[r].round
  <2>1. CASE r = p
    BY <1>1, <1>8, <2>1 DEF Got
  <2>2. CASE r = q
    <3>0. GoroutineOK(g) /\ g.do \in Messages /\ proc'[q] = Received(q, g) /\ OnTime(q, g)
      BY <1>0, <1>8 DEF Got
    <3>1. Received(q, g).round = proc[q].round
      BY <1>0, <3>0, ReceivedOK
    <3>2. Received(q, g).stopped = proc[q].stopped /\ Received(q, g).otherStopped = proc[q].otherStopped
      <4>0. proc[q].otherStopped = 1
        BY <2>2 DEF stop
      <4>1. CASE g.do = "ReEnc"
        BY <1>0, <3>0, <4>1, ReceivedIs
      <4>2. CASE g.do = "HomoPubkey"
        BY <1>0, <3>0, <4>2, ReceivedIs DEF Processes
      <4>3. CASE g.do = "PartBytes"
        BY <1>0, <3>0, <4>3, ReceivedIs DEF Processes, SetPart
      <4>4. CASE g.do = "EncGradCost"
        BY <1>0, <3>0, <4>4, ReceivedIs DEF Processes
      <4>5. CASE g.do = "GradAndCost"
        BY <1>0, <3>0, <4>5, ReceivedIs DEF Processes
      <4>6. CASE g.do = "Status"
        BY <1>0, <3>0, <4>0, <4>6, ReceivedIs
      <4> QED BY <3>0, <4>1, <4>2, <4>3, <4>4, <4>5, <4>6 DEF Messages
    <3> QED BY <2>2, <3>0, <3>1, <3>2 DEF stop
  <2> QED BY <1>0, <2>1, <2>2
<1> QED BY <1>2, <1>3, <1>4, <1>5, <1>6, <1>7, <1>8 DEF OneOf

LEMMA ModelStep ==
    ASSUME ModelPre, faults \in Seq(FaultKinds), [Next]_vars, ~ Overtook'
    PROVE  /\ models' \in [Parties -> Seq([round: Rounds, thetas: Int])]
           /\ \A r \in Parties : ModelInv(r)'
<1>0. TypeInv /\ RoundPre /\ \A r \in Parties : loopRound[r] = proc[r].round
  BY DEF ModelPre, StartPre, RoundPre
<1>1. PICK p \in Parties : OneOf(p)
  BY <1>0, NextOneOf
<1>2. \A r \in Parties : Hands(r)
  BY HandsStep
<1>3. models' = models \/ \E r \in Parties : \E x : models' = [models EXCEPT ![r] = x]
  <2>1. CASE UNCHANGED vars
    BY <2>1 DEF vars
  <2>2. ASSUME NEW s \in Parties, Step(s)
        PROVE  models' = models \/ \E r \in Parties : \E x : models' = [models EXCEPT ![r] = x]
    BY <2>2 DEF Step, NewLearner, DeleteLearner, PsiEnc, PsiIntersect, TrainHup, TrainLoop, OtherRound,
                CalLocalGradCost, CalEncGradCost, DecLocalGradCost, UpdCostGrad, CheckStatus, TrainModels,
                Deliver, Refuse, PeerDeleted
  <2>3. ASSUME NEW s \in Parties, Fault(s)  PROVE models' = models
    BY <2>3 DEF Fault, NotYet, TimeOut, Hold, LateHold, CalculationFails, Suspend, LateDelivery
  <2> QED BY <2>1, <2>2, <2>3 DEF Next
<1>4. models \in [Parties -> Seq([round: Rounds, thetas: Int])]
  BY DEF ModelPre
<1>5. DOMAIN models' = Parties /\ (models' = models \/ \E r \in Parties : \E x : models' = [models EXCEPT ![r] = x])
  BY <1>3, <1>4
<1>6. \A r \in Parties : proc[r].round \in Rounds /\ proc[r].thetas \in Int
  BY <1>0 DEF TypeInv, Processes, None
<1>7. ASSUME NEW r \in Parties  PROVE models'[r] \in Seq([round: Rounds, thetas: Int]) /\ ModelInv(r)'
  <2>0. Hands(r) /\ ModelInv(r)
    BY <1>2 DEF ModelPre
  <2>1. CASE models'[r] = models[r] /\ models[r] = <<>>
    BY <2>1 DEF ModelInv
  <2>2. CASE models'[r] = models[r] /\ status'[r] = status[r] /\ models[r] # <<>>
    <3>1. stop(proc[r])
      BY <2>0, <2>2 DEF ModelInv
    <3>2. stop(proc'[r]) /\ proc'[r].round = proc[r].round
      BY <1>0, <1>1, <3>1, StopKept
    <3> QED BY <1>4, <2>0, <2>2, <3>2 DEF ModelInv
  <2>3. CASE /\ stop(proc[r]) /\ status'[r] = EndTrain /\ proc' = proc
             /\ models'[r] = <<[round |-> proc[r].round, thetas |-> proc[r].thetas]>>
    <3>1. PICK x : x = [round |-> proc[r].round, thetas |-> proc[r].thetas]
      OBVIOUS
    <3>2. x \in [round: Rounds, thetas: Int] /\ x.round = proc[r].round
      BY <1>6, <3>1
    <3>3. models'[r] = <<x>>
      BY <2>3, <3>1
    <3>4. models'[r] \in Seq([round: Rounds, thetas: Int]) /\ Len(models'[r]) = 1 /\ models'[r][1] = x
      BY <3>2, <3>3
    <3> QED BY <2>3, <3>2, <3>4 DEF ModelInv
  <2> QED BY <2>0, <2>1, <2>2, <2>3 DEF Hands
<1> QED BY <1>4, <1>5, <1>7

-----------------------------------------------------------------------------
(***************************************************************************)
(* The theorems.                                                           *)
(***************************************************************************)
LEMMA InvInit == Init => Inv
<1> SUFFICES ASSUME Init PROVE Inv
  OBVIOUS
<1>1. TypeInv
  BY TypeInit
<1>2. ~ panicked /\ faults = <<>>
  BY DEF Init
<1>3. models = [p \in Parties |-> <<>>]
  BY DEF Init
<1>4. models \in [Parties -> Seq([round: Rounds, thetas: Int])]
  BY <1>3
<1>5. faults \in Seq(FaultKinds)
  BY <1>2
<1>6. ASSUME NEW p \in Parties
      PROVE  StartInv(p) /\ KeyInv(p) /\ RoundInv(p) /\ ModelInv(p) /\ DataInv(p)
  <2>1. Other(p) \in Parties
    BY OtherParty
  <2>2. /\ loopRound[p] = 0 /\ proc[p] = NewProcess /\ proc[Other(p)] = NewProcess
        /\ psi[p].mine = FALSE /\ psi[p].others = FALSE /\ psi[Other(p)].others = FALSE
        /\ models[p] = <<>>
    BY <2>1 DEF Init
  <2>3. BagToSet(EmptyBag) = {}
    BY DEF BagToSet, EmptyBag, SetToBag
  <2>4. BagToSet(go[p]) = {} /\ late[p] = {} /\ BagToSet(go[Other(p)]) = {} /\ late[Other(p)] = {}
    BY <2>1, <2>3 DEF Init
  <2>5. Pool(p) = {} /\ Pool(Other(p)) = {}
    BY <2>4 DEF Pool
  <2>6. PICK a : a = NewProcess
    OBVIOUS
  <2>7. /\ a.round = 0 /\ a.thetas = None /\ a.rawPart = FALSE /\ a.part = None /\ a.nextPart = None
        /\ a.noise = FALSE /\ a.encFrom = None /\ a.gradFrom = None /\ a.stopped = 0
        /\ a.otherStopped = 0 /\ a.pub = FALSE
    BY <2>6 DEF NewProcess
  <2>8. proc[p] = a /\ proc[Other(p)] = a
    BY <2>2, <2>6
  <2>9. StartInv(p)
    BY <2>2, <2>4, <2>7, <2>8 DEF StartInv, Solo, SoloBag, Doing
  <2>10. KeyInv(p)
    BY <2>5, <2>7, <2>8 DEF KeyInv
  <2>11. RoundInv(p)
    <3>1. Apart(a, a)
      BY <2>7 DEF Apart
    <3> QED BY <2>4, <2>5, <2>8, <3>1 DEF RoundInv, Solo, SoloBag
  <2>12. ModelInv(p)
    BY <2>2 DEF ModelInv
  <2>13. DataInv(p)
    BY <2>5, <2>7, <2>8 DEF DataInv, Coherent
  <2> QED BY <2>9, <2>10, <2>11, <2>12, <2>13
<1> QED BY <1>1, <1>2, <1>4, <1>5, <1>6 DEF Inv, RoundsInv

LEMMA RoundsStep ==
    ASSUME Timely, TypeInv, faults \in Seq(FaultKinds), RoundsInv, [Next]_vars, ~ Overtook'
    PROVE  RoundsInv'
<1>1. /\ StartPre /\ RoundPre /\ KeyPre /\ ModelPre /\ TypeInv /\ ~ panicked /\ faults \in Seq(FaultKinds)
      /\ \A r \in Parties : loopRound[r] = proc[r].round
  BY DEF RoundsInv, StartPre, RoundPre, KeyPre, ModelPre, StartInv
<1>2. TypeInv'
  BY <1>1, TypeStep
<1>3. PICK p \in Parties : OneOf(p)
  BY <1>1, NextOneOf
<1>4. (\A r \in Parties : RoundInv(r)') /\ ~ panicked'
  BY <1>1, <1>2, <1>3, RoundStep
<1>5. \A r \in Parties : KeyInv(r)'
  BY <1>1, <1>2, <1>3, KeyStep
<1>6. \A r \in Parties : StartInv(r)'
  BY <1>1, StartStep
<1>7. /\ models' \in [Parties -> Seq([round: Rounds, thetas: Int])]
      /\ \A r \in Parties : ModelInv(r)'
  BY <1>1, ModelStep
<1>8. Suspended => Suspended'
  BY <1>1, FaultStep
<1>9. ~ Suspended' => \A r \in Parties : DataInv(r)'
  <2> SUFFICES ASSUME ~ Suspended'  PROVE \A r \in Parties : DataInv(r)'
    OBVIOUS
  <2>1. DataPre
    BY <1>1, <1>8 DEF RoundsInv, DataPre
  <2> QED BY <1>2, <1>3, <2>1, DataStep
<1> QED BY <1>4, <1>5, <1>6, <1>7, <1>9 DEF RoundsInv

LEMMA InvStep == ASSUME Timely  PROVE Inv /\ [Next]_vars => Inv'
<1> SUFFICES ASSUME Inv, [Next]_vars PROVE Inv'
  OBVIOUS
<1>1. TypeInv /\ faults \in Seq(FaultKinds) /\ (~ Overtook => RoundsInv)
  BY DEF Inv
<1>2. TypeInv' /\ faults' \in Seq(FaultKinds) /\ (Overtook => Overtook')
  BY <1>1, TypeStep, FaultStep
<1>3. ~ Overtook' => RoundsInv'
  BY <1>1, <1>2, RoundsStep
<1> QED BY <1>2, <1>3 DEF Inv

\* The inductive invariant holds of every learner pair whose start is timely.
LEMMA Invariance == ASSUME Timely  PROVE Spec => []Inv
BY InvInit, InvStep, PTL DEF Spec

\* The state of the learners is well formed: no handler of linear_reg_vl.go
\* leaves the rounds, statuses and messages that the others expect, wherever
\* goroutines and handlers are suspended.
THEOREM Typing == Spec => []TypeOK
<1>1. TypeInv => TypeOK
  <2> SUFFICES ASSUME TypeInv PROVE TypeOK
    OBVIOUS
  <2>2. ASSUME NEW p \in Parties
        PROVE  /\ proc[p].round \in Rounds /\ proc[p].thetas \in Nat \cup {None}
               /\ proc[p].stopped \in 0..2 /\ proc[p].otherStopped \in 0..2
               /\ BagToSet(go[p]) \subseteq Goroutines /\ late[p] \subseteq Goroutines
    <3>1. proc[p] \in Processes /\ proc[p].round \in Rounds
      BY TypeFacts
    <3>2. /\ proc[p].stopped \in 0..2 /\ proc[p].otherStopped \in 0..2
          /\ proc[p].thetas \in Nat \cup {None}
      BY <3>1 DEF Processes
    <3>4. ASSUME NEW g, GoroutineOK(g)  PROVE g \in Goroutines
      BY <3>4 DEF GoroutineOK, Goroutines, Kinds
    <3>5. \A g \in Pool(p) : g \in Goroutines
      BY <3>4, TypeFacts
    <3> QED BY <3>1, <3>2, <3>5 DEF Pool
  <2> QED BY <2>2 DEF TypeOK, TypeInv
<1> QED BY <1>1, TypeInit, TypeStep, PTL DEF Spec

\* No calculation runs without its inputs: updateCostAndGradient does not
\* panic, and the other party's public key is there before the first part that
\* is encrypted with it, whatever times out, fails, is repeated or lags, until
\* a learner overtakes the handler of a message.
THEOREM Inputs == ASSUME Timely  PROVE Spec => [](~ Happened("overtaken") => InputsPresent)
<1>1. Inv => (~ Happened("overtaken") => InputsPresent)
  <2> SUFFICES ASSUME RoundsInv, NEW p \in Parties, EncReady(proc[p])  PROVE ~ panicked /\ proc[p].pub
    BY DEF Inv, Overtook, InputsPresent, RoundsInv
  <2>1. ~ panicked /\ KeyInv(p)
    BY DEF RoundsInv
  <2> QED BY <2>1 DEF KeyInv, EncReady
<1> QED BY <1>1, Invariance, PTL

\* What a party calculates with belongs to its round, unless a goroutine was
\* suspended between comparing its round with the learner's and using it, or a
\* learner overtook the handler of a message.
THEOREM RoundsApart == ASSUME Timely  PROVE Spec => []DataOfRound
<1>1. Inv => DataOfRound
  <2> SUFFICES ASSUME RoundsInv, ~ Suspended, NEW p \in Parties  PROVE Coherent(proc[p])
    BY DEF Inv, Overtook, DataOfRound, Suspended, Coherent
  <2> QED BY DEF RoundsInv, DataInv
<1> QED BY <1>1, Invariance, PTL

\* A party hands over one model at most, of a round that the other party is
\* still in, will not leave and has decided to be the last (TrainModels), until
\* a learner overtakes the handler of a message.
THEOREM Agreement == ASSUME Timely  PROVE Spec => [](~ Happened("overtaken") => ModelsAgree)
<1>1. Inv => (~ Happened("overtaken") => ModelsAgree)
  <2> SUFFICES ASSUME RoundsInv, TypeInv PROVE ModelsAgree
    BY DEF Inv, Overtook
  <2>1. RoundPre
    BY DEF RoundsInv, RoundPre, StartInv
  <2>2. ASSUME NEW p \in Parties
        PROVE  /\ Len(models[p]) <= 1
               /\ \A i \in DOMAIN models[p] :
                    /\ proc[Other(p)].round = models[p][i].round /\ proc[Other(p)].stopped = 1
                    /\ \A g \in BagToSet(go[Other(p)]) :
                          g.do = "TrainLoop" => g.round <= models[p][i].round
    <3>1. ModelInv(p) /\ models[p] \in Seq([round: Rounds, thetas: Int])
      BY DEF RoundsInv
    <3>2. CASE models[p] = <<>>
      BY <3>2
    <3>3. CASE models[p] # <<>>
      <4>1. stop(proc[p]) /\ Len(models[p]) = 1 /\ models[p][1].round = proc[p].round
        BY <3>1, <3>3 DEF ModelInv
      <4>2. /\ Apart(proc[p], proc[Other(p)]) /\ proc[p].round \in Nat /\ proc[Other(p)].round \in Nat
            /\ Apart(proc[Other(p)], proc[p])
            /\ \A g \in Pool(Other(p)) : Fits(proc[Other(p)], proc[p], g)
        BY <2>1, RoundBoth
      <4>3. proc[Other(p)].round = proc[p].round /\ proc[Other(p)].stopped = 1
        BY <4>1, <4>2 DEF Apart, stop
      <4>4. DOMAIN models[p] = {1}
        BY <3>1, <4>1
      <4>5. decided(proc[Other(p)]) => stop(proc[Other(p)])
        BY <4>1, <4>2, <4>3 DEF Apart, stop, decided
      <4>6. \A g \in BagToSet(go[Other(p)]) : g.do = "TrainLoop" => g.round <= proc[p].round
        BY <4>2, <4>3, <4>5 DEF Fits, Pool
      <4> QED BY <4>1, <4>3, <4>4, <4>6
    <3> QED BY <3>2, <3>3
  <2> QED BY <2>2 DEF ModelsAgree, SavedOnce, StopTogether
<1> QED BY <1>1, Invariance, PTL

\* A model that has been handed over is final: its learner neither replaces it
\* nor leaves the round that it is of, whatever still arrives.
HandedOverIsFinal ==
    \A p \in Parties : models[p] # <<>> =>
        models'[p] = models[p] /\ proc'[p].round = proc[p].round /\ stop(proc'[p])

\* TrainModels runs once per learner, and no later TrainLoop or message moves
\* the learner on: every step keeps the model, its round and the decision, until
\* a learner overtakes the handler of a message.
THEOREM Finality ==
    ASSUME Timely  PROVE Spec => [][~ Happened("overtaken")' => HandedOverIsFinal]_vars
<1>1. Inv /\ [Next]_vars => [~ Happened("overtaken")' => HandedOverIsFinal]_vars
  <2> SUFFICES ASSUME Inv, [Next]_vars, ~ Overtook', NEW r \in Parties, models[r] # <<>>
               PROVE  models'[r] = models[r] /\ proc'[r].round = proc[r].round /\ stop(proc'[r])
    BY DEF HandedOverIsFinal, Overtook
  <2>0. RoundsInv
    BY FaultStep DEF Inv
  <2>1. /\ ModelPre /\ RoundPre /\ TypeInv /\ faults \in Seq(FaultKinds) /\ ModelInv(r)
        /\ \A s \in Parties : loopRound[s] = proc[s].round
    BY <2>0 DEF Inv, RoundsInv, StartPre, RoundPre, ModelPre, StartInv
  <2>2. PICK p \in Parties : OneOf(p)
    BY <2>1, NextOneOf
  <2>3. stop(proc[r])
    BY <2>1 DEF ModelInv
  <2>4. Hands(r)
    BY <2>1, HandsStep
  <2>5. stop(proc'[r]) /\ proc'[r].round = proc[r].round
    BY <2>1, <2>2, <2>3, StopKept
  <2> QED BY <2>4, <2>5 DEF Hands
<1> QED BY <1>1, Invariance, PTL DEF Spec
==============================================================================
