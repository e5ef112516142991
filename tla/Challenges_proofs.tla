-------------------------- MODULE Challenges_proofs --------------------------
(***************************************************************************)
(* Proofs about the challenges of storage nodes, for any number of nodes,  *)
(* slices, rounds, challenges, extensions, migrations and faults.          *)
(***************************************************************************)
EXTENDS Challenges, SequenceTheorems, FiniteSetTheorems, WellFoundedInduction, TLAPS

-----------------------------------------------------------------------------
(***************************************************************************)
(* Arithmetic: least elements, the root of GenerateChallenge, and the sum  *)
(* of the ranges that the owner has left for a copy.                       *)
(***************************************************************************)

\* A set of natural numbers that is not empty has a least element.
LEMMA LeastExists ==
    ASSUME NEW T \in SUBSET Nat, T # {}
    PROVE  \E x \in T : \A y \in T : x <= y
  <1> DEFINE R == OpToRel(<, Nat)
  <1>1. IsWellFoundedOn(R, Nat)
    BY NatLessThanWellFounded
  <1>2. \A x, y \in Nat : <<y, x>> \in R <=> y < x
    BY DEF OpToRel
  <1> HIDE DEF R
  <1>3. PICK x \in T : \A y \in T : ~ (<<y, x>> \in R)
    BY <1>1, WFMin
  <1>4. ASSUME NEW y \in T PROVE x <= y
    <2>1. ~ (y < x)
      BY <1>2, <1>3
    <2> QED
      BY <2>1
  <1> QED
    BY <1>4

LEMMA BoundsAreNat == MaxTime \in Nat /\ MaxChallenges \in Nat
  BY ChallengeAssumption

\* A set that contains 0, and with a number its successor up to n, contains
\* every number up to n.
LEMMA UpTo ==
    ASSUME NEW n \in Nat, NEW S,
           0 \in S,
           \A k \in 1..n : k - 1 \in S => k \in S
    PROVE  \A k \in 0..n : k \in S
  <1> DEFINE T == {k \in 0..n : k \notin S}
  <1>1. SUFFICES ASSUME T # {} PROVE FALSE
    OBVIOUS
  <1>2. T \in SUBSET Nat
    OBVIOUS
  <1>3. PICK x \in T : \A y \in T : x <= y
    BY <1>1, <1>2, LeastExists
  <1>4. x # 0 /\ x \in 1..n
    OBVIOUS
  <1>5. x - 1 \in 0..n /\ x - 1 \notin T
    BY <1>3, <1>4
  <1> QED
    BY <1>4, <1>5

\* GenerateChallenge selects at least one slice.
LEMMA SelectsSome ==
    ASSUME NEW n \in Nat \ {0}
    PROVE  SelectNum(n) \in Nat \ {0}
  <1> DEFINE T == {r \in Nat : (r + 1) * (r + 1) > n - 1}
  <1>1. n * n > n - 1
    <2>1. n * n >= n
      OBVIOUS
    <2> QED
      BY <2>1
  <1>2. n - 1 \in T
    BY <1>1
  <1>3. PICK r \in T : \A y \in T : r <= y
    BY <1>2, LeastExists
  <1>4. r \in 0..n
    BY <1>2, <1>3
  <1>5. r * r <= n - 1
    <2>1. CASE r = 0
      BY <2>1
    <2>2. CASE r # 0
      <3>1. r - 1 \in Nat /\ r - 1 \notin T
        BY <1>3, <2>2
      <3> QED
        BY <3>1
    <2> QED
      BY <2>1, <2>2
  <1> DEFINE k == CHOOSE q \in 0..n : q * q <= n - 1 /\ (q + 1) * (q + 1) > n - 1
  <1>6. k \in 0..n
    BY <1>3, <1>4, <1>5
  <1>7. SelectNum(n) = IF k + 1 > MaxIndexNum THEN MaxIndexNum ELSE k + 1
    BY DEF SelectNum
  <1> HIDE DEF k
  <1> QED
    BY <1>6, <1>7, ChallengeAssumption

\* ... for the length of a sequence.
LEMMA UpToLen ==
    ASSUME NEW B, NEW s \in Seq(B), NEW S,
           0 \in S,
           \A k \in 1..Len(s) : k - 1 \in S => k \in S
    PROVE  \A k \in 0..Len(s) : k \in S
  <1>1. PICK n \in Nat : n = Len(s)
    OBVIOUS
  <1>2. \A k \in 1..n : k - 1 \in S => k \in S
    BY <1>1
  <1>3. \A k \in 0..n : k \in S
    BY <1>2, UpTo
  <1> QED
    BY <1>1, <1>3

Batch == [left : Times, of : {"whole", "bad"}]

IsSum(f, s) == f = [k \in 0..Len(s) |-> IF k = 0 THEN 0 ELSE f[k - 1] + s[k].left]

SumOf(s) ==
    LET sum[k \in 0..Len(s)] == IF k = 0 THEN 0 ELSE sum[k - 1] + s[k].left
    IN sum[Len(s)]

\* There are sums of all batches.
LEMMA SumExists ==
    ASSUME NEW s \in Seq(Batch)
    PROVE  \E f : IsSum(f, s)
  <1> DEFINE Part(f, n) == f = [k \in 0..n |-> IF k = 0 THEN 0 ELSE f[k - 1] + s[k].left]
             S == {n \in 0..Len(s) : \E f : Part(f, n)}
  <1>1. 0 \in S
    <2> DEFINE f == [k \in 0..0 |-> 0]
    <2>1. Part(f, 0)
      OBVIOUS
    <2> HIDE DEF f
    <2>2. 0 \in 0..Len(s)
      OBVIOUS
    <2> QED
      BY <2>1, <2>2
  <1>2. ASSUME NEW n \in 1..Len(s), n - 1 \in S PROVE n \in S
    <2>1. PICK f : Part(f, n - 1)
      BY <1>2
    <2> DEFINE g == [k \in 0..n |-> IF k = n THEN f[n - 1] + s[n].left ELSE f[k]]
    <2>2. \A k \in 0..(n - 1) : f[k] = IF k = 0 THEN 0 ELSE f[k - 1] + s[k].left
      BY <2>1, Zenon
    <2>3. ASSUME NEW k \in 0..n
          PROVE  g[k] = IF k = 0 THEN 0 ELSE g[k - 1] + s[k].left
      <3>1. CASE k = n
        BY <3>1, n # 0
      <3>2. CASE k # n
        <4>1. k \in 0..(n - 1) /\ (k # 0 => k - 1 \in 0..n /\ k - 1 # n)
          BY <3>2
        <4> QED
          BY <4>1, <3>2, <2>2
      <3> QED
        BY <3>1, <3>2
    <2>4. Part(g, n)
      BY <2>3, Zenon
    <2> HIDE DEF g
    <2>5. n \in 0..Len(s)
      OBVIOUS
    <2> QED
      BY <2>4, <2>5
  <1> HIDE DEF S
  <1>3. Len(s) \in Nat
    OBVIOUS
  <1>4. \A k \in 0..Len(s) : k \in S
    BY <1>1, <1>2, UpToLen
  <1> QED
    BY <1>3, <1>4 DEF S, IsSum

\* SumOf is what the recursion says it is.
LEMMA SumOfIsSum ==
    ASSUME NEW s \in Seq(Batch)
    PROVE  \E f : /\ SumOf(s) = f[Len(s)]
                  /\ f[0] = 0
                  /\ \A k \in 1..Len(s) : f[k] = f[k - 1] + s[k].left
                  /\ \A k \in 0..Len(s) : f[k] \in Nat
  <1> DEFINE f == CHOOSE g : IsSum(g, s)
  <1>1. SumOf(s) = f[Len(s)]
    BY DEF SumOf, IsSum
  <1>2. IsSum(f, s)
    BY SumExists
  <1> HIDE DEF f
  <1>3. \A k \in 0..Len(s) : f[k] = IF k = 0 THEN 0 ELSE f[k - 1] + s[k].left
    BY <1>2, Zenon DEF IsSum
  <1>4. f[0] = 0 /\ \A k \in 1..Len(s) : f[k] = f[k - 1] + s[k].left
    BY <1>3
  <1> DEFINE S == {k \in 0..Len(s) : f[k] \in Nat}
  <1>5. 0 \in S
    BY <1>4
  <1>6. \A k \in 1..Len(s) : k - 1 \in S => k \in S
    <2> TAKE k \in 1..Len(s)
    <2>a. s[k] \in Batch
      OBVIOUS
    <2>1. s[k].left \in Nat
      BY <2>a, BoundsAreNat DEF Batch, Times
    <2> QED
      BY <2>1, <1>4
  <1> HIDE DEF S
  <1>7. \A k \in 0..Len(s) : k \in S
    BY <1>5, <1>6, UpToLen
  <1> QED
    BY <1>1, <1>4, <1>7 DEF S

\* A sum is a natural number, and 0 for no batch.
LEMMA SumIsNat == \A s \in Seq(Batch) : SumOf(s) \in Nat
  <1> TAKE s \in Seq(Batch)
  <1>1. Len(s) \in 0..Len(s)
    OBVIOUS
  <1> QED
    BY <1>1, SumOfIsSum

\* A new batch adds its ranges.
LEMMA SumOfAppend ==
    ASSUME NEW s \in Seq(Batch), NEW b \in Batch
    PROVE  SumOf(Append(s, b)) = SumOf(s) + b.left
  <1> DEFINE t == Append(s, b)
  <1>1. t \in Seq(Batch) /\ Len(t) = Len(s) + 1 /\ t[Len(s) + 1] = b
        /\ \A k \in 1..Len(s) : t[k] = s[k]
    OBVIOUS
  <1> HIDE DEF t
  <1>2. PICK f : /\ SumOf(s) = f[Len(s)] /\ f[0] = 0
                 /\ \A k \in 1..Len(s) : f[k] = f[k - 1] + s[k].left
                 /\ \A k \in 0..Len(s) : f[k] \in Nat
    BY SumOfIsSum
  <1>3. PICK g : /\ SumOf(t) = g[Len(t)] /\ g[0] = 0
                 /\ \A k \in 1..Len(t) : g[k] = g[k - 1] + t[k].left
                 /\ \A k \in 0..Len(t) : g[k] \in Nat
    BY <1>1, SumOfIsSum
  <1> DEFINE S == {k \in 0..Len(s) : f[k] = g[k]}
  <1>4. 0 \in S
    BY <1>2, <1>3
  <1>5. \A k \in 1..Len(s) : k - 1 \in S => k \in S
    BY <1>1, <1>2, <1>3
  <1> HIDE DEF S
  <1>6. \A k \in 0..Len(s) : k \in S
    BY <1>4, <1>5, UpToLen
  <1>7. f[Len(s)] = g[Len(s)]
    BY <1>6 DEF S
  <1>8. g[Len(s) + 1] = g[Len(s)] + b.left
    BY <1>1, <1>3
  <1> QED
    BY <1>1, <1>2, <1>3, <1>7, <1>8 DEF t

\* A range that is used is one less.
LEMMA SumOfUse ==
    ASSUME NEW s \in Seq(Batch), NEW t \in Seq(Batch), NEW k \in 1..Len(s),
           Len(t) = Len(s),
           t[k].left = s[k].left - 1,
           \A j \in 1..Len(s) : j # k => t[j].left = s[j].left
    PROVE  SumOf(t) = SumOf(s) - 1
  <1>2. PICK f : /\ SumOf(s) = f[Len(s)] /\ f[0] = 0
                 /\ \A j \in 1..Len(s) : f[j] = f[j - 1] + s[j].left
                 /\ \A j \in 0..Len(s) : f[j] \in Nat
    BY SumOfIsSum
  <1>3. PICK g : /\ SumOf(t) = g[Len(t)] /\ g[0] = 0
                 /\ \A j \in 1..Len(t) : g[j] = g[j - 1] + t[j].left
                 /\ \A j \in 0..Len(t) : g[j] \in Nat
    BY SumOfIsSum
  <1> DEFINE S == {j \in 0..Len(s) : g[j] = IF j < k THEN f[j] ELSE f[j] - 1}
  <1>4. 0 \in S
    BY <1>2, <1>3
  <1>5. ASSUME NEW j \in 1..Len(s), j - 1 \in S PROVE j \in S
    <2>a. s[j] \in Batch /\ t[j] \in Batch
      OBVIOUS
    <2>b. s[j].left \in Nat /\ t[j].left \in Nat
      BY <2>a, BoundsAreNat DEF Batch, Times
    <2>1. /\ f[j - 1] \in Nat /\ g[j - 1] \in Nat /\ f[j] = f[j - 1] + s[j].left
          /\ g[j] = g[j - 1] + t[j].left
          /\ s[j].left \in Nat /\ t[j].left \in Nat
      BY <1>2, <1>3, <2>b
    <2>2. CASE j < k
      BY <2>1, <2>2, <1>5
    <2>3. CASE j = k
      BY <2>1, <2>3, <1>5
    <2>4. CASE j > k
      <3>1. g[j - 1] = f[j - 1] - 1
        BY <2>4, <1>5
      <3>2. t[j].left = s[j].left
        BY <2>4
      <3> QED
        BY <2>1, <2>4, <3>1, <3>2
    <2> QED
      BY <2>2, <2>3, <2>4
  <1> HIDE DEF S
  <1>6. \A j \in 0..Len(s) : j \in S
    BY <1>4, <1>5, UpToLen
  <1>7. Len(s) \in S /\ k <= Len(s)
    BY <1>6
  <1> QED
    BY <1>2, <1>3, <1>7 DEF S

-----------------------------------------------------------------------------
(***************************************************************************)
(* Type correctness.                                                       *)
(***************************************************************************)

Contents == {"none", "whole", "bad", "lost"}
Statuses == {"ToProve", "Proved", "Failed"}
Challenge == [node : Nodes, slices : SUBSET Slices, round : Times, of : {"whole", "bad"},
              status : Statuses]

ChainTyped ==
    /\ alg \in {"merkle", "pairing"}
    /\ now \in Times /\ expiry \in Times /\ requested \in BOOLEAN
    /\ listed \in SUBSET Copies /\ missed \in SUBSET Copies
    /\ chals \in Seq(Challenge)
    /\ \A i \in DOMAIN chals : chals[i].slices # {}

StoreTyped ==
    /\ content \in [Copies -> Contents]
    /\ sigmas \in [Copies -> [Times -> {"none", "whole", "bad"}]]
    /\ ranges \in [Copies -> Seq(Batch)]

NodesTyped ==
    /\ up \in SUBSET Nodes
    /\ todo \in [Nodes -> SUBSET Nat]
    /\ \A n \in Nodes : \A i \in todo[n] : i \in DOMAIN chals /\ chals[i].node = n
    /\ node \in [Nodes -> [at : Nat, online : BOOLEAN]]
    /\ \A n \in Nodes : node[n] = None \/ node[n].at <= now
    /\ beats \in [Nodes -> SUBSET Times]

\* What an extension and a migration remember is what the chain still says,
\* but for an expire time that was extended meanwhile.
LoopsTyped ==
    /\ extend \in [pc : {"idle", "material"}, from : Times, listed : SUBSET Copies]
    /\ extend.pc = "material" => extend.from <= expiry
    /\ migrate \in [pc : {"idle", "listed"}, expiry : Times, listed : SUBSET Copies,
                    out : SUBSET Copies, in : SUBSET Copies, moves : Nat]
    /\ migrate.pc = "listed" => migrate.listed = listed /\ migrate.expiry <= expiry

Typed == ChainTyped /\ StoreTyped /\ NodesTyped /\ LoopsTyped

LEMMA TypedIsTypeOK == Typed => ChallengeTypeOK
  <1> SUFFICES ASSUME Typed PROVE ChallengeTypeOK
    OBVIOUS
  <1> USE DEF Typed
  <1>1. ASSUME NEW i \in DOMAIN chals
        PROVE  /\ chals[i].slices \subseteq Slices /\ chals[i].slices # {}
               /\ chals[i].status \in {"ToProve", "Proved", "Failed"}
    <2>1. chals[i] \in Challenge
      BY DEF ChainTyped
    <2> QED
      BY <2>1 DEF ChainTyped, Challenge, Statuses
  <1>2. \A c \in Copies : ranges[c] \in Seq([left : Times, of : {"whole", "bad"}])
    BY DEF StoreTyped, Batch
  <1> QED
    BY <1>1, <1>2 DEF ChallengeTypeOK, ChainTyped, StoreTyped, NodesTyped, Contents

\* A batch that is set up for some rounds.
LEMMA SetupTyped ==
    ASSUME NEW x \in {"whole", "bad"}, NEW from \in Times, NEW to \in Times, from <= to
    PROVE  Setup(x, from, to) \in Batch /\ Setup(x, from, to).left = to - from
           /\ Setup(x, from, to).of = x
  <1>1. to - from \in Times
    BY BoundsAreNat DEF Times
  <1> QED
    BY <1>1 DEF Setup, Batch

LEMMA TypingInit == Init => Typed
  <1> SUFFICES ASSUME Init PROVE Typed
    OBVIOUS
  <1> USE DEF Init
  <1>1. ChainTyped
    <2>1. now \in Times /\ expiry \in Times /\ listed \in SUBSET Copies
      BY BoundsAreNat, ChallengeAssumption DEF Times
    <2>2. chals \in Seq(Challenge) /\ DOMAIN chals = {}
      OBVIOUS
    <2> QED
      BY <2>1, <2>2 DEF ChainTyped
  <1>2. StoreTyped
    <2>1. content \in [Copies -> Contents]
      BY DEF Contents
    <2>2. NoSigmas \in [Times -> {"none", "whole", "bad"}]
      BY DEF NoSigmas
    <2>3. Rounds(0, Expiry, "whole", NoSigmas) \in [Times -> {"none", "whole", "bad"}]
      BY <2>2 DEF Rounds
    <2>4. sigmas \in [Copies -> [Times -> {"none", "whole", "bad"}]]
      BY <2>2, <2>3
    <2>5. Setup("whole", 0, Expiry) \in Batch
      BY SetupTyped, BoundsAreNat, ChallengeAssumption DEF Times
    <2>6. <<Setup("whole", 0, Expiry)>> \in Seq(Batch) /\ <<>> \in Seq(Batch)
      BY <2>5
    <2>7. ranges \in [Copies -> Seq(Batch)]
      BY <2>6
    <2> QED
      BY <2>1, <2>4, <2>7 DEF StoreTyped
  <1>3. NodesTyped
    <2>1. None \in [at : Nat, online : BOOLEAN] /\ [at |-> 0, online |-> TRUE] \in [at : Nat, online : BOOLEAN]
      BY BoundsAreNat DEF None
    <2>2. node \in [Nodes -> [at : Nat, online : BOOLEAN]]
      BY <2>1
    <2>3. \A n \in Nodes : node[n] = None \/ node[n].at <= now
      OBVIOUS
    <2>4. todo \in [Nodes -> SUBSET Nat] /\ \A n \in Nodes : todo[n] = {}
      OBVIOUS
    <2> QED
      BY <2>2, <2>3, <2>4 DEF NodesTyped
  <1>4. LoopsTyped
    BY BoundsAreNat DEF LoopsTyped, Idle, Times
  <1> QED
    BY <1>1, <1>2, <1>3, <1>4 DEF Typed

\* The actions, one by one.
LEMMA Steps ==
    ASSUME [Next]_vars
    PROVE  \/ \E n \in Nodes : Start(n)
           \/ \E n \in Nodes : Stop(n)
           \/ \E n \in Nodes : NodeOffline(n)
           \/ \E n \in Nodes : AnswerList(n)
           \/ \E n \in Nodes, i \in Ids : AnswerOne(n, i)
           \/ \E n \in Nodes : PairingRequest(n)
           \/ \E c \in Copies : Damage(c)
           \/ \E c \in Copies : MerkleRequest(c)
           \/ \E c \in Copies : MigrateSlice(c)
           \/ \E e \in NewExpiry : ExtendChain(e)
           \/ ExtendMerkle
           \/ ExtendPairing
           \/ \E s \in Slices, from, to \in Nodes : MigrateList(s, from, to)
           \/ MigrateFails
           \/ Tick
           \/ UNCHANGED vars
  BY DEF Next, AnswerLoop

\* A new challenge.
LEMMA RequestTyped ==
    ASSUME Typed, NEW n \in Nodes, NEW sel \in SUBSET Slices, sel # {},
           NEW of \in {"whole", "bad"}, ChallengeRequest(n, sel, of)
    PROVE  /\ chals' \in Seq(Challenge)
           /\ Len(chals') = Len(chals) + 1
           /\ \A i \in DOMAIN chals : i \in DOMAIN chals' /\ chals'[i] = chals[i]
           /\ \A i \in DOMAIN chals' : i \in DOMAIN chals \/ i = Len(chals) + 1
           /\ Len(chals) + 1 \notin DOMAIN chals
           /\ chals'[Len(chals) + 1] = [node |-> n, slices |-> sel, round |-> now, of |-> of,
                                        status |-> "ToProve"]
           /\ \A i \in DOMAIN chals' : chals'[i].slices # {}
  <1> DEFINE q == [node |-> n, slices |-> sel, round |-> now, of |-> of, status |-> "ToProve"]
  <1>1. q \in Challenge /\ q.slices # {}
    BY DEF Typed, ChainTyped, Challenge, Statuses
  <1>2. chals' = Append(chals, q)
    BY DEF ChallengeRequest
  <1> HIDE DEF q
  <1>3. chals \in Seq(Challenge) /\ \A i \in DOMAIN chals : chals[i].slices # {}
    BY DEF Typed, ChainTyped
  <1>4. /\ chals' \in Seq(Challenge)
        /\ Len(chals') = Len(chals) + 1
        /\ \A i \in DOMAIN chals : i \in DOMAIN chals' /\ chals'[i] = chals[i]
        /\ \A i \in DOMAIN chals' : i \in DOMAIN chals \/ i = Len(chals) + 1
        /\ Len(chals) + 1 \notin DOMAIN chals
        /\ chals'[Len(chals) + 1] = q
    BY <1>1, <1>2, <1>3
  <1> QED
    BY <1>1, <1>3, <1>4 DEF q

\* The slices of a pairing challenge are some of those the node holds.
LEMMA SelectionTyped ==
    ASSUME NEW held \in SUBSET Slices, held # {}, NEW sel \in SUBSET held,
           Cardinality(sel) = SelectNum(Cardinality(held))
    PROVE  sel # {}
  <1>1. IsFiniteSet(held)
    BY FS_Subset, ChallengeAssumption
  <1>2. Cardinality(held) \in Nat /\ Cardinality(held) # 0
    BY <1>1, FS_CardinalityType, FS_EmptySet
  <1>3. SelectNum(Cardinality(held)) \in Nat \ {0}
    BY <1>2, SelectsSome
  <1> QED
    BY <1>3, FS_EmptySet

\* The judgement of a challenge.
LEMMA AnswerTyped ==
    ASSUME Typed, NEW i \in DOMAIN chals, ChallengeAnswer(i) \/ UNCHANGED chals
    PROVE  /\ chals' \in Seq(Challenge)
           /\ DOMAIN chals' = DOMAIN chals /\ Len(chals') = Len(chals)
           /\ \A j \in DOMAIN chals : /\ chals'[j].node = chals[j].node
                                      /\ chals'[j].slices = chals[j].slices
                                      /\ chals'[j].round = chals[j].round
                                      /\ chals'[j].of = chals[j].of
                                      /\ j # i => chals'[j] = chals[j]
           /\ \/ UNCHANGED chals
              \/ /\ chals[i].status = "ToProve"
                 /\ chals'[i].status \in Verify(chals[i])
                 /\ chals' = [chals EXCEPT ![i].status = chals'[i].status]
  <1>1. chals \in Seq(Challenge)
    BY DEF Typed, ChainTyped
  <1>2. CASE UNCHANGED chals
    BY <1>1, <1>2
  <1>3. CASE ~ UNCHANGED chals
    <2>1. PICK v \in Verify(chals[i]) : chals' = [chals EXCEPT ![i].status = v]
      BY <1>3 DEF ChallengeAnswer
    <2>2. chals[i].status = "ToProve"
      BY <1>3 DEF ChallengeAnswer
    <2>3. v \in Statuses
      BY DEF Verify, Statuses
    <2>4. \A j \in DOMAIN chals : chals[j] \in Challenge
      BY <1>1
    <2>5. [chals[i] EXCEPT !.status = v] \in Challenge
      BY <2>3, <2>4 DEF Challenge
    <2>6. /\ chals' \in Seq(Challenge)
          /\ DOMAIN chals' = DOMAIN chals /\ Len(chals') = Len(chals)
      BY <1>1, <2>1, <2>5
    <2>7. chals'[i] = [chals[i] EXCEPT !.status = v] /\ \A j \in DOMAIN chals : j # i => chals'[j] = chals[j]
      BY <1>1, <2>1
    <2>8. /\ chals'[i].status = v /\ chals'[i].node = chals[i].node
          /\ chals'[i].slices = chals[i].slices /\ chals'[i].round = chals[i].round
          /\ chals'[i].of = chals[i].of
      BY <2>7, <2>4 DEF Challenge
    <2>9. chals' = [chals EXCEPT ![i].status = chals'[i].status]
      BY <2>1, <2>8
    <2> QED
      BY <2>1, <2>2, <2>6, <2>7, <2>8, <2>9
  <1> QED
    BY <1>2, <1>3

\* A range of a copy is used.
LEMMA UseRange ==
    ASSUME Typed, NEW c \in Copies, NEW k \in Take(c),
           ranges' = [ranges EXCEPT ![c][k].left = @ - 1]
    PROVE  /\ ranges' \in [Copies -> Seq(Batch)]
           /\ \A d \in Copies : d # c => ranges'[d] = ranges[d]
           /\ k \in 1..Len(ranges[c]) /\ Len(ranges'[c]) = Len(ranges[c])
           /\ ranges'[c][k].left = ranges[c][k].left - 1
           /\ \A j \in 1..Len(ranges[c]) : ranges'[c][j].of = ranges[c][j].of
           /\ \A j \in 1..Len(ranges[c]) : j # k => ranges'[c][j].left = ranges[c][j].left
  <1> DEFINE s == ranges[c]
             b == [s[k] EXCEPT !.left = @ - 1]
             t == [s EXCEPT ![k] = b]
  <1>1. ranges \in [Copies -> Seq(Batch)]
    BY DEF Typed, StoreTyped
  <1>2. s \in Seq(Batch) /\ k \in 1..Len(s) /\ s[k].left > 0
    BY <1>1 DEF Take
  <1>3. ranges' = [ranges EXCEPT ![c] = t]
    OBVIOUS
  <1> HIDE DEF s
  <1>4. s[k] \in Batch /\ s[k].left - 1 \in Times
    <2>1. s[k] \in Batch
      BY <1>2
    <2> QED
      BY <1>2, <2>1, BoundsAreNat DEF Batch, Times
  <1>5. b \in Batch /\ b.left = s[k].left - 1 /\ b.of = s[k].of
    BY <1>4 DEF Batch
  <1> HIDE DEF b
  <1>6. t \in Seq(Batch) /\ Len(t) = Len(s) /\ t[k] = b /\ \A j \in 1..Len(s) : j # k => t[j] = s[j]
    BY <1>2, <1>5
  <1> HIDE DEF t
  <1>7. ranges' \in [Copies -> Seq(Batch)] /\ ranges'[c] = t /\ \A d \in Copies : d # c => ranges'[d] = ranges[d]
    BY <1>1, <1>3, <1>6
  <1> QED
    BY <1>2, <1>5, <1>6, <1>7 DEF s

LEMMA SourceTyped ==
    ASSUME Typed, NEW s \in Slices, NEW n \in Nodes
    PROVE  MerkleSource(s, n) \in SUBSET {"whole", "bad"}
  BY DEF MerkleSource

LEMMA TypingStep == Typed /\ [Next]_vars => Typed'
  <1> SUFFICES ASSUME Typed, [Next]_vars PROVE Typed'
    OBVIOUS
  <1> USE DEF ownerVars, storeVars, nodeVars, NoFault, Fault
  <1>1. ASSUME NEW n \in Nodes, Start(n) PROVE Typed'
    <2>1. NodesTyped'
      <3>1. now \in Nat
        BY BoundsAreNat DEF Typed, ChainTyped, Times
      <3>2. node \in [Nodes -> [at : Nat, online : BOOLEAN]]
            /\ \A m \in Nodes : node[m] = None \/ node[m].at <= now
        BY DEF Typed, NodesTyped
      <3>3. PICK x : x = IF node[n] = None THEN [at |-> now, online |-> TRUE]
                         ELSE [node[n] EXCEPT !.online = TRUE]
        OBVIOUS
      <3>4. x \in [at : Nat, online : BOOLEAN] /\ x.at <= now
        <4>1. CASE node[n] = None
          BY <3>1, <3>3, <4>1
        <4>2. CASE node[n] # None
          <5>1. node[n] \in [at : Nat, online : BOOLEAN] /\ node[n].at <= now
            BY <3>2, <4>2
          <5> QED
            BY <3>3, <4>2, <5>1
        <4> QED
          BY <4>1, <4>2
      <3>5. node' = [node EXCEPT ![n] = x]
        BY <1>1, <3>3 DEF Start
      <3>6. node' \in [Nodes -> [at : Nat, online : BOOLEAN]]
            /\ \A m \in Nodes : node'[m] = None \/ node'[m].at <= now
        BY <3>2, <3>4, <3>5
      <3>7. up' \in SUBSET Nodes /\ UNCHANGED <<todo, beats, chals, now, None>>
        BY <1>1 DEF Start, Typed, NodesTyped, None
      <3> QED
        BY <3>6, <3>7 DEF Typed, NodesTyped
    <2> QED
      BY <1>1, <2>1 DEF Start, Typed, ChainTyped, StoreTyped, LoopsTyped
  <1>2. ASSUME NEW n \in Nodes, Stop(n) PROVE Typed'
    BY <1>2 DEF Stop, Typed, ChainTyped, StoreTyped, NodesTyped, LoopsTyped
  <1>3. ASSUME NEW n \in Nodes, NodeOffline(n) PROVE Typed'
    <2>1. node[n].at <= now
      BY <1>3 DEF NodeOffline, Typed, NodesTyped, None
    <2>2. NodesTyped'
      <3>2. node \in [Nodes -> [at : Nat, online : BOOLEAN]]
            /\ \A m \in Nodes : node[m] = None \/ node[m].at <= now
        BY DEF Typed, NodesTyped
      <3>3. PICK x : x = [node[n] EXCEPT !.online = FALSE]
        OBVIOUS
      <3>4. x \in [at : Nat, online : BOOLEAN] /\ x.at <= now
        BY <2>1, <3>2, <3>3
      <3>5. node' = [node EXCEPT ![n] = x]
        BY <1>3, <3>3 DEF NodeOffline
      <3>6. node' \in [Nodes -> [at : Nat, online : BOOLEAN]]
            /\ \A m \in Nodes : node'[m] = None \/ node'[m].at <= now
        BY <3>2, <3>4, <3>5
      <3>7. UNCHANGED <<up, todo, beats, chals, now, None>>
        BY <1>3 DEF NodeOffline, None
      <3> QED
        BY <3>6, <3>7 DEF Typed, NodesTyped
    <2> QED
      BY <1>3, <2>2 DEF NodeOffline, Typed, ChainTyped, StoreTyped, LoopsTyped
  <1>4. ASSUME NEW n \in Nodes, AnswerList(n) PROVE Typed'
    <2>1. NodesTyped'
      <3>1. DOMAIN chals \in SUBSET Nat
        BY DEF Typed, ChainTyped
      <3> QED
        BY <1>4, <3>1 DEF AnswerList, Typed, NodesTyped
    <2> QED
      BY <1>4, <2>1 DEF AnswerList, Typed, ChainTyped, StoreTyped, LoopsTyped
  <1>5. ASSUME NEW n \in Nodes, NEW i \in Ids, AnswerOne(n, i) PROVE Typed'
    <2>1. i \in DOMAIN chals
      BY <1>5 DEF AnswerOne, Typed, NodesTyped
    <2>2. ChallengeAnswer(i) \/ UNCHANGED chals
      BY <1>5 DEF AnswerOne
    <2>3. /\ chals' \in Seq(Challenge)
          /\ DOMAIN chals' = DOMAIN chals
          /\ \A j \in DOMAIN chals : chals'[j].node = chals[j].node
          /\ \A j \in DOMAIN chals : chals'[j].slices = chals[j].slices
      BY <2>1, <2>2, AnswerTyped
    <2>4. ChainTyped'
      BY <1>5, <2>3 DEF AnswerOne, Typed, ChainTyped
    <2>5. NodesTyped'
      BY <1>5, <2>3 DEF AnswerOne, Typed, NodesTyped
    <2> QED
      BY <1>5, <2>4, <2>5 DEF AnswerOne, Typed, StoreTyped, LoopsTyped
  <1>6. ASSUME NEW n \in Nodes, PairingRequest(n) PROVE Typed'
    <2> DEFINE held == {s \in Slices : <<s, n>> \in listed}
    <2>1. CASE UNCHANGED chals
      BY <1>6, <2>1 DEF PairingRequest, LoopRequest, Typed, ChainTyped, StoreTyped, NodesTyped, LoopsTyped
    <2>2. CASE ~ UNCHANGED chals
      <3>1. PICK sel \in SUBSET held : /\ Cardinality(sel) = SelectNum(Cardinality(held))
                                       /\ ChallengeRequest(n, sel, "whole")
        BY <1>6, <2>2 DEF PairingRequest
      <3>2. held # {} /\ held \in SUBSET Slices
        BY <1>6 DEF PairingRequest
      <3>3. sel # {}
        BY <3>1, <3>2, SelectionTyped
      <3>4. /\ chals' \in Seq(Challenge)
            /\ \A i \in DOMAIN chals : i \in DOMAIN chals' /\ chals'[i] = chals[i]
            /\ \A i \in DOMAIN chals' : chals'[i].slices # {}
        BY <3>1, <3>2, <3>3, RequestTyped
      <3>5. ChainTyped'
        BY <1>6, <3>4 DEF PairingRequest, LoopRequest, Typed, ChainTyped
      <3>6. NodesTyped'
        BY <1>6, <3>4 DEF PairingRequest, Typed, NodesTyped
      <3> QED
        BY <1>6, <3>5, <3>6 DEF PairingRequest, Typed, StoreTyped, LoopsTyped
    <2> QED
      BY <2>1, <2>2
  <1>7. ASSUME NEW c \in Copies, Damage(c) PROVE Typed'
    BY <1>7 DEF Damage, Typed, ChainTyped, StoreTyped, NodesTyped, LoopsTyped, Contents
  <1>8. ASSUME NEW c \in Copies, MerkleRequest(c) PROVE Typed'
    <2>1. CASE Take(c) = {} /\ UNCHANGED <<ranges, chals>>
      BY <1>8, <2>1 DEF MerkleRequest, LoopRequest, Typed, ChainTyped, StoreTyped, NodesTyped, LoopsTyped
    <2>2. CASE \E k \in Take(c) : ranges' = [ranges EXCEPT ![c][k].left = @ - 1]
      <3>1. PICK k \in Take(c) : ranges' = [ranges EXCEPT ![c][k].left = @ - 1]
        BY <2>2
      <3>2. ranges' \in [Copies -> Seq(Batch)]
        BY <3>1, UseRange
      <3>3. StoreTyped'
        BY <1>8, <3>2 DEF MerkleRequest, Typed, StoreTyped
      <3>4. CASE UNCHANGED chals
        BY <1>8, <3>3, <3>4 DEF MerkleRequest, LoopRequest, Typed, ChainTyped, NodesTyped, LoopsTyped
      <3>5. CASE ~ UNCHANGED chals
        <4>1. PICK j \in Take(c) : ChallengeRequest(c[2], {c[1]}, ranges[c][j].of)
          BY <1>8, <3>5 DEF MerkleRequest
        <4>2. c[1] \in Slices /\ c[2] \in Nodes
          BY DEF Copies
        <4>3. ranges[c][j].of \in {"whole", "bad"}
          <5>1. ranges[c][j] \in Batch
            BY DEF Typed, StoreTyped, Take
          <5> QED
            BY <5>1 DEF Batch
        <4>4. /\ chals' \in Seq(Challenge)
              /\ \A i \in DOMAIN chals : i \in DOMAIN chals' /\ chals'[i] = chals[i]
              /\ \A i \in DOMAIN chals' : chals'[i].slices # {}
          BY <4>1, <4>2, <4>3, RequestTyped
        <4>5. ChainTyped'
          BY <1>8, <4>4 DEF MerkleRequest, LoopRequest, Typed, ChainTyped
        <4>6. NodesTyped'
          BY <1>8, <4>4 DEF MerkleRequest, Typed, NodesTyped
        <4> QED
          BY <1>8, <3>3, <4>5, <4>6 DEF MerkleRequest, Typed, LoopsTyped
      <3> QED
        BY <3>4, <3>5
    <2> QED
      BY <1>8, <2>1, <2>2 DEF MerkleRequest
  <1>9. ASSUME NEW c \in Copies, MigrateSlice(c) PROVE Typed'
    <2>1. migrate.expiry \in Times /\ now \in Times /\ now <= migrate.expiry
      BY <1>9, BoundsAreNat DEF MigrateSlice, Typed, LoopsTyped, ChainTyped, Times
    <2>2. Setup("whole", now, migrate.expiry) \in Batch
      BY <2>1, SetupTyped
    <2>3. NoSigmas \in [Times -> {"none", "whole", "bad"}]
      BY DEF NoSigmas
    <2>4. Rounds(now, migrate.expiry, "whole", NoSigmas) \in [Times -> {"none", "whole", "bad"}]
      BY <2>3 DEF Rounds
    <2>5. Append(ranges[c], Setup("whole", now, migrate.expiry)) \in Seq(Batch)
      BY <2>2 DEF Typed, StoreTyped
    <2>6. StoreTyped'
      BY <1>9, <2>4, <2>5 DEF MigrateSlice, Typed, StoreTyped, Contents
    <2>7. ChainTyped'
      BY <1>9 DEF MigrateSlice, Typed, ChainTyped, LoopsTyped
    <2>8. LoopsTyped'
      BY <1>9, BoundsAreNat DEF MigrateSlice, Typed, LoopsTyped, Idle, Times
    <2>9. NodesTyped'
      BY <1>9 DEF MigrateSlice, Typed, NodesTyped
    <2> QED
      BY <2>6, <2>7, <2>8, <2>9 DEF Typed
  <1>10. ASSUME NEW e \in NewExpiry, ExtendChain(e) PROVE Typed'
    <2>1. e \in Times /\ now \in Times /\ expiry \in Times
      BY ChallengeAssumption DEF Typed, ChainTyped
    <2>2. ChainTyped'
      BY <1>10, <2>1 DEF ExtendChain, Typed, ChainTyped
    <2>3. LoopsTyped'
      BY <1>10, <2>1, BoundsAreNat DEF ExtendChain, Typed, LoopsTyped, ChainTyped, Times
    <2> QED
      BY <1>10, <2>2, <2>3 DEF ExtendChain, Typed, StoreTyped, NodesTyped
  <1>11. ASSUME ExtendMerkle PROVE Typed'
    <2>1. ASSUME \A c \in extend.listed : MerkleSource(c[1], c[2]) # {},
                 NEW c \in extend.listed
          PROVE  Append(ranges[c], Setup(CHOOSE x \in MerkleSource(c[1], c[2]) : TRUE,
                                         extend.from, expiry)) \in Seq(Batch)
      <3>1. c \in Copies /\ c[1] \in Slices /\ c[2] \in Nodes
        BY DEF Typed, LoopsTyped, Copies
      <3>2. (CHOOSE x \in MerkleSource(c[1], c[2]) : TRUE) \in {"whole", "bad"}
        BY <2>1, <3>1, SourceTyped
      <3>3. extend.from \in Times /\ expiry \in Times /\ extend.from <= expiry
        BY <1>11 DEF ExtendMerkle, Typed, LoopsTyped, ChainTyped
      <3>4. Setup(CHOOSE x \in MerkleSource(c[1], c[2]) : TRUE, extend.from, expiry) \in Batch
        BY <3>2, <3>3, SetupTyped
      <3>5. ranges[c] \in Seq(Batch)
        BY <3>1 DEF Typed, StoreTyped
      <3> QED
        BY <3>4, <3>5
    <2>2. ranges' \in [Copies -> Seq(Batch)]
      <3>1. ranges \in [Copies -> Seq(Batch)]
        BY DEF Typed, StoreTyped
      <3>2. CASE \A c \in extend.listed : MerkleSource(c[1], c[2]) # {}
        BY <1>11, <2>1, <3>1, <3>2 DEF ExtendMerkle
      <3>3. CASE UNCHANGED ranges
        BY <3>1, <3>3
      <3> QED
        BY <1>11, <3>2, <3>3 DEF ExtendMerkle
    <2>3. StoreTyped'
      BY <1>11, <2>2 DEF ExtendMerkle, Typed, StoreTyped
    <2>4. ChainTyped'
      BY <1>11 DEF ExtendMerkle, Typed, ChainTyped, LoopsTyped
    <2>5. LoopsTyped'
      BY <1>11 DEF ExtendMerkle, Typed, LoopsTyped
    <2> QED
      BY <1>11, <2>3, <2>4, <2>5 DEF ExtendMerkle, Typed, NodesTyped
  <1>12. ASSUME ExtendPairing PROVE Typed'
    <2>1. ASSUME NEW c \in Copies, content[c] \in {"whole", "bad"}
          PROVE  Rounds(extend.from, expiry, content[c], sigmas[c]) \in [Times -> {"none", "whole", "bad"}]
      BY <2>1 DEF Rounds, Typed, StoreTyped
    <2>2. sigmas' \in [Copies -> [Times -> {"none", "whole", "bad"}]]
      <3>1. sigmas \in [Copies -> [Times -> {"none", "whole", "bad"}]]
        BY DEF Typed, StoreTyped
      <3> QED
        BY <1>12, <2>1, <3>1 DEF ExtendPairing
    <2>3. StoreTyped'
      BY <1>12, <2>2 DEF ExtendPairing, Typed, StoreTyped
    <2>4. ChainTyped'
      BY <1>12 DEF ExtendPairing, Typed, ChainTyped, LoopsTyped
    <2>5. LoopsTyped'
      BY <1>12 DEF ExtendPairing, Typed, LoopsTyped
    <2> QED
      BY <1>12, <2>3, <2>4, <2>5 DEF ExtendPairing, Typed, NodesTyped
  <1>13. ASSUME NEW s \in Slices, NEW from \in Nodes, NEW to \in Nodes, MigrateList(s, from, to)
         PROVE  Typed'
    <2>1. LoopsTyped'
      <3>1. <<s, from>> \in Copies /\ <<s, to>> \in Copies
        BY DEF Copies
      <3> QED
        BY <1>13, <3>1, BoundsAreNat DEF MigrateList, Typed, LoopsTyped, ChainTyped, Times
    <2> QED
      BY <1>13, <2>1 DEF MigrateList, Typed, ChainTyped, StoreTyped, NodesTyped
  <1>14. ASSUME MigrateFails PROVE Typed'
    <2>1. LoopsTyped'
      BY <1>14, BoundsAreNat DEF MigrateFails, Typed, LoopsTyped, Idle, Times
    <2> QED
      BY <1>14, <2>1 DEF MigrateFails, Typed, ChainTyped, StoreTyped, NodesTyped
  <1>15. ASSUME Tick PROVE Typed'
    <2>1. now' \in Times /\ now < now' /\ now' \in Nat /\ now \in Nat
      BY <1>15, BoundsAreNat DEF Tick, Typed, ChainTyped, Times
    <2>2. NodesTyped'
      <3>1. now \in Times
        BY DEF Typed, ChainTyped
      <3>2. beats' \in [Nodes -> SUBSET Times]
        BY <1>15, <3>1 DEF Tick, Typed, NodesTyped, Heartbeat
      <3>3. now' = now + 1 /\ UNCHANGED <<up, todo, chals, node, None>>
        BY <1>15 DEF Tick, None
      <3>4. \A n \in Nodes : node[n] = None \/ node[n].at <= now'
        BY <3>1, <3>3, BoundsAreNat DEF Typed, NodesTyped, Times
      <3> QED
        BY <3>2, <3>3, <3>4 DEF Typed, NodesTyped
    <2> QED
      BY <1>15, <2>1, <2>2 DEF Tick, Typed, ChainTyped, StoreTyped, LoopsTyped
  <1>16. ASSUME UNCHANGED vars PROVE Typed'
    BY <1>16 DEF vars, Typed, ChainTyped, StoreTyped, NodesTyped, LoopsTyped, Take
  <1> HIDE DEF ownerVars, storeVars, nodeVars, NoFault, Fault
  <1> QED
    BY Steps, <1>1, <1>2, <1>3, <1>4, <1>5, <1>6, <1>7, <1>8, <1>9, <1>10, <1>11,
       <1>12, <1>13, <1>14, <1>15, <1>16

\* The records of the owner, of the nodes and of the chain are well formed; a
\* challenge is never about no slice (GenerateChallenge), and an answer loop has
\* listed only challenges to its own node.
THEOREM ChallengesTyped == Spec => []ChallengeTypeOK
  <1>1. Init => Typed
    BY TypingInit
  <1>2. Typed /\ [Next]_vars => Typed'
    BY TypingStep
  <1>3. Typed => ChallengeTypeOK
    BY TypedIsTypeOK
  <1> QED
    BY <1>1, <1>2, <1>3, PTL DEF Spec

-----------------------------------------------------------------------------
(***************************************************************************)
(* Material and damage.  A damaged copy stays damaged (only a lost one is  *)
(* replaced), and whatever speaks of damaged content, material or a        *)
(* verdict, points to such a copy.                                         *)
(***************************************************************************)

MaterialOfBad == \A c \in MadeFromBad : content[c] = "bad"

AskedOfBad ==
    \A i \in DOMAIN chals :
        chals[i].of = "bad" => \A s \in chals[i].slices : content[<<s, chals[i].node>>] = "bad"

FailedIsBad ==
    \A i \in DOMAIN chals :
        chals[i].status = "Failed" => \E s \in chals[i].slices : content[<<s, chals[i].node>>] = "bad"

DamageInv == MaterialOfBad /\ AskedOfBad /\ FailedIsBad

BadStays == \A c \in Copies : content[c] = "bad" => content'[c] = "bad"

\* What a step does to the contents and to the material.
LEMMA StoreMoves ==
    ASSUME Typed, [Next]_vars
    PROVE  /\ BadStays
           /\ MadeFromBad' \subseteq MadeFromBad \cup {c \in Copies : content[c] = "bad"}
           /\ ~ UNCHANGED chals => MadeFromBad' = MadeFromBad /\ UNCHANGED content
  <1> DEFINE Goal == /\ BadStays
                     /\ MadeFromBad' \subseteq MadeFromBad \cup {c \in Copies : content[c] = "bad"}
                     /\ ~ UNCHANGED chals => MadeFromBad' = MadeFromBad /\ UNCHANGED content
  <1>1. ASSUME UNCHANGED <<content, sigmas, ranges>> PROVE Goal
    BY <1>1 DEF BadStays, MadeFromBad
  <1>2. ASSUME NEW c \in Copies, Damage(c) PROVE Goal
    <2>1. MadeFromBad' = MadeFromBad
      BY <1>2 DEF Damage, MadeFromBad, ownerVars
    <2> QED
      BY <1>2, <2>1 DEF Damage, BadStays, Typed, StoreTyped
  <1>3. ASSUME NEW c \in Copies, MerkleRequest(c) PROVE Goal
    <2>1. UNCHANGED <<content, sigmas>>
      BY <1>3 DEF MerkleRequest, storeVars
    <2>2. CASE UNCHANGED ranges
      BY <1>1, <2>1, <2>2
    <2>3. CASE ~ UNCHANGED ranges
      <3>1. PICK k \in Take(c) : ranges' = [ranges EXCEPT ![c][k].left = @ - 1]
        BY <1>3, <2>3 DEF MerkleRequest
      <3>2. /\ ranges' \in [Copies -> Seq(Batch)]
            /\ \A d \in Copies : d # c => ranges'[d] = ranges[d]
            /\ Len(ranges'[c]) = Len(ranges[c])
            /\ \A j \in 1..Len(ranges[c]) : ranges'[c][j].of = ranges[c][j].of
        BY <3>1, UseRange
      <3>3. ranges \in [Copies -> Seq(Batch)]
        BY DEF Typed, StoreTyped
      <3>4. \A d \in Copies : (\E j \in DOMAIN ranges'[d] : ranges'[d][j].of = "bad")
                               <=> \E j \in DOMAIN ranges[d] : ranges[d][j].of = "bad"
        <4> TAKE d \in Copies
        <4>1. CASE d = c
          <5>1. DOMAIN ranges[c] = 1..Len(ranges[c]) /\ DOMAIN ranges'[c] = 1..Len(ranges[c])
            BY <3>2, <3>3
          <5> QED
            BY <3>2, <4>1, <5>1
        <4>2. CASE d # c
          BY <3>2, <4>2
        <4> QED
          BY <4>1, <4>2
      <3>5. MadeFromBad' = MadeFromBad
        BY <2>1, <3>4 DEF MadeFromBad
      <3> QED
        BY <2>1, <3>5 DEF BadStays
    <2> QED
      BY <2>2, <2>3
  <1>4. ASSUME NEW c \in Copies, MigrateSlice(c) PROVE Goal
    <2>1. BadStays
      BY <1>4 DEF MigrateSlice, BadStays, Typed, StoreTyped
    <2>2. UNCHANGED chals
      BY <1>4 DEF MigrateSlice
    <2>3. ASSUME NEW d \in MadeFromBad' PROVE d \in MadeFromBad
      <3>1. d \in Copies /\ \/ \E r \in Times : sigmas'[d][r] = "bad"
                            \/ \E k \in DOMAIN ranges'[d] : ranges'[d][k].of = "bad"
        BY DEF MadeFromBad
      <3>2. \A r \in Times : sigmas'[d][r] = "bad" => sigmas[d][r] = "bad"
        <4>1. \A r \in Times : Rounds(now, migrate.expiry, "whole", NoSigmas)[r] # "bad"
          BY DEF Rounds, NoSigmas
        <4> QED
          BY <1>4, <3>1, <4>1 DEF MigrateSlice, Typed, StoreTyped
      <3>3. ASSUME NEW k \in DOMAIN ranges'[d], ranges'[d][k].of = "bad"
            PROVE  k \in DOMAIN ranges[d] /\ ranges[d][k].of = "bad"
        <4>1. CASE ranges'[d] = ranges[d]
          BY <3>3, <4>1
        <4>2. CASE ranges'[d] # ranges[d]
          <5>1. d = c /\ ranges'[d] = Append(ranges[d], Setup("whole", now, migrate.expiry))
            BY <1>4, <3>1, <4>2 DEF MigrateSlice, Typed, StoreTyped
          <5>2. PICK b : b = Setup("whole", now, migrate.expiry)
            OBVIOUS
          <5>3. b.of = "whole"
            BY <5>2 DEF Setup
          <5>4. ranges[d] \in Seq(Batch)
            BY <3>1 DEF Typed, StoreTyped
          <5>5. /\ DOMAIN ranges'[d] = 1..(Len(ranges[d]) + 1)
                /\ ranges'[d][Len(ranges[d]) + 1] = b
                /\ \A j \in 1..Len(ranges[d]) : ranges'[d][j] = ranges[d][j]
            BY <5>1, <5>2, <5>4
          <5> QED
            BY <3>3, <5>3, <5>4, <5>5
        <4> QED
          BY <4>1, <4>2
      <3> QED
        BY <3>1, <3>2, <3>3 DEF MadeFromBad
    <2> QED
      BY <2>1, <2>2, <2>3
  <1>5. ASSUME ExtendMerkle PROVE Goal
    <2>1. UNCHANGED <<content, sigmas, chals>>
      BY <1>5 DEF ExtendMerkle, storeVars
    <2>2. CASE UNCHANGED ranges
      BY <1>1, <2>1, <2>2
    <2>3. CASE ~ UNCHANGED ranges
      <3>1. /\ \A c \in extend.listed : MerkleSource(c[1], c[2]) # {}
            /\ ranges' = [c \in Copies |->
                  IF c \notin extend.listed THEN ranges[c]
                  ELSE Append(ranges[c], Setup(CHOOSE x \in MerkleSource(c[1], c[2]) : TRUE,
                                               extend.from, expiry))]
        BY <1>5, <2>3 DEF ExtendMerkle
      <3>2. ASSUME NEW d \in MadeFromBad', d \notin MadeFromBad PROVE content[d] = "bad"
        <4>1. /\ d \in Copies /\ \E k \in DOMAIN ranges'[d] : ranges'[d][k].of = "bad"
              /\ \A k \in DOMAIN ranges[d] : ranges[d][k].of # "bad"
          BY <2>1, <3>2 DEF MadeFromBad
        <4>2. PICK k \in DOMAIN ranges'[d] : ranges'[d][k].of = "bad"
          BY <4>1
        <4>3. d \in extend.listed
          BY <3>1, <4>1, <4>2
        <4>4. PICK x : x = CHOOSE y \in MerkleSource(d[1], d[2]) : TRUE
          OBVIOUS
        <4>5. x \in MerkleSource(d[1], d[2])
          BY <3>1, <4>3, <4>4
        <4>6. PICK b : b = Setup(x, extend.from, expiry)
          OBVIOUS
        <4>7. b.of = x
          BY <4>6 DEF Setup
        <4>8. ranges'[d] = Append(ranges[d], b)
          BY <3>1, <4>1, <4>3, <4>4, <4>6
        <4>9. ranges[d] \in Seq(Batch)
          BY <4>1 DEF Typed, StoreTyped
        <4>10. x = "bad"
          BY <4>1, <4>2, <4>7, <4>8, <4>9
        <4>11. d = <<d[1], d[2]>>
          BY <4>1 DEF Copies
        <4> QED
          BY <4>5, <4>10, <4>11 DEF MerkleSource
      <3> QED
        BY <2>1, <3>2 DEF BadStays, MadeFromBad
    <2> QED
      BY <2>2, <2>3
  <1>6. ASSUME ExtendPairing PROVE Goal
    <2>1. UNCHANGED <<content, ranges, chals>>
      BY <1>6 DEF ExtendPairing
    <2>2. ASSUME NEW d \in MadeFromBad', d \notin MadeFromBad PROVE content[d] = "bad"
      <3>1. /\ d \in Copies /\ \E r \in Times : sigmas'[d][r] = "bad"
            /\ \A r \in Times : sigmas[d][r] # "bad"
        BY <2>1, <2>2 DEF MadeFromBad
      <3>2. sigmas'[d] # sigmas[d]
        BY <3>1
      <3>3. sigmas'[d] = Rounds(extend.from, expiry, content[d], sigmas[d])
        BY <1>6, <3>1, <3>2 DEF ExtendPairing
      <3> QED
        BY <3>1, <3>3 DEF Rounds
    <2> QED
      BY <2>1, <2>2 DEF BadStays, MadeFromBad
  <1> QED
    <2>1. ASSUME NEW n \in Nodes, Start(n) \/ Stop(n) \/ NodeOffline(n) \/ AnswerList(n)
                                  \/ PairingRequest(n) \/ \E i \in Ids : AnswerOne(n, i)
          PROVE  UNCHANGED <<content, sigmas, ranges>>
      BY <2>1 DEF Start, Stop, NodeOffline, AnswerList, PairingRequest, AnswerOne, storeVars, ownerVars
    <2>2. ASSUME Tick \/ MigrateFails \/ UNCHANGED vars
          PROVE  UNCHANGED <<content, sigmas, ranges>>
      BY <2>2 DEF Tick, MigrateFails, vars, storeVars, ownerVars
    <2>3. ASSUME NEW s \in Slices, NEW from \in Nodes, NEW to \in Nodes, MigrateList(s, from, to)
          PROVE  UNCHANGED <<content, sigmas, ranges>>
      BY <2>3 DEF MigrateList, storeVars
    <2>4. ASSUME NEW e \in NewExpiry, ExtendChain(e) PROVE UNCHANGED <<content, sigmas, ranges>>
      BY <2>4 DEF ExtendChain, storeVars
    <2> HIDE DEF Goal
    <2>5. Goal
      BY Steps, <1>1, <1>2, <1>3, <1>4, <1>5, <1>6, <2>1, <2>2, <2>3, <2>4
    <2> QED
      BY <2>5 DEF Goal

Asks(n, sel, of) ==
    /\ n \in Nodes /\ sel \in SUBSET Slices /\ sel # {} /\ of \in {"whole", "bad"}
    /\ Len(chals) < MaxChallenges
    /\ of = "bad" => \A s \in sel : <<s, n>> \in MadeFromBad
    /\ ChallengeRequest(n, sel, of)

Judges(i) ==
    /\ i \in DOMAIN chals
    /\ CanProve(chals[i])
    /\ ChallengeAnswer(i)

\* What a step does to the challenges: it asks one more, or judges one.
LEMMA ChainMoves ==
    ASSUME Typed, [Next]_vars
    PROVE  /\ UNCHANGED alg
           /\ \/ UNCHANGED chals
              \/ \E n, sel, of : Asks(n, sel, of)
              \/ \E i \in Ids : Judges(i)
  <1> DEFINE Goal == /\ UNCHANGED alg
                     /\ \/ UNCHANGED chals
                        \/ \E n, sel, of : Asks(n, sel, of)
                        \/ \E i \in Ids : Judges(i)
  <1>1. ASSUME NEW n \in Nodes, NEW i \in Ids, AnswerOne(n, i) PROVE Goal
    <2>1. i \in DOMAIN chals
      BY <1>1 DEF AnswerOne, Typed, NodesTyped
    <2> QED
      BY <1>1, <2>1 DEF AnswerOne, Judges
  <1>2. ASSUME NEW n \in Nodes, PairingRequest(n) PROVE Goal
    <2> DEFINE held == {s \in Slices : <<s, n>> \in listed}
    <2>1. UNCHANGED alg /\ held # {} /\ held \in SUBSET Slices /\ Len(chals) < MaxChallenges
      BY <1>2 DEF PairingRequest, LoopRequest
    <2>2. ASSUME ~ UNCHANGED chals PROVE \E sel, of : Asks(n, sel, of)
      <3>1. PICK sel \in SUBSET held : /\ Cardinality(sel) = SelectNum(Cardinality(held))
                                       /\ ChallengeRequest(n, sel, "whole")
        BY <1>2, <2>2 DEF PairingRequest
      <3>2. sel # {}
        BY <2>1, <3>1, SelectionTyped
      <3>3. Asks(n, sel, "whole")
        BY <2>1, <3>1, <3>2 DEF Asks
      <3> QED
        BY <3>3
    <2> QED
      BY <2>1, <2>2
  <1>3. ASSUME NEW c \in Copies, MerkleRequest(c) PROVE Goal
    <2>1. UNCHANGED alg /\ Len(chals) < MaxChallenges
      BY <1>3 DEF MerkleRequest, LoopRequest
    <2>2. ASSUME ~ UNCHANGED chals PROVE \E n, sel, of : Asks(n, sel, of)
      <3>1. PICK k \in Take(c) : ChallengeRequest(c[2], {c[1]}, ranges[c][k].of)
        BY <1>3, <2>2 DEF MerkleRequest
      <3>2. c[1] \in Slices /\ c[2] \in Nodes /\ c = <<c[1], c[2]>>
        BY DEF Copies
      <3>3. k \in DOMAIN ranges[c]
        BY DEF Take
      <3>4. ranges[c][k] \in Batch
        BY <3>3 DEF Typed, StoreTyped
      <3>5. ranges[c][k].of \in {"whole", "bad"}
        BY <3>4 DEF Batch
      <3>6. ranges[c][k].of = "bad" => c \in MadeFromBad
        BY <3>3 DEF MadeFromBad
      <3>7. Asks(c[2], {c[1]}, ranges[c][k].of)
        BY <2>1, <3>1, <3>2, <3>5, <3>6 DEF Asks
      <3> QED
        BY <3>7
    <2> QED
      BY <2>1, <2>2
  <1> QED
    <2>1. ASSUME NEW n \in Nodes, Start(n) \/ Stop(n) \/ NodeOffline(n) \/ AnswerList(n)
          PROVE  UNCHANGED <<alg, chals>>
      BY <2>1 DEF Start, Stop, NodeOffline, AnswerList
    <2>2. ASSUME Tick \/ MigrateFails \/ ExtendMerkle \/ ExtendPairing \/ UNCHANGED vars
          PROVE  UNCHANGED <<alg, chals>>
      BY <2>2 DEF Tick, MigrateFails, vars, ExtendMerkle, ExtendPairing
    <2>3. ASSUME NEW s \in Slices, NEW from \in Nodes, NEW to \in Nodes, MigrateList(s, from, to)
          PROVE  UNCHANGED <<alg, chals>>
      BY <2>3 DEF MigrateList
    <2>4. ASSUME NEW e \in NewExpiry, ExtendChain(e) PROVE UNCHANGED <<alg, chals>>
      BY <2>4 DEF ExtendChain
    <2>5. ASSUME NEW c \in Copies, Damage(c) \/ MigrateSlice(c) PROVE UNCHANGED <<alg, chals>>
      BY <2>5 DEF Damage, MigrateSlice
    <2> HIDE DEF Goal
    <2>6. UNCHANGED <<alg, chals>> => Goal
      BY DEF Goal
    <2>7. Goal
      BY Steps, <1>1, <1>2, <1>3, <2>1, <2>2, <2>3, <2>4, <2>5, <2>6
    <2> QED
      BY <2>7 DEF Goal

\* Of the slices of a challenge that fails, one is damaged.
LEMMA FailureNeedsDamage ==
    ASSUME Typed, DamageInv, NEW i \in DOMAIN chals, CanProve(chals[i]), "Failed" \in Verify(chals[i])
    PROVE  \E s \in chals[i].slices : content[<<s, chals[i].node>>] = "bad"
  <1>1. PICK s \in chals[i].slices :
             content[<<s, chals[i].node>>] # IF alg = "pairing"
                                             THEN sigmas[<<s, chals[i].node>>][chals[i].round]
                                             ELSE chals[i].of
    BY DEF Verify
  <1>2. content[<<s, chals[i].node>>] \in {"whole", "bad"}
        /\ (alg = "pairing" => sigmas[<<s, chals[i].node>>][chals[i].round] # "none")
    BY DEF CanProve
  <1>3. chals[i] \in Challenge
    BY DEF Typed, ChainTyped
  <1>4. <<s, chals[i].node>> \in Copies /\ chals[i].round \in Times /\ chals[i].of \in {"whole", "bad"}
    BY <1>3 DEF Challenge, Copies
  <1>5. sigmas[<<s, chals[i].node>>][chals[i].round] \in {"none", "whole", "bad"}
    BY <1>4 DEF Typed, StoreTyped
  <1>6. sigmas[<<s, chals[i].node>>][chals[i].round] = "bad" => content[<<s, chals[i].node>>] = "bad"
    BY <1>4 DEF DamageInv, MaterialOfBad, MadeFromBad
  <1>7. chals[i].of = "bad" => content[<<s, chals[i].node>>] = "bad"
    BY DEF DamageInv, AskedOfBad
  <1> QED
    BY <1>1, <1>2, <1>4, <1>5, <1>6, <1>7

LEMMA DamageStep == Typed /\ DamageInv /\ [Next]_vars => DamageInv'
  <1> SUFFICES ASSUME Typed, DamageInv, [Next]_vars PROVE DamageInv'
    OBVIOUS
  <1>1. /\ BadStays
        /\ MadeFromBad' \subseteq MadeFromBad \cup {c \in Copies : content[c] = "bad"}
        /\ ~ UNCHANGED chals => MadeFromBad' = MadeFromBad /\ UNCHANGED content
    BY StoreMoves
  <1>2. MaterialOfBad'
    <2>1. ASSUME NEW c \in MadeFromBad' PROVE content[c] = "bad" /\ c \in Copies
      BY <1>1 DEF DamageInv, MaterialOfBad, MadeFromBad
    <2> QED
      BY <1>1, <2>1 DEF BadStays, MaterialOfBad
  <1>3. ASSUME NEW i \in DOMAIN chals, NEW s \in chals[i].slices
        PROVE  <<s, chals[i].node>> \in Copies
    <2>1. chals[i] \in Challenge
      BY DEF Typed, ChainTyped
    <2> QED
      BY <2>1 DEF Challenge, Copies
  <1>4. CASE UNCHANGED chals
    BY <1>1, <1>2, <1>3, <1>4 DEF DamageInv, AskedOfBad, FailedIsBad, BadStays
  <1>5. ASSUME NEW n, NEW sel, NEW of, Asks(n, sel, of) PROVE DamageInv'
    <2>1. /\ chals' \in Seq(Challenge)
          /\ \A i \in DOMAIN chals : i \in DOMAIN chals' /\ chals'[i] = chals[i]
          /\ \A i \in DOMAIN chals' : i \in DOMAIN chals \/ i = Len(chals) + 1
          /\ Len(chals) + 1 \notin DOMAIN chals
          /\ chals'[Len(chals) + 1] = [node |-> n, slices |-> sel, round |-> now, of |-> of,
                                       status |-> "ToProve"]
      BY <1>5, RequestTyped DEF Asks
    <2>2. of = "bad" => \A s \in sel : content[<<s, n>>] = "bad"
      BY <1>5 DEF Asks, DamageInv, MaterialOfBad
    <2>3. CASE UNCHANGED chals
      BY <1>4, <2>3
    <2>4. CASE UNCHANGED content
      <3>1. AskedOfBad'
        <4> SUFFICES ASSUME NEW i \in DOMAIN chals', chals'[i].of = "bad", NEW s \in chals'[i].slices
                     PROVE  content[<<s, chals'[i].node>>] = "bad"
          BY <2>4 DEF AskedOfBad
        <4>1. CASE i \in DOMAIN chals
          BY <2>1, <4>1 DEF DamageInv, AskedOfBad
        <4>2. CASE i = Len(chals) + 1
          BY <2>1, <2>2, <4>2
        <4> QED
          BY <2>1, <4>1, <4>2
      <3>2. FailedIsBad'
        <4> SUFFICES ASSUME NEW i \in DOMAIN chals', chals'[i].status = "Failed"
                     PROVE  \E s \in chals'[i].slices : content[<<s, chals'[i].node>>] = "bad"
          BY <2>4 DEF FailedIsBad
        <4>1. i \in DOMAIN chals
          BY <2>1
        <4> QED
          BY <2>1, <4>1 DEF DamageInv, FailedIsBad
      <3> QED
        BY <1>2, <3>1, <3>2 DEF DamageInv
    <2> QED
      BY <1>1, <2>3, <2>4
  <1>6. ASSUME NEW i \in Ids, Judges(i), ~ UNCHANGED chals PROVE DamageInv'
    <2>1. UNCHANGED content
      BY <1>1, <1>6
    <2>2. /\ DOMAIN chals' = DOMAIN chals
          /\ \A j \in DOMAIN chals : /\ chals'[j].node = chals[j].node
                                     /\ chals'[j].slices = chals[j].slices
                                     /\ chals'[j].of = chals[j].of
                                     /\ j # i => chals'[j] = chals[j]
          /\ chals'[i].status \in Verify(chals[i])
      BY <1>6, AnswerTyped DEF Judges
    <2>3. chals'[i].status = "Failed" => \E s \in chals[i].slices : content[<<s, chals[i].node>>] = "bad"
      BY <1>6, <2>2, FailureNeedsDamage DEF Judges
    <2>4. AskedOfBad'
      BY <2>1, <2>2 DEF DamageInv, AskedOfBad
    <2>5. FailedIsBad'
      BY <2>1, <2>2, <2>3 DEF DamageInv, FailedIsBad
    <2> QED
      BY <1>2, <2>4, <2>5 DEF DamageInv
  <1> QED
    BY ChainMoves, <1>4, <1>5, <1>6

LEMMA DamageInit == Init => DamageInv
  <1> SUFFICES ASSUME Init PROVE DamageInv
    OBVIOUS
  <1>1. DOMAIN chals = {}
    BY DEF Init
  <1>2. MadeFromBad = {}
    <2> SUFFICES ASSUME NEW c \in MadeFromBad PROVE FALSE
      OBVIOUS
    <2>1. c \in Copies
      BY DEF MadeFromBad
    <2>2. \A r \in Times : sigmas[c][r] # "bad"
      BY <2>1 DEF Init, Rounds, NoSigmas
    <2>3. \A k \in DOMAIN ranges[c] : ranges[c][k].of # "bad"
      BY <2>1 DEF Init, Setup
    <2> QED
      BY <2>2, <2>3 DEF MadeFromBad
  <1> QED
    BY <1>1, <1>2 DEF DamageInv, MaterialOfBad, AskedOfBad, FailedIsBad

-----------------------------------------------------------------------------
(***************************************************************************)
(* The refinement.                                                         *)
(***************************************************************************)

DamagedCopies == {c \in Copies : content[c] \in {"bad", "lost"}}
AskedBy == [i \in Ids |-> Asked(i)]
VerdictOf(i) == IF i \in DOMAIN chals THEN chals[i].status ELSE "none"
Verdicts == [i \in Ids |-> VerdictOf(i)]

\* A step of the system is one of StorageProof, or leaves what it speaks of.
LEMMA RefinementStep ==
    Typed /\ DamageInv /\ [Next]_vars => [Abstract!Next]_(Abstract!absVars)
  <1> SUFFICES ASSUME Typed, DamageInv, [Next]_vars PROVE Abstract!Next
    OBVIOUS
  <1>1. /\ MadeFromBad' \subseteq MadeFromBad \cup {c \in Copies : content[c] = "bad"}
        /\ ~ UNCHANGED chals => MadeFromBad' = MadeFromBad /\ UNCHANGED content
    BY StoreMoves
  <1>2. UNCHANGED (alg = "merkle")
    BY ChainMoves
  <1>3. MadeFromBad \subseteq Copies /\ MadeFromBad' \subseteq Copies
    BY DEF MadeFromBad
  <1>4. CASE UNCHANGED chals
    <2>1. UNCHANGED <<AskedBy, Verdicts>>
      BY <1>4 DEF AskedBy, Asked, Verdicts, VerdictOf
    <2>2. MadeFromBad' \ MadeFromBad \subseteq DamagedCopies
      BY <1>1 DEF DamagedCopies
    <2>3. DamagedCopies' \in SUBSET Copies
      BY DEF DamagedCopies
    <2>4. Abstract!Store
      BY <1>2, <1>3, <2>1, <2>2, <2>3 DEF Abstract!Store, AskedBy, Verdicts, VerdictOf, DamagedCopies
    <2> QED
      BY <2>4 DEF Abstract!Next
  <1>5. ASSUME NEW n, NEW sel, NEW of, Asks(n, sel, of), ~ UNCHANGED chals PROVE Abstract!Next
    <2>1. /\ \A i \in DOMAIN chals : i \in DOMAIN chals' /\ chals'[i] = chals[i]
          /\ \A i \in DOMAIN chals' : i \in DOMAIN chals \/ i = Len(chals) + 1
          /\ Len(chals) + 1 \notin DOMAIN chals
          /\ chals' \in Seq(Challenge) /\ Len(chals') = Len(chals) + 1
          /\ chals'[Len(chals) + 1] = [node |-> n, slices |-> sel, round |-> now, of |-> of,
                                       status |-> "ToProve"]
      BY <1>5, RequestTyped DEF Asks
    <2>2. PICK i \in Ids : i = Len(chals) + 1
      BY <1>5, BoundsAreNat DEF Asks, Ids, Typed, ChainTyped
    <2>3. i \in DOMAIN chals'
      BY <2>1, <2>2
    <2>4. UNCHANGED <<DamagedCopies, MadeFromBad>>
      BY <1>1, <1>5 DEF DamagedCopies
    <2>5. VerdictOf(i) = "none" /\ VerdictOf(i)' = "ToProve"
      BY <2>1, <2>2, <2>3 DEF VerdictOf
    <2>6. \A j \in Ids \ {i} : VerdictOf(j)' = VerdictOf(j) /\ Asked(j)' = Asked(j)
      BY <2>1, <2>2 DEF VerdictOf, Asked
    <2>7. Verdicts' = [Verdicts EXCEPT ![i] = "ToProve"]
      BY <2>5, <2>6 DEF Verdicts
    <2>8. ASSUME NEW j \in Ids PROVE Asked(j)' \in SUBSET Copies
      <3>1. CASE j \in DOMAIN chals'
        <4>1. chals'[j] \in Challenge
          BY <2>1, <3>1
        <4> QED
          BY <3>1, <4>1 DEF Asked, Copies, Challenge
      <3>2. CASE j \notin DOMAIN chals'
        BY <3>2 DEF Asked
      <3> QED
        BY <3>1, <3>2
    <2>9. AskedBy' \in [Ids -> SUBSET Copies] /\ \A j \in Ids \ {i} : AskedBy'[j] = AskedBy[j]
      BY <2>6, <2>8 DEF AskedBy
    <2>10. Verdicts[i] = "none"
      BY <2>5 DEF Verdicts
    <2>11. Abstract!Ask(i)
      BY <1>2, <2>4, <2>7, <2>9, <2>10 DEF Abstract!Ask, AskedBy, Verdicts, VerdictOf, DamagedCopies
    <2> QED
      BY <2>11 DEF Abstract!Next
  <1>6. ASSUME NEW i \in Ids, Judges(i), ~ UNCHANGED chals PROVE Abstract!Next
    <2>1. /\ DOMAIN chals' = DOMAIN chals
          /\ \A j \in DOMAIN chals : /\ chals'[j].node = chals[j].node
                                     /\ chals'[j].slices = chals[j].slices
                                     /\ j # i => chals'[j] = chals[j]
          /\ chals[i].status = "ToProve"
          /\ chals'[i].status \in Verify(chals[i])
      BY <1>6, AnswerTyped DEF Judges
    <2>2. i \in DOMAIN chals
      BY <1>6 DEF Judges
    <2>3. UNCHANGED <<DamagedCopies, MadeFromBad>>
      BY <1>1, <1>6 DEF DamagedCopies
    <2>4. \A j \in Ids : Asked(j)' = Asked(j)
      BY <2>1 DEF Asked
    <2>5. UNCHANGED AskedBy
      BY <2>4 DEF AskedBy
    <2>6. /\ VerdictOf(i) = "ToProve" /\ VerdictOf(i)' = chals'[i].status
          /\ \A j \in Ids \ {i} : VerdictOf(j)' = VerdictOf(j)
      BY <2>1, <2>2 DEF VerdictOf
    <2>7. Verdicts' = [Verdicts EXCEPT ![i] = chals'[i].status] /\ Verdicts[i] = "ToProve"
      BY <2>6 DEF Verdicts
    <2>8. AskedBy[i] = chals[i].slices \X {chals[i].node}
      BY <2>2 DEF AskedBy, Asked
    <2>a. chals[i] \in Challenge
      BY <2>2 DEF Typed, ChainTyped
    <2>9. \A s \in chals[i].slices : <<s, chals[i].node>> \in Copies /\ chals[i].round \in Times
      BY <2>a DEF Challenge, Copies
    <2>10. CASE chals'[i].status = "Failed"
      <3>1. PICK s \in chals[i].slices : content[<<s, chals[i].node>>] = "bad"
        BY <1>6, <2>1, <2>10, FailureNeedsDamage DEF Judges
      <3>2. <<s, chals[i].node>> \in AskedBy[i] \cap (DamagedCopies \cup MadeFromBad)
        BY <2>8, <2>9, <3>1 DEF DamagedCopies
      <3>3. Abstract!Fail(i)
        BY <1>2, <2>3, <2>5, <2>7, <2>10, <3>2
           DEF Abstract!Fail, AskedBy, Verdicts, VerdictOf, DamagedCopies
      <3> QED
        BY <3>3 DEF Abstract!Next
    <2>11. CASE chals'[i].status = "Proved"
      <3>1. ASSUME alg # "merkle" PROVE AskedBy[i] \cap (DamagedCopies \ MadeFromBad) = {}
        <4>1. alg = "pairing"
          BY <3>1 DEF Typed, ChainTyped
        <4>2. \A s \in chals[i].slices :
                 content[<<s, chals[i].node>>] = sigmas[<<s, chals[i].node>>][chals[i].round]
          BY <2>1, <2>11, <4>1 DEF Verify
        <4>3. \A s \in chals[i].slices : content[<<s, chals[i].node>>] \in {"whole", "bad"}
          BY <1>6 DEF Judges, CanProve
        <4>4. \A s \in chals[i].slices : <<s, chals[i].node>> \in DamagedCopies
                                          => <<s, chals[i].node>> \in MadeFromBad
          BY <2>9, <4>2, <4>3 DEF DamagedCopies, MadeFromBad
        <4> QED
          BY <2>8, <4>4
      <3>2. Abstract!Prove(i)
        BY <1>2, <2>3, <2>5, <2>7, <2>11, <3>1
           DEF Abstract!Prove, AskedBy, Verdicts, VerdictOf, DamagedCopies
      <3> QED
        BY <3>2 DEF Abstract!Next
    <2>12. chals'[i].status \in {"Failed", "Proved"}
      BY <2>1 DEF Verify
    <2> QED
      BY <2>10, <2>11, <2>12
  <1> QED
    BY ChainMoves, <1>4, <1>5, <1>6

LEMMA RefinementInit == Init => Abstract!Init
  <1> SUFFICES ASSUME Init PROVE Abstract!Init
    OBVIOUS
  <1>1. DOMAIN chals = {}
    BY DEF Init
  <1>2. AskedBy = [i \in Ids |-> {}] /\ Verdicts = [i \in Ids |-> "none"]
    BY <1>1 DEF AskedBy, Asked, Verdicts, VerdictOf
  <1>3. MadeFromBad = {}
    <2>1. \A c \in MadeFromBad : content[c] = "bad"
      BY DamageInit DEF DamageInv, MaterialOfBad
    <2>2. MadeFromBad \subseteq Copies
      BY DEF MadeFromBad
    <2>3. \A c \in Copies : content[c] # "bad"
      BY DEF Init
    <2> QED
      BY <2>1, <2>2, <2>3
  <1>4. DamagedCopies = {}
    BY DEF DamagedCopies, Init
  <1>5. (alg = "merkle") \in BOOLEAN
    OBVIOUS
  <1> QED
    BY <1>2, <1>3, <1>4, <1>5 DEF Abstract!Init, AskedBy, Verdicts, VerdictOf, DamagedCopies

\* The loops of owner and nodes, the contract and the material implement
\* StorageProof, with any number of copies and challenges: no challenge is judged
\* twice, an undamaged copy cannot fail, and a damaged copy passes a pairing
\* challenge only if the owner has made the sigmas from it.
THEOREM StorageProofImplemented == Spec => ImplementsStorageProof
  <1>1. Init => Typed /\ DamageInv /\ Abstract!Init
    BY TypingInit, DamageInit, RefinementInit
  <1>2. Typed /\ DamageInv /\ [Next]_vars => (Typed /\ DamageInv)'
    BY TypingStep, DamageStep
  <1>3. Typed /\ DamageInv /\ [Next]_vars => [Abstract!Next]_(Abstract!absVars)
    BY RefinementStep
  <1> QED
    BY <1>1, <1>2, <1>3, PTL DEF Spec, ImplementsStorageProof, Abstract!Spec

-----------------------------------------------------------------------------
(***************************************************************************)
(* The material: it lasts, and an extension leaves what is covered.        *)
(***************************************************************************)

\* An extension or a migration never replaces a sigma of the distributed slice,
\* for a round that was covered, by one of a damaged copy.
THEOREM CoveredRoundsStay == Spec => CoveredStays
  <1>1. ASSUME Typed, [Next]_vars, NEW c \in Copies, NEW r \in Times,
               r < CoveredTo, sigmas[c][r] = "whole", sigmas'[c][r] = "bad"
        PROVE  FALSE
    <2>1. ASSUME ExtendPairing PROVE FALSE
      <3>1. CoveredTo = extend.from
        BY <2>1 DEF ExtendPairing, CoveredTo
      <3>2. sigmas'[c] # sigmas[c]
        BY <1>1
      <3>3. sigmas'[c] = Rounds(extend.from, expiry, content[c], sigmas[c])
        BY <2>1, <3>2 DEF ExtendPairing
      <3>4. extend.from \in Times
        BY <1>1 DEF Typed, LoopsTyped
      <3> QED
        BY <1>1, <3>1, <3>3, <3>4, BoundsAreNat DEF Rounds, Times
    <2>2. ASSUME NEW d \in Copies, MigrateSlice(d) PROVE FALSE
      <3>1. sigmas'[c] # sigmas[c]
        BY <1>1
      <3>2. sigmas'[c] = Rounds(now, migrate.expiry, "whole", NoSigmas)
        BY <1>1, <2>2, <3>1 DEF MigrateSlice, Typed, StoreTyped
      <3> QED
        BY <1>1, <3>2 DEF Rounds, NoSigmas
    <2>3. ASSUME NEW n \in Nodes, Start(n) \/ Stop(n) \/ NodeOffline(n) \/ AnswerList(n)
                                  \/ PairingRequest(n) \/ \E i \in Ids : AnswerOne(n, i)
          PROVE  UNCHANGED sigmas
      BY <2>3 DEF Start, Stop, NodeOffline, AnswerList, PairingRequest, AnswerOne, storeVars
    <2>4. ASSUME Tick \/ MigrateFails \/ ExtendMerkle \/ UNCHANGED vars
          PROVE  UNCHANGED sigmas
      BY <2>4 DEF Tick, MigrateFails, ExtendMerkle, vars, storeVars
    <2>5. ASSUME NEW s \in Slices, NEW from \in Nodes, NEW to \in Nodes, MigrateList(s, from, to)
          PROVE  UNCHANGED sigmas
      BY <2>5 DEF MigrateList, storeVars
    <2>6. ASSUME NEW e \in NewExpiry, ExtendChain(e) PROVE UNCHANGED sigmas
      BY <2>6 DEF ExtendChain, storeVars
    <2>7. ASSUME NEW d \in Copies, Damage(d) \/ MerkleRequest(d) PROVE UNCHANGED sigmas
      BY <2>7 DEF Damage, MerkleRequest, storeVars
    <2>8. ~ UNCHANGED sigmas
      BY <1>1
    <2> QED
      BY <1>1, Steps, <2>1, <2>2, <2>3, <2>4, <2>5, <2>6, <2>7, <2>8
  <1>2. Typed /\ [Next]_vars =>
          [\A c \in Copies, r \in Times :
              r < CoveredTo /\ sigmas[c][r] = "whole" => sigmas'[c][r] # "bad"]_vars
    BY <1>1
  <1>3. Init => Typed
    BY TypingInit
  <1>4. Typed /\ [Next]_vars => Typed'
    BY TypingStep
  <1> QED
    BY <1>2, <1>3, <1>4, PTL DEF Spec, CoveredStays

\* Up to which round the material of a copy reaches.  While an extension makes
\* new material, a copy that was listed before it has the old rounds; one that
\* was migrated meanwhile with the new expire time already has all of them.
ReachOf(c) == IF extend.pc = "material" /\ c \in extend.listed THEN extend.from ELSE expiry

Lasts(c, to) ==
    IF alg = "merkle"
    THEN SumOf(ranges[c]) + now + (IF requested THEN 1 ELSE 0) >= to
    ELSE \A r \in Times : (now <= r /\ r < to) => sigmas[c][r] # "none"

MaterialInv == \A c \in listed \ missed : Lasts(c, ReachOf(c))

LEMMA MaterialInvIsEnough == Typed /\ MaterialInv => MaterialLasts
  <1> SUFFICES ASSUME Typed, MaterialInv, NEW c \in listed \ missed
               PROVE  IF alg = "merkle"
                      THEN Total(c) + now + (IF requested THEN 1 ELSE 0) >= CoveredTo
                      ELSE \A r \in Times : (now <= r /\ r < CoveredTo) => sigmas[c][r] # "none"
    BY DEF MaterialLasts
  <1>1. Total(c) = SumOf(ranges[c])
    BY DEF Total, SumOf
  <1>2. Lasts(c, ReachOf(c))
    BY DEF MaterialInv
  <1>3. ReachOf(c) >= CoveredTo /\ ReachOf(c) \in Nat /\ CoveredTo \in Nat
    BY BoundsAreNat DEF Typed, ChainTyped, LoopsTyped, ReachOf, CoveredTo, Times
  <1>4. now \in Nat /\ SumOf(ranges[c]) \in Nat
    BY SumIsNat, BoundsAreNat DEF Typed, ChainTyped, StoreTyped, Times
  <1>5. CASE alg = "merkle"
    BY <1>1, <1>2, <1>3, <1>4, <1>5 DEF Lasts
  <1>6. CASE alg # "merkle"
    BY <1>2, <1>3, <1>4, <1>6, BoundsAreNat DEF Lasts, Times
  <1> QED
    BY <1>5, <1>6

LEMMA MaterialInit == Init => MaterialInv
  <1> SUFFICES ASSUME Init, NEW c \in Placed PROVE Lasts(c, Expiry)
    <2>1. ASSUME Init PROVE listed = Placed /\ \A c : ReachOf(c) = Expiry
      BY <2>1 DEF ReachOf, Init
    <2> QED
      BY <2>1 DEF MaterialInv
  <1>1. c \in Copies /\ Expiry \in Times /\ Expiry \in Nat
    BY ChallengeAssumption, BoundsAreNat DEF Times
  <1>2. CASE alg = "merkle"
    <2>1. PICK b : b = Setup("whole", 0, Expiry)
      OBVIOUS
    <2>2. b \in Batch /\ b.left = Expiry
      BY <1>1, <2>1, SetupTyped, BoundsAreNat DEF Times
    <2>3. ranges[c] = Append(<<>>, b) /\ <<>> \in Seq(Batch)
      BY <1>1, <1>2, <2>1 DEF Init
    <2>4. SumOf(ranges[c]) = SumOf(<<>>) + Expiry /\ SumOf(<<>>) \in Nat
      BY <2>2, <2>3, SumOfAppend, SumIsNat
    <2> QED
      BY <1>1, <1>2, <2>4 DEF Lasts, Init
  <1>3. CASE alg # "merkle"
    <2>1. alg = "pairing"
      BY <1>3 DEF Init
    <2>2. sigmas[c] = Rounds(0, Expiry, "whole", NoSigmas)
      BY <1>1, <2>1 DEF Init
    <2> QED
      BY <1>1, <1>3, <2>2, BoundsAreNat DEF Lasts, Rounds, Times, Init
  <1> QED
    BY <1>2, <1>3

\* Steps that leave the material, the file and the interval alone.
LEMMA MaterialQuiet ==
    ASSUME MaterialInv,
           UNCHANGED <<alg, now, requested, ranges, sigmas, expiry, listed, missed, extend>>
    PROVE  MaterialInv'
  <1>1. \A c : ReachOf(c)' = ReachOf(c)
    BY DEF ReachOf
  <1>2. ASSUME NEW c \in listed \ missed, Lasts(c, ReachOf(c)) PROVE Lasts(c, ReachOf(c))'
    BY <1>1, <1>2 DEF Lasts, SumOf
  <1> QED
    BY <1>2 DEF MaterialInv

LEMMA MaterialStep == Typed /\ MaterialInv /\ [Next]_vars => MaterialInv'
  <1> SUFFICES ASSUME Typed, MaterialInv, [Next]_vars PROVE MaterialInv'
    OBVIOUS
  <1>1. Typed'
    BY TypingStep
  <1>2. now \in Nat /\ expiry \in Nat /\ now' \in Nat /\ expiry' \in Nat /\ requested \in BOOLEAN
        /\ extend.from \in Nat
    BY <1>1, BoundsAreNat DEF Typed, ChainTyped, LoopsTyped, Times
  <1>3. \A c \in Copies : ranges[c] \in Seq(Batch) /\ SumOf(ranges[c]) \in Nat
    BY SumIsNat DEF Typed, StoreTyped
  <1>4. ASSUME NEW c \in Copies, MerkleRequest(c) PROVE MaterialInv'
    <2>1. /\ alg = "merkle" /\ ~requested /\ requested'
          /\ UNCHANGED <<alg, now, expiry, listed, missed, extend>>
      BY <1>4 DEF MerkleRequest, LoopRequest
    <2>2. \A d : ReachOf(d)' = ReachOf(d)
      BY <2>1 DEF ReachOf
    <2>3. ASSUME NEW d \in Copies PROVE SumOf(ranges'[d]) >= SumOf(ranges[d]) - 1
                                        /\ SumOf(ranges'[d]) \in Nat
      <3>0. SumOf(ranges[d]) \in Nat /\ SumOf(ranges'[d]) \in Nat
        BY <1>1, SumIsNat DEF Typed, StoreTyped
      <3>1. CASE ranges'[d] = ranges[d]
        BY <3>0, <3>1
      <3>2. CASE ranges'[d] # ranges[d]
        <4>1. PICK k \in Take(c) : ranges' = [ranges EXCEPT ![c][k].left = @ - 1]
          BY <1>4, <3>2 DEF MerkleRequest
        <4>2. /\ ranges' \in [Copies -> Seq(Batch)]
              /\ \A e \in Copies : e # c => ranges'[e] = ranges[e]
              /\ k \in 1..Len(ranges[c]) /\ Len(ranges'[c]) = Len(ranges[c])
              /\ ranges'[c][k].left = ranges[c][k].left - 1
              /\ \A j \in 1..Len(ranges[c]) : j # k => ranges'[c][j].left = ranges[c][j].left
          BY <4>1, UseRange
        <4>3. d = c
          BY <3>2, <4>2
        <4>4. ranges[c] \in Seq(Batch) /\ ranges'[c] \in Seq(Batch)
          BY <1>3, <4>2
        <4>5. SumOf(ranges'[c]) = SumOf(ranges[c]) - 1
          BY <4>2, <4>4, SumOfUse
        <4> QED
          BY <3>0, <4>3, <4>5
      <3> QED
        BY <3>1, <3>2
    <2>4. ASSUME NEW d \in listed \ missed PROVE Lasts(d, ReachOf(d))'
      <3>1. d \in Copies /\ SumOf(ranges[d]) \in Nat /\ SumOf(ranges'[d]) \in Nat
            /\ SumOf(ranges'[d]) >= SumOf(ranges[d]) - 1
        BY <1>3, <2>3 DEF Typed, ChainTyped
      <3>2. SumOf(ranges[d]) + now >= ReachOf(d)
        BY <1>2, <2>1, <3>1 DEF MaterialInv, Lasts
      <3>3. ReachOf(d) \in Nat
        BY <1>2 DEF ReachOf
      <3>4. SumOf(ranges'[d]) + now + 1 >= ReachOf(d)
        BY <1>2, <3>1, <3>2, <3>3
      <3>5. SumOf(ranges[d])' = SumOf(ranges'[d])
        BY DEF SumOf
      <3> QED
        BY <2>1, <2>2, <3>4, <3>5 DEF Lasts
    <2> QED
      BY <2>1, <2>4 DEF MaterialInv
  <1>5. ASSUME Tick PROVE MaterialInv'
    <2>1. /\ now' = now + 1 /\ ~requested'
          /\ UNCHANGED <<alg, expiry, listed, missed, extend, ranges, sigmas>>
      BY <1>5 DEF Tick, storeVars
    <2>2. \A d : ReachOf(d)' = ReachOf(d)
      BY <2>1 DEF ReachOf
    <2>3. ASSUME NEW d \in listed \ missed PROVE Lasts(d, ReachOf(d))'
      <3>1. d \in Copies /\ SumOf(ranges[d]) \in Nat /\ ReachOf(d) \in Nat
        BY <1>2, <1>3 DEF Typed, ChainTyped, ReachOf
      <3>2. Lasts(d, ReachOf(d))
        BY DEF MaterialInv
      <3>3. SumOf(ranges[d])' = SumOf(ranges[d])
        BY <2>1 DEF SumOf
      <3>4. CASE alg = "merkle"
        BY <1>2, <2>1, <2>2, <3>1, <3>2, <3>3, <3>4 DEF Lasts
      <3>5. CASE alg # "merkle"
        <4>1. \A r \in Times : (now' <= r /\ r < ReachOf(d)) => sigmas[d][r] # "none"
          BY <1>2, <2>1, <3>1, <3>2, <3>5, BoundsAreNat DEF Lasts, Times
        <4> QED
          BY <2>1, <2>2, <3>5, <4>1 DEF Lasts
      <3> QED
        BY <3>4, <3>5
    <2> QED
      BY <2>1, <2>3 DEF MaterialInv
  <1>6. ASSUME NEW n \in Nodes, PairingRequest(n) PROVE MaterialInv'
    <2>1. /\ alg = "pairing"
          /\ UNCHANGED <<alg, now, expiry, listed, missed, extend, sigmas>>
      BY <1>6 DEF PairingRequest, storeVars
    <2>2. \A d : ReachOf(d)' = ReachOf(d)
      BY <2>1 DEF ReachOf
    <2> QED
      BY <2>1, <2>2 DEF MaterialInv, Lasts
  <1>7. ASSUME NEW e \in NewExpiry, ExtendChain(e) PROVE MaterialInv'
    <2>1. /\ extend.pc = "idle" /\ extend'.pc = "material" /\ extend'.listed = listed
          /\ extend'.from = (IF expiry <= now THEN now ELSE expiry)
          /\ UNCHANGED <<alg, now, requested, listed, missed, ranges, sigmas>>
      BY <1>7 DEF ExtendChain, storeVars
    <2>2. ASSUME NEW d \in listed \ missed PROVE Lasts(d, ReachOf(d))'
      <3>1. d \in Copies /\ SumOf(ranges[d]) \in Nat
        BY <1>3 DEF Typed, ChainTyped
      <3>2. ReachOf(d) = expiry /\ ReachOf(d)' = IF expiry <= now THEN now ELSE expiry
        BY <2>1 DEF ReachOf
      <3>3. Lasts(d, expiry)
        BY <3>2 DEF MaterialInv
      <3>4. Lasts(d, IF expiry <= now THEN now ELSE expiry)
        <4>1. CASE alg = "merkle"
          BY <1>2, <3>1, <3>3, <4>1 DEF Lasts
        <4>2. CASE alg # "merkle"
          BY <1>2, <3>3, <4>2, BoundsAreNat DEF Lasts, Times
        <4> QED
          BY <4>1, <4>2
      <3>5. SumOf(ranges[d])' = SumOf(ranges[d])
        BY <2>1 DEF SumOf
      <3> QED
        BY <2>1, <3>2, <3>4, <3>5 DEF Lasts
    <2> QED
      BY <2>1, <2>2 DEF MaterialInv
  <1>8. ASSUME ExtendMerkle PROVE MaterialInv'
    <2>1. /\ alg = "merkle" /\ extend.pc = "material" /\ extend'.pc = "idle"
          /\ UNCHANGED <<alg, now, requested, listed, expiry>>
          /\ extend.from <= expiry
      BY <1>8 DEF ExtendMerkle, Typed, LoopsTyped
    <2>2. ASSUME NEW d \in listed \ missed', d \in listed \ missed => Lasts(d, ReachOf(d))
          PROVE  Lasts(d, ReachOf(d))'
      <3>1. d \in Copies /\ SumOf(ranges[d]) \in Nat /\ ranges[d] \in Seq(Batch)
        BY <1>3 DEF Typed, ChainTyped
      <3>2. d \in listed \ missed
        BY <1>8, <2>2 DEF ExtendMerkle
      <3>3. SumOf(ranges[d]) + now + (IF requested THEN 1 ELSE 0) >= ReachOf(d)
        BY <2>1, <2>2, <3>2 DEF Lasts
      <3>4. ReachOf(d)' = expiry
        BY <2>1 DEF ReachOf
      <3>5. SumOf(ranges[d])' = SumOf(ranges'[d])
        BY DEF SumOf
      <3>6. CASE d \notin extend.listed
        <4>1. ReachOf(d) = expiry
          BY <3>6 DEF ReachOf
        <4>2. ranges'[d] = ranges[d]
          BY <1>8, <3>1, <3>6 DEF ExtendMerkle
        <4> QED
          BY <2>1, <3>3, <3>4, <3>5, <4>1, <4>2 DEF Lasts
      <3>7. CASE d \in extend.listed
        <4>1. ReachOf(d) = extend.from
          BY <2>1, <3>7 DEF ReachOf
        <4>2. \A c \in extend.listed : MerkleSource(c[1], c[2]) # {}
          BY <1>8, <2>2, <3>7 DEF ExtendMerkle
        <4>3. PICK x : x = CHOOSE y \in MerkleSource(d[1], d[2]) : TRUE
          OBVIOUS
        <4>4. x \in {"whole", "bad"}
          <5>1. d[1] \in Slices /\ d[2] \in Nodes
            BY <3>1 DEF Copies
          <5> QED
            BY <3>7, <4>2, <4>3, <5>1, SourceTyped
        <4>5. PICK b : b = Setup(x, extend.from, expiry)
          OBVIOUS
        <4>6. b \in Batch /\ b.left = expiry - extend.from
          BY <2>1, <4>4, <4>5, SetupTyped DEF Typed, ChainTyped, LoopsTyped
        <4>7. ranges'[d] = Append(ranges[d], b)
          BY <1>8, <3>1, <3>7, <4>2, <4>3, <4>5 DEF ExtendMerkle
        <4>8. SumOf(ranges'[d]) = SumOf(ranges[d]) + (expiry - extend.from)
          BY <3>1, <4>6, <4>7, SumOfAppend
        <4>9. SumOf(ranges'[d]) + now + (IF requested THEN 1 ELSE 0) >= expiry
          BY <1>2, <3>1, <3>3, <4>1, <4>8
        <4> QED
          BY <2>1, <3>4, <3>5, <4>9 DEF Lasts
      <3> QED
        BY <3>6, <3>7
    <2> QED
      BY <2>1, <2>2 DEF MaterialInv
  <1>9. ASSUME ExtendPairing PROVE MaterialInv'
    <2>1. /\ alg = "pairing" /\ extend.pc = "material" /\ extend'.pc = "idle"
          /\ UNCHANGED <<alg, now, requested, listed, expiry>>
          /\ extend.from <= expiry
      BY <1>9 DEF ExtendPairing, Typed, LoopsTyped
    <2>2. ASSUME NEW d \in listed \ missed', d \in listed \ missed => Lasts(d, ReachOf(d))
          PROVE  Lasts(d, ReachOf(d))'
      <3>1. d \in Copies
        BY DEF Typed, ChainTyped
      <3>2. d \in listed \ missed
        BY <1>9, <2>2 DEF ExtendPairing
      <3>3. \A r \in Times : (now <= r /\ r < ReachOf(d)) => sigmas[d][r] # "none"
        BY <2>1, <2>2, <3>2 DEF Lasts
      <3>4. ReachOf(d)' = expiry
        BY <2>1 DEF ReachOf
      <3>5. \A r \in Times : (now <= r /\ r < expiry) => sigmas'[d][r] # "none"
        <4>1. CASE d \notin extend.listed
          <5>1. ReachOf(d) = expiry
            BY <4>1 DEF ReachOf
          <5>2. sigmas'[d] = sigmas[d]
            BY <1>9, <3>1, <4>1 DEF ExtendPairing
          <5> QED
            BY <3>3, <5>1, <5>2
        <4>2. CASE d \in extend.listed
          <5>1. ReachOf(d) = extend.from
            BY <2>1, <4>2 DEF ReachOf
          <5>2. /\ sigmas'[d] = Rounds(extend.from, expiry, content[d], sigmas[d])
                /\ content[d] \in {"whole", "bad"}
            BY <1>9, <2>2, <3>1, <4>2 DEF ExtendPairing
          <5>3. \A r \in Times : r \in Nat
            BY BoundsAreNat DEF Times
          <5> QED
            BY <1>2, <3>3, <5>1, <5>2, <5>3 DEF Rounds
        <4> QED
          BY <4>1, <4>2
      <3> QED
        BY <2>1, <3>4, <3>5 DEF Lasts
    <2> QED
      BY <2>1, <2>2 DEF MaterialInv
  <1>10. ASSUME NEW c \in Copies, MigrateSlice(c) PROVE MaterialInv'
    <2>1. /\ migrate.pc = "listed" /\ migrate.listed = listed
          /\ UNCHANGED <<alg, now, requested, expiry, extend>>
          /\ listed' \subseteq listed \cup {c}
          /\ now <= migrate.expiry /\ migrate.expiry \in Times /\ now \in Times
      BY <1>10, BoundsAreNat DEF MigrateSlice, Typed, LoopsTyped, ChainTyped, Times
    <2>2. \A d : ReachOf(d)' = ReachOf(d)
      BY <2>1 DEF ReachOf
    <2>3. ASSUME NEW d \in listed' \ missed', d # c PROVE Lasts(d, ReachOf(d))'
      <3>1. d \in listed \ missed /\ d \in Copies
        BY <1>10, <2>1, <2>3 DEF MigrateSlice, Typed, ChainTyped
      <3>2. ranges'[d] = ranges[d] /\ sigmas'[d] = sigmas[d]
        BY <1>10, <2>3, <3>1 DEF MigrateSlice, Typed, StoreTyped
      <3>3. Lasts(d, ReachOf(d))
        BY <3>1 DEF MaterialInv
      <3>4. SumOf(ranges[d])' = SumOf(ranges[d])
        BY <3>2 DEF SumOf
      <3> QED
        BY <2>1, <2>2, <3>2, <3>3, <3>4 DEF Lasts
    <2>4. ASSUME c \notin missed' PROVE Lasts(c, ReachOf(c))'
      <3>1. migrate.expiry = expiry
        BY <1>10, <2>4 DEF MigrateSlice
      <3>2. ReachOf(c) <= expiry /\ ReachOf(c) \in Nat
        BY <1>2 DEF ReachOf, Typed, LoopsTyped
      <3>3. SumOf(ranges[c]) \in Nat /\ ranges[c] \in Seq(Batch)
        BY <1>3
      <3>4. CASE alg = "merkle"
        <4>1. PICK b : b = Setup("whole", now, migrate.expiry)
          OBVIOUS
        <4>2. b \in Batch /\ b.left = migrate.expiry - now
          BY <2>1, <4>1, SetupTyped
        <4>3. ranges'[c] = Append(ranges[c], b)
          BY <1>10, <3>4, <4>1 DEF MigrateSlice, Typed, StoreTyped
        <4>4. SumOf(ranges'[c]) = SumOf(ranges[c]) + (expiry - now)
          BY <3>1, <3>3, <4>2, <4>3, SumOfAppend
        <4>5. SumOf(ranges[c])' = SumOf(ranges'[c])
          BY DEF SumOf
        <4>6. SumOf(ranges'[c]) + now + (IF requested THEN 1 ELSE 0) >= ReachOf(c)
          BY <1>2, <3>2, <3>3, <4>4
        <4> QED
          BY <2>1, <2>2, <3>4, <4>5, <4>6 DEF Lasts
      <3>5. CASE alg # "merkle"
        <4>1. sigmas'[c] = Rounds(now, migrate.expiry, "whole", NoSigmas)
          BY <1>10, <3>5 DEF MigrateSlice, Typed, StoreTyped, ChainTyped
        <4>2. \A r \in Times : r \in Nat
          BY BoundsAreNat DEF Times
        <4>3. \A r \in Times : (now <= r /\ r < ReachOf(c)) => sigmas'[c][r] # "none"
          BY <1>2, <3>1, <3>2, <4>1, <4>2 DEF Rounds
        <4> QED
          BY <2>1, <2>2, <3>5, <4>3 DEF Lasts
      <3> QED
        BY <3>4, <3>5
    <2> QED
      BY <2>3, <2>4 DEF MaterialInv
  <1> DEFINE Quiet == UNCHANGED <<alg, now, requested, ranges, sigmas, expiry, listed, missed, extend>>
  <1>11. ASSUME NEW n \in Nodes, Start(n) \/ Stop(n) \/ NodeOffline(n) \/ AnswerList(n)
                                 \/ \E i \in Ids : AnswerOne(n, i)
         PROVE  Quiet
    BY <1>11 DEF Start, Stop, NodeOffline, AnswerList, AnswerOne, storeVars, ownerVars
  <1>12. ASSUME MigrateFails \/ UNCHANGED vars PROVE Quiet
    BY <1>12 DEF MigrateFails, vars, storeVars, ownerVars
  <1>13. ASSUME NEW s \in Slices, NEW from \in Nodes, NEW to \in Nodes, MigrateList(s, from, to)
         PROVE  Quiet
    BY <1>13 DEF MigrateList, storeVars
  <1>14. ASSUME NEW d \in Copies, Damage(d) PROVE Quiet
    BY <1>14 DEF Damage, ownerVars
  <1>15. Quiet => MaterialInv'
    BY MaterialQuiet
  <1> HIDE DEF Quiet
  <1> QED
    BY Steps, <1>4, <1>5, <1>6, <1>7, <1>8, <1>9, <1>10, <1>11, <1>12, <1>13, <1>14, <1>15

\* Every listed copy can be challenged until the file expires, through any number
\* of extensions and migrations: the owner has a range for every interval that is
\* left, or the node a sigma; the copies without are those marked as missed.
THEOREM MaterialIsThere == Spec => []MaterialLasts
  <1>1. Init => Typed /\ MaterialInv
    BY TypingInit, MaterialInit
  <1>2. Typed /\ MaterialInv /\ [Next]_vars => (Typed /\ MaterialInv)'
    BY TypingStep, MaterialStep
  <1>3. Typed /\ MaterialInv => MaterialLasts
    BY MaterialInvIsEnough
  <1> QED
    BY <1>1, <1>2, <1>3, PTL DEF Spec

-----------------------------------------------------------------------------
(***************************************************************************)
(* The health of an honest node.                                           *)
(***************************************************************************)

\* The limit of a red node, when all challenges are proved: a of them, in m
\* intervals with b heartbeats.
LEMMA ScoreOfProved ==
    ASSUME NEW a \in Nat, NEW m \in Nat, NEW b \in Nat
    PROVE  700 * a * m + 300 * b * a >= 600 * a * m /\ 700 * a * m + 255 * a >= 600 * a * m
  <1>1. PICK p \in Nat : p = a * m
    OBVIOUS
  <1>2. PICK q \in Nat : q = b * a
    OBVIOUS
  <1>3. 700 * a * m = 700 * p /\ 600 * a * m = 600 * p /\ 300 * b * a = 300 * q
    BY <1>1, <1>2
  <1> QED
    BY <1>3

\* The period of a node's health, and how many heartbeats it can have.
LEMMA PeriodTyped ==
    ASSUME Typed, NEW n \in Nodes, node[n] # None,
           NEW w, w = GetHeartBeatStats(node[n].at)
    PROVE  /\ w.start \in Int /\ w.end \in Int
           /\ GetHeartbeatMaxNum(w, node[n].at) \in Nat
           /\ GetHeartBeatTotalNumByTime(n, w) \in Nat
  <1>1. node[n].at \in Nat /\ node[n].at <= now /\ now \in Nat
    BY BoundsAreNat DEF Typed, NodesTyped, ChainTyped, Times
  <1>2. PerDay \in Nat /\ PerDay > 0 /\ HealthDays \in Nat /\ HealthDays - 1 \in Nat
    BY ChallengeAssumption
  <1>3. PICK today \in Int : today = TodayBeginning(now)
    BY <1>1, <1>2 DEF TodayBeginning
  <1>4. PICK d \in Nat : d = (HealthDays - 1) * PerDay
    BY <1>2
  <1>5. PICK e \in Nat : e = HealthDays * PerDay
    BY <1>2
  <1>6. w = IF today - PerDay - d < node[n].at THEN [start |-> node[n].at, end |-> now]
            ELSE [start |-> today - PerDay - d, end |-> today - PerDay]
    BY <1>3, <1>4 DEF GetHeartBeatStats
  <1>7. GetHeartBeatTotalNumByTime(n, w) \in Nat
    <2>1. IsFiniteSet(Times)
      BY BoundsAreNat, FS_Interval DEF Times
    <2>2. {t \in beats[n] : TodayBeginning(w.start) <= t /\ t < TodayBeginning(w.end) + PerDay}
             \subseteq Times
      BY DEF Typed, NodesTyped
    <2>3. IsFiniteSet({t \in beats[n] : /\ TodayBeginning(w.start) <= t
                                        /\ t < TodayBeginning(w.end) + PerDay})
      BY <2>1, <2>2, FS_Subset
    <2> QED
      BY <2>3, FS_CardinalityType DEF GetHeartBeatTotalNumByTime
  <1> QED
    BY <1>1, <1>2, <1>5, <1>6, <1>7 DEF GetHeartbeatMaxNum

LEMMA HonestIsNotRed == Typed /\ DamageInv => HonestNotRed
  <1> SUFFICES ASSUME Typed, DamageInv, NEW n \in Nodes, node[n] # None,
                      NEW w, w = GetHeartBeatStats(node[n].at),
                      \/ 60 * GetHeartBeatTotalNumByTime(n, w) >= GetHeartbeatMaxNum(w, node[n].at)
                      \/ Counted(n) # {},
                      \A s \in Slices : content[<<s, n>>] \in {"none", "whole"},
                      \A i \in Counted(n) : chals[i].status # "ToProve"
               PROVE  GetNodeHealth(n) # "Red"
    BY DEF HonestNotRed
  <1> DEFINE To == {i \in DOMAIN chals : /\ chals[i].node = n
                                         /\ w.start <= chals[i].round /\ chals[i].round <= w.end
                                         /\ chals[i].status \in {"ToProve", "Proved", "Failed"}}
             Won == {i \in DOMAIN chals : /\ chals[i].node = n
                                          /\ w.start <= chals[i].round /\ chals[i].round <= w.end
                                          /\ chals[i].status \in {"Proved"}}
  <1>1. \A i \in DOMAIN chals : chals[i] \in Challenge
    BY DEF Typed, ChainTyped
  <1>0. Counted(n) = {i \in DOMAIN chals : /\ chals[i].node = n
                                           /\ w.start <= chals[i].round /\ chals[i].round <= w.end}
    BY DEF Counted
  <1>2. ASSUME NEW i \in Counted(n) PROVE chals[i].status = "Proved" /\ i \in DOMAIN chals
    <2>0. i \in DOMAIN chals /\ chals[i].node = n
      BY <1>0, <1>2
    <2>1. chals[i].status # "Failed"
      <3>1. ASSUME NEW s \in chals[i].slices PROVE s \in Slices
        BY <1>1, <2>0 DEF Challenge
      <3> QED
        BY <2>0, <3>1 DEF DamageInv, FailedIsBad
    <2> QED
      BY <1>1, <1>2, <2>0, <2>1 DEF Challenge, Statuses
  <1>3. To = Won /\ Won = Counted(n)
    BY <1>0, <1>2
  <1>4. IsFiniteSet(Won)
    <2>1. DOMAIN chals = 1..Len(chals) /\ Len(chals) \in Nat
      BY DEF Typed, ChainTyped
    <2>2. IsFiniteSet(DOMAIN chals)
      BY <2>1, FS_Interval
    <2>3. Won \subseteq DOMAIN chals
      OBVIOUS
    <2> QED
      BY <2>2, <2>3, FS_Subset
  <1>5. PICK all \in Nat : all = Cardinality(Won)
    BY <1>4, FS_CardinalityType
  <1>6. GetChallengeNum(n, w, {"ToProve", "Proved", "Failed"}) = all
        /\ GetChallengeNum(n, w, {"Proved"}) = all
    BY <1>3, <1>5 DEF GetChallengeNum
  <1>7. all = 0 => Counted(n) = {}
    BY <1>3, <1>4, <1>5, FS_EmptySet
  <1>8. PICK max \in Nat : max = GetHeartbeatMaxNum(w, node[n].at)
    BY PeriodTyped
  <1>9. PICK b \in Nat : b = GetHeartBeatTotalNumByTime(n, w)
    BY PeriodTyped
  <1> HIDE DEF To, Won
  <1> DEFINE a == IF all = 0 THEN 1 ELSE all
             m == IF max = 0 THEN 1 ELSE max
             score == (IF all = 0 THEN 595 ELSE 700 * all) * m
                      + (IF max = 0 THEN 255 ELSE 300 * b) * a
  <1>10. GetNodeHealth(n) = IF score >= 850 * a * m THEN "Green"
                            ELSE IF score < 600 * a * m THEN "Red" ELSE "Yellow"
    BY <1>6, <1>8, <1>9 DEF GetNodeHealth
  <1>11. score >= 600 * a * m /\ score \in Nat /\ a \in Nat /\ m \in Nat
    <2>1. CASE all = 0
      <3>1. 60 * b >= max
        BY <1>7, <1>8, <1>9, <2>1
      <3>2. CASE max = 0
        BY <2>1, <3>2
      <3>3. CASE max # 0
        BY <2>1, <3>1, <3>3
      <3> QED
        BY <3>2, <3>3
    <2>2. CASE all # 0
      <3>1. CASE max = 0
        BY <2>2, <3>1
      <3>2. CASE max # 0
        <4>1. score = 700 * all * max + 300 * b * all /\ a = all /\ m = max
          BY <2>2, <3>2
        <4>2. 700 * all * max \in Nat /\ 300 * b * all \in Nat
          OBVIOUS
        <4> QED
          BY <4>1, <4>2, ScoreOfProved
      <3> QED
        BY <3>1, <3>2
    <2> QED
      BY <2>1, <2>2
  <1>12. 600 * a * m \in Nat
    BY <1>11
  <1> HIDE DEF score, a, m
  <1> QED
    BY <1>10, <1>11, <1>12

\* GetNodeHealth never finds an honest node red, however many challenges,
\* heartbeats, restarts, extensions and migrations there were: none of the
\* challenges in the period has failed, and proved challenges alone are above
\* the limit, whatever it missed before the period.
THEOREM HonestNodesAreNotRed == Spec => []HonestNotRed
  <1>1. Init => Typed /\ DamageInv
    BY TypingInit, DamageInit
  <1>2. Typed /\ DamageInv /\ [Next]_vars => (Typed /\ DamageInv)'
    BY TypingStep, DamageStep
  <1>3. Typed /\ DamageInv => HonestNotRed
    BY HonestIsNotRed
  <1> QED
    BY <1>1, <1>2, <1>3, PTL DEF Spec

==============================================================================
