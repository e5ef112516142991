----------------------------- MODULE Primitives -----------------------------
(***************************************************************************)
(* The algorithms of crypto/ that the other modules rely on: secret        *)
(* sharing, oblivious transfer, Merkle trees and the pairing-based proof   *)
(* of storage; and how a file is cut into slices and put together again    *)
(* by its owner (xdb/engine) and by an executor (dai/executor/handler).    *)
(*                                                                         *)
(* A point of a curve is the number it is the generator's multiple of,     *)
(* hence the pairing of two points is the product of their numbers.  A     *)
(* hash is some function of its arguments, for Merkle trees one without    *)
(* collisions.  Every case is calculated in one step.                      *)
(***************************************************************************)
EXTENDS Integers, Sequences, FiniteSets, Functions, SequencesExt

CONSTANTS
    Prime,       \* the order of the field of the secret shares
    Order,       \* the order of the groups
    BlockSize    \* the size of a slice

ASSUME PrimitivesAssumption == {Prime, Order, BlockSize} \subseteq Nat \ {0}

VARIABLE prim    \* the case that is calculated, or NoPrim

NoPrim == [of |-> "none"]
Calls(cases) == prim = NoPrim /\ prim' \in cases
SumAll(f) == SumFunction(f)

-----------------------------------------------------------------------------
(***************************************************************************)
(* Secret sharing.  A polynomial has its constant first; those of the      *)
(* interpolation have it last.                                             *)
(***************************************************************************)

\* The highest coefficient is set last, so with degree 0 it replaces the secret.
\* It is not compared with zero, only its pointer is with another one.
RandomGenerate(degree, secret, coefficients) ==
    [i \in 1..(degree + 1) |-> IF i = 1 /\ degree > 0 THEN secret ELSE coefficients[i]]

\* Horner's rule; the value is not reduced.
Evaluate(poly, x) == FoldRight(LAMBDA c, acc : acc * x + c, poly, 0)

ComplexSecretSplit(total, poly) == [x \in 1..total |-> Evaluate(poly, x)]

InField(n) == n % Prime

\* Mul writes into a[i], so later columns are multiplied by all earlier b[j], too.
Multiply(a, b) ==
    LET Temp(i, j) == a[i] * FoldLeft(LAMBDA acc, k : acc * b[k], 1, [k \in 1..j |-> k])
    IN  [n \in 1..(Len(a) + Len(b) - 1) |->
            InField(SumAll([i \in {k \in DOMAIN a : n - k + 1 \in DOMAIN b} |-> Temp(i, n - i + 1)]))]

Scale(a, k) == [i \in DOMAIN a |-> InField(a[i] * k)]

AddPoly(a, b) == [i \in DOMAIN a |-> InField(a[i] + b[i])]

ModInverse(n) == CHOOSE m \in 1..(Prime - 1) : InField(n * m) = 1

GetLagrangeBasePolynomial(xs, pos) ==
    LET others == SelectSeq([i \in DOMAIN xs |-> i], LAMBDA i : i # pos)
        poly == FoldLeft(LAMBDA acc, i : Multiply(acc, <<1, -xs[i]>>), <<1>>, others)
        denominator == FoldLeft(LAMBDA acc, i : acc * (xs[pos] - xs[i]), 1, others)
    IN  Scale(poly, ModInverse(InField(denominator)))

\* points is a map, visited in any order: xs.
GetPolynomialByPoints(points, xs) ==
    FoldLeft(LAMBDA acc, i : AddPoly(acc, Scale(GetLagrangeBasePolynomial(xs, i), points[xs[i]])),
             [i \in DOMAIN xs |-> 0], [i \in DOMAIN xs |-> i])

ComplexSecretRetrieve(points, xs) == Last(GetPolynomialByPoints(points, xs))

-----------------------------------------------------------------------------
(* Oblivious transfer of one of two messages. *)

Pub(d) == d % Order
getHashKey(p) == (3 * p + 1) % Order        \* the hash is the private key of a point
Encrypt(pub, msg) == [for |-> pub, msg |-> msg]
Decrypt(d, ct) == IF Pub(d) = ct.for THEN ct.msg ELSE "none"

ReceiverChoose(b, pubA, chosen) == IF chosen = 0 THEN Pub(b) ELSE (pubA + Pub(b)) % Order

SenderEncryptMsg(a, pubB, msgs) ==
    [i \in 0..1 |-> Encrypt(Pub(getHashKey(((pubB - i * Pub(a)) * a) % Order)), msgs[i])]

ReceiverRetrieveMsg(b, pubA, cts, chosen) == Decrypt(getHashKey((pubA * b) % Order), cts[chosen])

-----------------------------------------------------------------------------
(* Merkle trees in an array: the leaves, then the levels above. *)

nextPowerOfTwo(n) == CHOOSE p \in {2 ^ e : e \in 0..n} : p >= n /\ p < 2 * n

Nil == [hash |-> <<>>]
HashedLeaf(o) == [hash |-> <<o>>]

\* Mutant of HashMerkleBranches: the order of the branches is lost.
HashMerkleBranches_unordered(l, r) == [hash |-> <<{l, r}>>]

HashMerkleBranches(l, r) == [hash |-> <<l, r>>]

BuildMerkleTreeStore(objects) ==
    LET n == nextPowerOfTwo(Len(objects))
        merkles[i \in 1..(2 * n - 1)] ==
            IF i <= n THEN IF i <= Len(objects) THEN HashedLeaf(objects[i]) ELSE Nil
            ELSE LET left == merkles[2 * (i - n) - 1]  right == merkles[2 * (i - n)]
                 IN  IF left = Nil THEN Nil
                     ELSE HashMerkleBranches(left, IF right = Nil THEN left ELSE right)
    IN  merkles

GetMerkleRoot(objects) ==
    LET tree == BuildMerkleTreeStore(objects) IN tree[Len(tree)]

-----------------------------------------------------------------------------
(***************************************************************************)
(* Proof of storage with pairings.  Segment i of a slice has the tag       *)
(* sigma_i, made of its content, its index and the round's random number.  *)
(***************************************************************************)

InOrder(n) == n % Order
HashUsingSha256(content, r) == InOrder(content * 3 + r * 5 + 1)
hashToG1(n) == InOrder(n * n + 1)
genRandNumByRound(round, sk) == InOrder(round * sk * 2 + 1)

\* Decimal digits put behind each other.
concatBigInt(a, b) == InOrder(InOrder(a) * (IF b < 10 THEN 10 ELSE 100) + b)

CalculateSigmaI(c, i) ==
    InOrder((hashToG1(concatBigInt(c.v, i))
             + HashUsingSha256(c.content[i], genRandNumByRound(c.round, c.sk)) * c.u) * c.sk)

GenerateChallenge(c) == genRandNumByRound(c.challenged, c.sk)

\* The node proves with what it stores and the tags of the challenge's round.
Prove(c) ==
    [sigma |-> InOrder(SumAll([i \in DOMAIN c.vs |-> c.vs[i] * CalculateSigmaI(c, i)])),
     mu    |-> InOrder(SumAll([i \in DOMAIN c.vs |->
                    c.vs[i] * HashUsingSha256(c.kept[i], GenerateChallenge(c))]))]

VerifyPairing(c, proof) ==
    InOrder(proof.sigma) =
        InOrder((SumAll([i \in DOMAIN c.vs |-> c.vs[i] * hashToG1(concatBigInt(c.v, i))]) + c.u * proof.mu) * c.sk)

-----------------------------------------------------------------------------
(***************************************************************************)
(* Slices.  A file's ciphertext is cut into blocks, the last one filled    *)
(* with zeros.  Encrypting a slice for a node and decrypting it again      *)
(* changes nothing, or the slice is refused.  The ciphertext is 16 longer  *)
(* than the file, whose length is on the chain.                            *)
(***************************************************************************)

Blocks(n) == (n + BlockSize - 1) \div BlockSize

Slice(text) ==
    [k \in 1..Blocks(Len(text)) |->
        [i \in 1..BlockSize |->
            IF (k - 1) * BlockSize + i <= Len(text) THEN text[(k - 1) * BlockSize + i] ELSE 0]]

TrimRight(bytes) ==
    LET kept == {i \in DOMAIN bytes : bytes[i] # 0}
    IN  SubSeq(bytes, 1, IF kept = {} THEN 0 ELSE CHOOSE i \in kept : \A j \in kept : j <= i)

\* A replica that is online and answers what was written: its length and its
\* hash are compared with the chain's.
Usable(replica) == replica = "good"
Pulled(replicas) == \E n \in DOMAIN replicas : Usable(replicas[n])

\* A slice expression reaches past the end of what was read, into the zeros of
\* its buffer, of which one at least is left; further on it may panic.
Resliced(bytes, n) ==
    IF n <= Len(bytes) THEN {SubSeq(bytes, 1, n)}
    ELSE {bytes \o [i \in 1..(n - Len(bytes)) |-> 0]} \cup (IF n > Len(bytes) + 1 THEN {<<"panic">>} ELSE {})

\* Read, of the owner: the zeros at the end of every slice are removed.
Trimmed(slices) == [k \in DOMAIN slices |-> TrimRight(slices[k])]

Read(c) ==
    IF \E k \in DOMAIN c.replicas : ~Pulled(c.replicas[k]) THEN {<<"failed">>}
    ELSE Resliced(FlattenSeq(Trimmed(Slice(c.text))), Len(c.text))

\* recoverFile, of an executor: those of the last slice are.
TrimmedLast(slices) ==
    [k \in DOMAIN slices |-> IF k = Len(slices) THEN TrimRight(slices[k]) ELSE slices[k]]

recoverFile(c) ==
    IF \E k \in DOMAIN c.replicas : ~Pulled(c.replicas[k]) THEN {<<"failed">>}
    ELSE {FlattenSeq(TrimmedLast(Slice(c.text)))}

-----------------------------------------------------------------------------
(***************************************************************************)
(* Properties.                                                             *)
(***************************************************************************)

\* Any threshold of the shares, in any order, gives the secret back (modulo the
\* field's order), if the threshold is two at least: with one the secret has been
\* overwritten.
SecretRetrieved ==
    prim.of = "secret" /\ prim.min > 1 =>
        LET shares == ComplexSecretSplit(prim.total, RandomGenerate(prim.min - 1, prim.secret, prim.coefficients))
        IN  \A xs \in UNION {[1..n -> 1..prim.total] : n \in prim.min..prim.total} :
                IsInjective(xs) => ComplexSecretRetrieve(shares, xs) = InField(prim.secret)

\* The receiver reads the message that was chosen and not the other one, and
\* what it sends could as well be its choice of the other one.
ChosenOnly ==
    prim.of = "transfer" =>
        LET pubB == ReceiverChoose(prim.b, Pub(prim.a), prim.chosen)
            cts == SenderEncryptMsg(prim.a, pubB, [i \in 0..1 |-> IF i = 0 THEN "m0" ELSE "m1"])
        IN  /\ ReceiverRetrieveMsg(prim.b, Pub(prim.a), cts, prim.chosen)
                   = (IF prim.chosen = 0 THEN "m0" ELSE "m1")
            /\ prim.a % Order # 0 =>
                  ReceiverRetrieveMsg(prim.b, Pub(prim.a), cts, 1 - prim.chosen) = "none"
            /\ \E b \in 0..(Order - 1) : ReceiverChoose(b, Pub(prim.a), 1 - prim.chosen) = pubB

\* Different lists of the same length have different roots.
RootBinds ==
    prim.of = "merkle" /\ Len(prim.one) = Len(prim.other) =>
        (GetMerkleRoot(prim.one) = GetMerkleRoot(prim.other) <=> prim.one = prim.other)

\* A node that stores the segments and is challenged for the round of the tags
\* passes; one that does not passes only if the difference vanishes in the sum.
ProofsMatchContent ==
    prim.of = "pairing" =>
        LET kept(i) == HashUsingSha256(prim.kept[i], GenerateChallenge(prim))
            signed(i) == HashUsingSha256(prim.content[i], genRandNumByRound(prim.round, prim.sk))
            difference == SumAll([i \in DOMAIN prim.vs |-> prim.vs[i] * (kept(i) - signed(i))])
        IN  VerifyPairing(prim, Prove(prim)) <=> InOrder(difference * prim.u * prim.sk) = 0

\* The owner reads back what was written, and every slice may come from any of
\* its nodes, if no slice but the last one ends with a zero; more than one zero
\* at the end may be too much.
OwnerReads ==
    prim.of = "read" /\ (\A k \in DOMAIN prim.replicas : Pulled(prim.replicas[k]))
        /\ (\A k \in 1..(Blocks(Len(prim.text)) - 1) : Last(Slice(prim.text)[k]) # 0) =>
            prim.text \in Read(prim) /\ Read(prim) \subseteq {prim.text, <<"panic">>}

\* An executor reads back what was written, if it does not end with a zero.
ExecutorReads ==
    prim.of = "read" /\ (\A k \in DOMAIN prim.replicas : Pulled(prim.replicas[k])) /\ Last(prim.text) # 0 =>
        recoverFile(prim) = {prim.text}

\* Read "decrypts the combined slices to get the original file", after having
\* removed "the extra 0 at the end of the file ciphertext"
\* (xdb/engine/handler_read.go:66 and 233).
ReadRestores ==
    prim.of = "read" /\ (\A k \in DOMAIN prim.replicas : Pulled(prim.replicas[k])) =>
        prim.text \in Read(prim)

\* Secrets, messages and files come back as they went in, and roots and proofs
\* of storage depend on the content, whichever shares, choices, replicas and
\* segments are used.
PrimitivesMatch ==
    SecretRetrieved /\ ChosenOnly /\ RootBinds /\ ProofsMatchContent /\ OwnerReads /\ ExecutorReads
=============================================================================
