----------------------------- MODULE SampleSets -----------------------------
(***************************************************************************)
(* The algorithms that decide which samples the parties of a task train,   *)
(* predict and validate with: the intersection of the parties' sample ids  *)
(* (PSI) and the rearrangement of their files, the batches of the rounds,  *)
(* the splits of an evaluation, and the scores of what was predicted       *)
(* (crypto/core/machine_learning/evaluation, dai/crypto/vl/common).        *)
(*                                                                         *)
(* A file is a sequence of rows, the line of feature names left out.  The  *)
(* ids are numbers, so that they have an order.  Every case is calculated  *)
(* in one step; what the properties speak of is what comes out of it.      *)
(***************************************************************************)
EXTENDS Integers, Sequences, FiniteSets, Functions, SequencesExt

CONSTANTS
    PosClass,   \* the class whose probability is predicted
    NegClass,   \* what every other class is renamed to
    Threshold,  \* above it the positive class is predicted
    FoldNumbers \* the numbers of folds a split may have: 5 and 10 in the code

VARIABLE sets   \* the case that is calculated, or NoCase

NoCase == [of |-> "none"]

Largest(S) == CHOOSE n \in S : \A o \in S : o <= n
SortedSeq(S) == SetToSortSeq(S, LAMBDA a, b : a < b)
SumOver(f) == SumFunction(f)
SquareOf(n) == n * n

-----------------------------------------------------------------------------
(***************************************************************************)
(* Private set intersection.  An encrypted id is the id with the keys it   *)
(* was multiplied by, in whatever order; it is mapped to a row of the file *)
(* it comes from.                                                          *)
(***************************************************************************)

RetrieveIDsFromFile(file) == [i \in DOMAIN file |-> file[i].id]

\* The index of the last row that has the id.
EncryptSampleIDSet(ids, key) ==
    [e \in {[id |-> ids[i], keys |-> {key}] : i \in DOMAIN ids} |->
        Largest({i \in DOMAIN ids : ids[i] = e.id})]

ReEncryptIDSet(encSet, key) ==
    [e \in {[x EXCEPT !.keys = @ \cup {key}] : x \in DOMAIN encSet} |->
        encSet[CHOOSE x \in DOMAIN encSet : x.id = e.id /\ x.keys \cup {key} = e.keys]]

PSIntersect(sampleID, local, others) ==
    {sampleID[local[e]] : e \in {x \in DOMAIN local :
        others # {} /\ \A o \in others : x \in DOMAIN o}}

\* A party sends its encrypted ids to the other one, which encrypts them again.
FinalReEncIDs(ids, own, other) == ReEncryptIDSet(EncryptSampleIDSet(ids, own), other)

IntersectTwoParts(files, p, q) ==
    LET ids == RetrieveIDsFromFile(files[p])
        others == RetrieveIDsFromFile(files[q])
    IN  PSIntersect(ids, FinalReEncIDs(ids, p, q), {FinalReEncIDs(others, q, p)})

getIntersection(a, b) == a \cap b

\* IntersectParts of vlPsiByPairs; with one other party that of vlTwoPartsPsi.
IntersectParts(files, p) ==
    LET others == DOMAIN files \ {p}
        pairs == {IntersectTwoParts(files, p, q) : q \in others}
    IN  FoldSet(getIntersection, CHOOSE first \in pairs : TRUE, pairs)

reOrderIDSet(file, ids) == SortedSeq(ids)

\* The last row of each id, without it; <<>> is the error.
RearrangeFileWithIntersectIDs(file, ids) ==
    LET order == reOrderIDSet(file, ids)
    IN  [k \in DOMAIN order |->
            file[Largest({i \in DOMAIN file : file[i].id = order[k]})].x]

Aligned(files, p) == RearrangeFileWithIntersectIDs(files[p], IntersectParts(files, p))

-----------------------------------------------------------------------------
(***************************************************************************)
(* The batches of gradient descent.  orders[r] stands for the order of the *)
(* hashes of index and round.                                              *)
(***************************************************************************)

randTrainSet(trainSet, order) == [i \in DOMAIN trainSet |-> trainSet[order[i]]]

Segments(c) == Len(c.samples) \div c.size

\* The train set of every round, in the order that the round leaves it in.
TrainSets(c) ==
    LET set[r \in -1..c.rounds] ==
          IF r = -1 THEN c.samples
          ELSE IF r % Segments(c) = 0 THEN randTrainSet(set[r - 1], c.orders[r])
          ELSE set[r - 1]
    IN  set

SegmentStart(c, r) == (r % Segments(c)) * c.size

GetBatchSetBySize(c, r) ==
    IF c.size = 0 \/ c.size >= Len(c.samples) THEN c.samples
    ELSE SubSeq(TrainSets(c)[r], SegmentStart(c, r) + 1, SegmentStart(c, r) + c.size)

-----------------------------------------------------------------------------
(***************************************************************************)
(* Splits.  The seed of a shuffle is the permutation it leads to; an error *)
(* leaves no folds.                                                        *)
(***************************************************************************)

\* Rows of one id stay in the order of the file.
sortById(rows) ==
    LET ids == SortedSeq({rows[i].id : i \in DOMAIN rows})
    IN  FlattenSeq([k \in DOMAIN ids |-> SelectSeq(rows, LAMBDA r : r.id = ids[k])])

shuffle(rows, seed) == [i \in DOMAIN rows |-> rows[seed[i]]]

Split(rows, percents) ==
    LET l == (Len(rows) * percents) \div 100
    IN  <<SubSeq(rows, 1, l), SubSeq(rows, l + 1, Len(rows))>>

\* Mutant of FoldStart: the remainder is dropped.
FoldStart_floor(n, k, i) == i * (n \div k)

\* The first n % k folds have one row more.
FoldStart(n, k, i) == i * (n \div k) + (IF i < n % k THEN i ELSE n % k)

KFoldsSplit(rows, k) ==
    IF k \notin FoldNumbers \/ Len(rows) < k THEN <<>>
    ELSE [i \in 1..k |-> SubSeq(rows, FoldStart(Len(rows), k, i - 1) + 1, FoldStart(Len(rows), k, i))]

LooSplit(rows) ==
    IF rows = <<>> THEN <<>> ELSE [i \in DOMAIN rows |-> <<sortById(rows)[i]>>]

ShuffleSplit(rows, percents, seed) == Split(shuffle(sortById(rows), seed), percents)
ShuffleKFoldsSplit(rows, k, seed) == KFoldsSplit(shuffle(sortById(rows), seed), k)

\* The methods of splitter.
Folds(rows, how) ==
    CASE how.by = "percents" -> IF how.n \in 1..100 THEN Split(rows, how.n) ELSE <<>>
      [] how.by = "shuffled percents" ->
            IF how.n \in 1..100 THEN ShuffleSplit(rows, how.n, how.seed) ELSE <<>>
      [] how.by = "folds" -> KFoldsSplit(rows, how.n)
      [] how.by = "shuffled folds" -> ShuffleKFoldsSplit(rows, how.n, how.seed)
      [] how.by = "leave one out" -> LooSplit(rows)

GetValidSet(folds, idx) == folds[idx]

GetTrainSet(folds, idxHO) ==
    FlattenSeq([i \in DOMAIN folds |-> IF i = idxHO THEN <<>> ELSE folds[i]])

\* The rows without their label.
GetPredictSet(folds, idx) ==
    LET set == GetValidSet(folds, idx)
    IN  [i \in DOMAIN set |-> [id |-> set[i].id, x |-> set[i].x]]

-----------------------------------------------------------------------------
(***************************************************************************)
(* Scores.  A probability and a predicted value are whole numbers, a ratio *)
(* is a pair of its numerator and its denominator.                         *)
(***************************************************************************)

\* rebuildFileForEvaluation: the aligned rows are numbered anew.
rebuildFileForEvaluation(rows) == [i \in DOMAIN rows |-> [id |-> i, x |-> rows[i].x, y |-> rows[i].y]]

\* Every label but the positive one becomes the negative one.
NewBinClassValidation(rows) ==
    [i \in DOMAIN rows |-> [rows[i] EXCEPT !.y = IF @ = PosClass THEN @ ELSE NegClass]]

getFeaturesByName(rows) == [i \in DOMAIN rows |-> rows[i].y]

\* What was predicted is found by the id; the order is that of the fold.
InOrderOfFold(fold, predMap) ==
    [i \in DOMAIN fold |-> IF fold[i].id \in DOMAIN predMap THEN predMap[fold[i].id] ELSE 0]

\* SetPredictOut of binClassValidation.
Classes(probas) ==
    [i \in DOMAIN probas |-> IF probas[i] <= Threshold THEN NegClass ELSE PosClass]

\* cm[rc][pc]; a class nobody has, or nobody predicts for it, is missing.  The
\* error for an empty fold (classification.go:52-54) and the panic of GetROC for
\* one (:388) are left out: the evaluator divides into no empty folds
\* (evaluator.go:283-286).
NewConfusionMatrix(real, pred) ==
    [rc \in Range(real) |->
        [pc \in {pred[i] : i \in {j \in DOMAIN real : real[j] = rc}} |->
            Cardinality({i \in DOMAIN real : real[i] = rc /\ pred[i] = pc})]]

Cell(cm, rc, pc) == IF rc \in DOMAIN cm /\ pc \in DOMAIN cm[rc] THEN cm[rc][pc] ELSE 0

GetTruePositives(cm, class) == Cell(cm, class, class)
GetFalsePositives(cm, class) == SumOver([k \in DOMAIN cm \ {class} |-> Cell(cm, k, class)])
GetFalseNegatives(cm, class) == SumOver([l \in DOMAIN cm[class] \ {class} |-> cm[class][l]])
GetTrueNegatives(cm, class) ==
    SumOver([k \in DOMAIN cm \ {class} |-> SumOver([l \in DOMAIN cm[k] \ {class} |-> cm[k][l]])])

GetPrecision(cm, class) ==
    LET tp == GetTruePositives(cm, class)  fp == GetFalsePositives(cm, class)
    IN  IF tp = 0 /\ fp = 0 THEN <<0, 1>> ELSE <<tp, tp + fp>>
GetRecall(cm, class) ==
    LET tp == GetTruePositives(cm, class) IN <<tp, tp + GetFalseNegatives(cm, class)>>
GetF1Score(cm, class) ==
    LET p == GetPrecision(cm, class)  r == GetRecall(cm, class)
    IN  IF p[1] = 0 /\ r[1] = 0 THEN <<0, 1>>
        ELSE <<2 * p[1] * r[1], p[1] * r[2] + r[1] * p[2]>>
GetAccuracy(cm) ==
    <<SumOver([c \in DOMAIN cm |-> Cell(cm, c, c)]),
      SumOver([c \in DOMAIN cm |-> SumOver(cm[c])])>>

\* The report of a fold, as SummaryAsJSON has it.
Summary(cm) ==
    [metrics |-> [c \in DOMAIN cm |->
        [tp |-> GetTruePositives(cm, c), fp |-> GetFalsePositives(cm, c),
         tn |-> GetTrueNegatives(cm, c), fn |-> GetFalseNegatives(cm, c),
         precision |-> GetPrecision(cm, c), recall |-> GetRecall(cm, c), f1 |-> GetF1Score(cm, c)]],
     accuracy |-> GetAccuracy(cm)]

AtLeastOne(n) == IF n = 0 THEN 1 ELSE n

\* Every predicted value, from the largest to the smallest.
RocThresholds(values) == SortSeq(values, LAMBDA a, b : a > b)

\* FPR in parts of the negative samples, TPR in parts of the positive ones; a
\* rate that has no samples is 1.
GetROC(real, values) ==
    LET At(t, S) == Cardinality({i \in S : values[i] >= t})
        pos == {i \in DOMAIN real : real[i] = PosClass}
        neg == DOMAIN real \ pos
        Point(t) == <<IF neg = {} THEN 1 ELSE At(t, neg), IF pos = {} THEN 1 ELSE At(t, pos)>>
        thresholds == RocThresholds(values)
    IN  <<<<0, 0>>>> \o [k \in DOMAIN thresholds |-> Point(thresholds[k])]

\* Twice the area between two points.
Trapezoid(a, b) == (a[2] + b[2]) * (a[1] - b[1])

\* Twice the area below the curve, in parts of positive times negative samples.
GetAUC(points) ==
    LET falling == points[1][1] > points[2][1]
        area == SumOver([i \in 1..(Len(points) - 1) |-> Trapezoid(points[i], points[i + 1])])
    IN  IF falling THEN area ELSE -area

\* Numerator and denominator of the mean squared error; GetRMSE takes its root.
GetMSE(real, pred) ==
    <<SumOver([i \in DOMAIN real |-> SquareOf(pred[i] - real[i])]), AtLeastOne(Len(real))>>

\* The square of the standard deviation.
getStdDeviation(scores) ==
    LET l == Len(scores)  total == SumOver(scores)
    IN  IF l <= 1 THEN <<0, 1>>
        ELSE <<SumOver([i \in DOMAIN scores |-> SquareOf(l * scores[i] - total)]), l * l * (l - 1)>>

-----------------------------------------------------------------------------
(* What a task or an evaluation does with a case. *)

CalculateSets(cases) ==
    /\ sets = NoCase
    /\ sets' \in cases

\* The file an evaluator validates with, and its folds.
ValidationFile(c) == rebuildFileForEvaluation(c.rows)
ClassFolds(c) == Folds(NewBinClassValidation(ValidationFile(c)), c.how)
ValueFolds(c) == Folds(ValidationFile(c), c.how)

\* c.probas is what is predicted for an id; a fold gets it by SetPredictOut.
Probas(c, idx) == InOrderOfFold(GetPredictSet(ClassFolds(c), idx), c.probas)
Values(c, idx) == InOrderOfFold(GetPredictSet(ValueFolds(c), idx), c.probas)
RealClasses(c, idx) == getFeaturesByName(GetValidSet(ClassFolds(c), idx))

GetReport(c, idx) == Summary(NewConfusionMatrix(RealClasses(c, idx), Classes(Probas(c, idx))))
GetOverallReport(c) == [idx \in DOMAIN ClassFolds(c) |-> GetReport(c, idx)]
GetAllAccuracy(c) == [idx \in DOMAIN ClassFolds(c) |->
    GetAccuracy(NewConfusionMatrix(RealClasses(c, idx), Classes(Probas(c, idx))))]

GetROCAndAUC(c, idx) == GetAUC(GetROC(RealClasses(c, idx), Probas(c, idx)))
GetAllROCAndAUC(c) == [idx \in DOMAIN ClassFolds(c) |-> GetROCAndAUC(c, idx)]

\* Before the root is taken.
GetRMSE(c, idx) == GetMSE(getFeaturesByName(GetValidSet(ValueFolds(c), idx)), Values(c, idx))
GetAllRMSE(c) == [idx \in DOMAIN ValueFolds(c) |-> GetRMSE(c, idx)]

-----------------------------------------------------------------------------
(***************************************************************************)
(* Properties.                                                             *)
(***************************************************************************)

CommonIds(files) == {id \in UNION {Range(RetrieveIDsFromFile(files[p])) : p \in DOMAIN files} :
                        \A p \in DOMAIN files : id \in Range(RetrieveIDsFromFile(files[p]))}

\* Sample alignment leaves every party one row for each id that all parties
\* have, and rows of one position belong to the same id, whatever the order and
\* the duplicates of the parties' files (RearrangeFileWithIntersectIDs).
RowsAligned ==
    sets.of = "align" =>
        \A p, q \in DOMAIN sets.files :
            LET a == Aligned(sets.files, p)  b == Aligned(sets.files, q)
                IdOf(r, x) == {sets.files[r][i].id : i \in {j \in DOMAIN sets.files[r] : sets.files[r][j].x = x}}
            IN  /\ Len(a) = Cardinality(CommonIds(sets.files))
                /\ Len(a) = Len(b)
                /\ \A k \in DOMAIN a : IdOf(p, a[k]) = IdOf(q, b[k])
                /\ UNION {IdOf(p, a[k]) : k \in DOMAIN a} = CommonIds(sets.files)

\* Between two reorderings no sample is trained with twice, and a batch has as
\* many samples as it should (GetBatchSetBySize).
BatchesDisjoint ==
    sets.of = "batch" =>
        \A r, s \in 0..sets.rounds :
            /\ Len(GetBatchSetBySize(sets, r)) = (IF sets.size \in 1..Len(sets.samples)
                                                   THEN sets.size ELSE Len(sets.samples))
            /\ (sets.size \in 1..(Len(sets.samples) - 1) /\ r < s /\ r \div Segments(sets) = s \div Segments(sets)) =>
                  Range(GetBatchSetBySize(sets, r)) \cap Range(GetBatchSetBySize(sets, s)) = {}

\* The folds are the rows of the file, each in one fold; the training set of a
\* fold is all the others; folds of a k-fold split differ by one row at most; a
\* split is refused only where its parameters are wrong.
HeldOutOnce ==
    sets.of = "split" =>
        LET folds == Folds(sets.a, sets.how)
            Xs(rows) == [i \in DOMAIN rows |-> rows[i].x]
            all == {sets.a[i].x : i \in DOMAIN sets.a}
        IN  IF folds = <<>>
            THEN \/ sets.how.by \in {"folds", "shuffled folds"}
                        /\ (sets.how.n \notin FoldNumbers \/ Len(sets.a) < sets.how.n)
                 \/ sets.how.by \in {"percents", "shuffled percents"} /\ sets.how.n \notin 1..100
            ELSE /\ SumOver([i \in DOMAIN folds |-> Len(folds[i])]) = Len(sets.a)
                 /\ UNION {Range(Xs(folds[i])) : i \in DOMAIN folds} = all
                 /\ \A i \in DOMAIN folds :
                       /\ Range(Xs(GetTrainSet(folds, i))) = all \ Range(Xs(folds[i]))
                       /\ sets.how.by \in {"folds", "shuffled folds"} =>
                             \A j \in DOMAIN folds : Len(folds[i]) - Len(folds[j]) \in -1..1

\* Two parties whose files have the same ids, in whatever order, hold out the
\* same ids in every fold, when the split sorts them first.
FoldsAgree ==
    (sets.of = "split" /\ sets.how.by \in {"shuffled percents", "shuffled folds", "leave one out"}) =>
        LET fa == Folds(sets.a, sets.how)  fb == Folds(sets.b, sets.how)
            Ids(rows) == {rows[i].id : i \in DOMAIN rows}
        IN  /\ DOMAIN fa = DOMAIN fb
            /\ \A i \in DOMAIN fa : Ids(fa[i]) = Ids(fb[i])

\* The reports of the folds, added up, count every sample of the file once: the
\* positive and predicted as such ones, and those that are wrong.
ReportsCountAll ==
    sets.of = "classes" =>
        LET folds == ClassFolds(sets)
            Positive(i) == sets.rows[i].y = PosClass
            Predicted(i) == sets.probas[i] > Threshold
            Count(m) == SumOver([i \in DOMAIN folds |->
                            LET r == GetOverallReport(sets)[i].metrics
                            IN  IF PosClass \in DOMAIN r THEN r[PosClass][m] ELSE 0])
            Right == SumOver([i \in DOMAIN folds |-> GetAllAccuracy(sets)[i][1]])
        IN  folds # <<>> =>
              /\ Count("tp") = Cardinality({i \in DOMAIN sets.rows : Positive(i) /\ Predicted(i)})
              /\ Count("fn") = Cardinality({i \in DOMAIN sets.rows : Positive(i) /\ ~Predicted(i)})
              /\ Right = Cardinality({i \in DOMAIN sets.rows : Positive(i) <=> Predicted(i)})

\* The area below the curve is the share of the pairs of a positive and a
\* negative sample that are in the right order, a tie counting half.
AreaIsRank ==
    sets.of = "classes" =>
        \A idx \in DOMAIN ClassFolds(sets) :
            LET real == RealClasses(sets, idx)  probas == Probas(sets, idx)
                pos == {i \in DOMAIN real : real[i] = PosClass}
                neg == DOMAIN real \ pos
            IN  (pos # {} /\ neg # {}) =>
                  GetAllROCAndAUC(sets)[idx] =
                      2 * Cardinality({p \in pos \X neg : probas[p[1]] > probas[p[2]]})
                        + Cardinality({p \in pos \X neg : probas[p[1]] = probas[p[2]]})

\* The squared errors of the folds, weighted by their sizes, are those of the
\* whole file; the deviation of scores is the unbiased one.
ErrorsAddUp ==
    sets.of = "values" =>
        LET folds == ValueFolds(sets)
            scores == [i \in DOMAIN folds |-> GetAllRMSE(sets)[i][1]]
            l == Len(scores)  dev == getStdDeviation(scores)
        IN  folds # <<>> =>
              /\ SumOver(scores) =
                    SumOver([i \in DOMAIN sets.rows |-> SquareOf(sets.probas[i] - sets.rows[i].y)])
              /\ l > 1 =>
                   dev[1] * l * (l - 1) =
                      dev[2] * (l * SumOver([i \in DOMAIN scores |-> SquareOf(scores[i])]) - SquareOf(SumOver(scores)))

\* The parties train and validate with the same samples at the same positions,
\* each held out once, and what a fold is scored with is what the scores of the
\* whole file are made of.
SamplesMatch ==
    /\ RowsAligned /\ BatchesDisjoint /\ HeldOutOnce /\ FoldsAgree
    /\ ReportsCountAll /\ AreaIsRank /\ ErrorsAddUp
=============================================================================
