------------------------- MODULE VerticalRegression -------------------------
(***************************************************************************)
(* The arithmetic of one round of vertical linear and logistic regression  *)
(* (crypto/core/machine_learning, .../mpc_vertical), and that of           *)
(* prediction.  Party A has features, party B has features and the label.  *)
(* Each encrypts its part with its own Paillier key; the other one adds its *)
(* own part and a noise to what it is sent, has it decrypted by the owner  *)
(* of the key, and takes the noise off again.  What comes out is compared  *)
(* with the gradient and the cost of a learner that has all the features   *)
(* (linear_regression/gradient_descent, logic_regression).                 *)
(*                                                                         *)
(* A real number is exact, where the code has a float64: features, labels, *)
(* coefficients and the regularisation parameter are multiples of 1/Den,   *)
(* what a party predicts is one of 1/Den^2.  What is lost by the rounding  *)
(* to big integers is modelled, what a float64 loses is not.  Scale is     *)
(* 10^accuracy.                                                            *)
(***************************************************************************)
EXTENDS Integers, Sequences, FiniteSets, Functions

CONSTANTS
    Den,      \* denominator of features, labels and coefficients
    KeyN      \* modulus of the homomorphic keys

VARIABLE round   \* the data of the round calculated, or Idle

Idle == [of |-> "idle"]

Samples(r) == DOMAIN r.y
Unit == Den * Den      \* the denominator of what is predicted
Absolute(n) == IF n < 0 THEN -n ELSE n

\* math.Round(n / d), half away from zero.
RoundDiv(n, d) ==
    IF n >= 0 THEN (2 * n + d) \div (2 * d) ELSE -((d - 2 * n) \div (2 * d))

Total(f, S) == SumFunctionOnSet(f, S)

-----------------------------------------------------------------------------
(***************************************************************************)
(* Paillier with negative numbers.  A cypher is what it decrypts to.       *)
(***************************************************************************)

EncryptSupNegNum(m) == m % KeyN
CyphersAdd(cs) == Total(cs, DOMAIN cs) % KeyN
CypherPlainsAdd(c, plains) == (c + Total(plains, DOMAIN plains)) % KeyN
CypherPlainMultiply(c, k) == (c * k) % KeyN

DecryptSupNegNum(c) == ((c + KeyN \div 2) % KeyN) - KeyN \div 2

-----------------------------------------------------------------------------
(***************************************************************************)
(* What a party calculates alone.  x[j][i] is the value of feature i of    *)
(* sample j; the first one of B is the constant 1, that of the intercept.  *)
(***************************************************************************)

\* predict, predictNoTag: the row without its id.
predict(thetas, row) == Total([i \in DOMAIN thetas |-> thetas[i] * row[i]], DOMAIN thetas)

\* CalLassoRegCost and CalRidgeRegCost, scaled.
CalRegCost(r, thetas) ==
    LET m == Cardinality(Samples(r)) IN
    CASE r.reg = "lasso" ->
           RoundDiv(r.lambda * Total([i \in DOMAIN thetas |-> Absolute(thetas[i])], DOMAIN thetas) * r.scale,
                    Unit * m)
      [] r.reg = "ridge" ->
           RoundDiv(r.lambda * Total([i \in DOMAIN thetas |-> thetas[i] * thetas[i]], DOMAIN thetas) * r.scale,
                    2 * Unit * Den * m)
      [] OTHER -> 0

\* CalLocalGradientPart and CalLocalGradientTagPart: of the prediction u, or
\* of its deviation from the label, and of the square of it.
LinearPart(r, u) ==
    [grad |-> [j \in Samples(r) |-> RoundDiv(u[j] * r.scale, Unit)],
     square |-> [j \in Samples(r) |-> RoundDiv(u[j] * u[j] * r.scale, Unit * Unit)]]

PartA(r) == LinearPart(r, [j \in Samples(r) |-> predict(r.ta, r.xa[j])])

PartB(r) == LinearPart(r, [j \in Samples(r) |-> predict(r.tb, r.xb[j]) - r.y[j] * Den])

\* CalLocalGradAndCostPart: u and u^2/8.
LogicPartA(r) ==
    LET u == [j \in Samples(r) |-> predict(r.ta, r.xa[j])] IN
    [part1 |-> [j \in Samples(r) |-> RoundDiv(u[j] * r.scale, Unit)],
     part2 |-> [j \in Samples(r) |-> RoundDiv(u[j] * u[j] * r.scale, 8 * Unit * Unit)]]

\* CalLocalGradAndCostTagPart: y-1/2, (y-1/2)u, u^2/8, u/4 and 1/2+u/4-y; the
\* label is 0 or 1.
LogicPartB(r) ==
    LET u == [j \in Samples(r) |-> predict(r.tb, r.xb[j])]
        h == [j \in Samples(r) |-> 2 * r.y[j] - 1] IN
    [part1 |-> [j \in Samples(r) |-> RoundDiv(h[j] * r.scale, 2)],
     part2 |-> [j \in Samples(r) |-> RoundDiv(h[j] * u[j] * r.scale, 2 * Unit)],
     part3 |-> [j \in Samples(r) |-> RoundDiv(u[j] * u[j] * r.scale, 8 * Unit * Unit)],
     part4 |-> [j \in Samples(r) |-> RoundDiv(u[j] * r.scale, 4 * Unit)],
     part5 |-> [j \in Samples(r) |-> RoundDiv((u[j] - 2 * Unit * h[j]) * r.scale, 4 * Unit)]]

-----------------------------------------------------------------------------
(***************************************************************************)
(* What it calculates with the encrypted part of the other one: feature i  *)
(* of the linear gradients, the linear costs, and those of the logistic    *)
(* regression.  The noise is added once more for every sample.             *)
(***************************************************************************)

\* CalEncLocalGradient: A scales the feature after it was rounded.
CalEncLocalGradient(r, i) ==
    [j \in Samples(r) |->
        LET x == RoundDiv(r.xa[j][i], Den) * r.scale IN
        CyphersAdd(<<EncryptSupNegNum(PartA(r).grad[j] * x),
                     CypherPlainMultiply(EncryptSupNegNum(PartB(r).grad[j]), x),
                     EncryptSupNegNum(r.noise)>>)]

\* Mutant of CalEncLocalGradientTagPart: scaled after it was rounded, too.
CalEncLocalGradientTagPart_rounded(r, i) ==
    [j \in Samples(r) |->
        LET x == RoundDiv(r.xb[j][i], Den) * r.scale IN
        CyphersAdd(<<EncryptSupNegNum(PartB(r).grad[j] * x),
                     CypherPlainMultiply(EncryptSupNegNum(PartA(r).grad[j]), x),
                     EncryptSupNegNum(r.noise)>>)]

\* CalEncLocalGradientTagPart: B rounds what it has scaled.
CalEncLocalGradientTagPart(r, i) ==
    [j \in Samples(r) |->
        LET x == RoundDiv(r.xb[j][i] * r.scale, Den) IN
        CyphersAdd(<<EncryptSupNegNum(PartB(r).grad[j] * x),
                     CypherPlainMultiply(EncryptSupNegNum(PartA(r).grad[j]), x),
                     EncryptSupNegNum(r.noise)>>)]

\* Both sides of the cost: mine in the clear, yours encrypted.
LinearCost(r, mine, myReg, yours, yourReg) ==
    [j \in Samples(r) |->
        CyphersAdd(<<EncryptSupNegNum(mine.square[j] * r.scale),
                     CypherPlainMultiply(EncryptSupNegNum(yours.square[j]), r.scale),
                     CypherPlainMultiply(EncryptSupNegNum(yours.grad[j]), 2 * mine.grad[j]),
                     EncryptSupNegNum(myReg * r.scale),
                     CypherPlainMultiply(EncryptSupNegNum(yourReg), r.scale),
                     EncryptSupNegNum(r.noise)>>)]

EvaluateEncLocalCost(r) ==
    LinearCost(r, PartA(r), CalRegCost(r, r.ta), PartB(r), CalRegCost(r, r.tb))

EvaluateEncLocalCostTag(r) ==
    LinearCost(r, PartB(r), CalRegCost(r, r.tb), PartA(r), CalRegCost(r, r.ta))

\* CalEncLocalGradient of the logistic regression.
LogicGradient(r, i) ==
    [j \in Samples(r) |->
        CypherPlainsAdd(CypherPlainMultiply(EncryptSupNegNum(LogicPartB(r).part5[j]),
                                            RoundDiv(r.xa[j][i] * r.scale, Den)),
            <<LogicPartA(r).part1[j] * RoundDiv(r.xa[j][i] * r.scale, 4 * Den), r.noise>>)]

\* CalEncLocalGradientTagPart of the logistic regression.
LogicGradientTagPart(r, i) ==
    [j \in Samples(r) |->
        CypherPlainsAdd(CypherPlainMultiply(EncryptSupNegNum(LogicPartA(r).part1[j]),
                                            RoundDiv(r.xb[j][i] * r.scale, 4 * Den)),
            <<LogicPartB(r).part5[j] * RoundDiv(r.xb[j][i] * r.scale, Den), r.noise>>)]

\* ln(1/2), twice scaled.
LnHalf(r) == RoundDiv(-693 * r.scale * r.scale, 1000)

\* EvaluateEncLocalCost of the logistic regression; nothing of the
\* regularisation gets into it.
LogicCost(r) ==
    LET a == LogicPartA(r)  b == LogicPartB(r) IN
    [j \in Samples(r) |->
        CypherPlainsAdd(
            CyphersAdd(<<CypherPlainMultiply(EncryptSupNegNum(b.part1[j]), a.part1[j]),
                         CypherPlainMultiply(EncryptSupNegNum(b.part2[j]), r.scale),
                         CypherPlainMultiply(
                             CypherPlainMultiply(EncryptSupNegNum(b.part3[j]), r.scale), -1),
                         CypherPlainMultiply(
                             CypherPlainMultiply(EncryptSupNegNum(b.part4[j]), a.part1[j]), -1)>>),
            <<LnHalf(r), -(a.part2[j] * r.scale), r.noise>>)]

\* EvaluateEncLocalCostTag of the logistic regression.
LogicCostTag(r) ==
    LET a == LogicPartA(r)  b == LogicPartB(r) IN
    [j \in Samples(r) |->
        CypherPlainsAdd(
            CyphersAdd(<<CypherPlainMultiply(EncryptSupNegNum(a.part1[j]), b.part1[j]),
                         CypherPlainMultiply(
                             CypherPlainMultiply(EncryptSupNegNum(a.part2[j]), r.scale), -1),
                         CypherPlainMultiply(
                             CypherPlainMultiply(EncryptSupNegNum(a.part1[j]), b.part4[j]), -1)>>),
            <<LnHalf(r), b.part2[j] * r.scale, -(b.part3[j] * r.scale), r.noise>>)]

-----------------------------------------------------------------------------
(***************************************************************************)
(* What comes back: decrypted by the other party, without the noise, and   *)
(* twice scaled.                                                           *)
(***************************************************************************)

DecryptGradient(enc) == [j \in DOMAIN enc |-> DecryptSupNegNum(enc[j])]
DecryptCost(enc) == [j \in DOMAIN enc |-> DecryptSupNegNum(enc[j])]

RetrieveRealGradient(r, dec) == [j \in DOMAIN dec |-> dec[j] - r.noise]
RetrieveRealCost(r, dec) == [j \in DOMAIN dec |-> dec[j] - r.noise]

\* The same of the logistic regression.
LogicRetrieveGradient(r, enc) == [j \in DOMAIN enc |-> DecryptSupNegNum(enc[j]) - r.noise]
LogicRetrieveCost(r, enc) == [j \in DOMAIN enc |-> DecryptSupNegNum(enc[j]) - r.noise]

Sign(n) == IF n > 0 THEN 1 ELSE IF n < 0 THEN -1 ELSE 0

\* The part of the regularisation in the gradient, times the samples and Unit.
RegGradient(r, theta) ==
    CASE r.reg = "lasso" -> r.lambda * Den * Sign(theta)
      [] r.reg = "ridge" -> r.lambda * theta
      [] OTHER -> 0

\* A fraction of scale^2 * Unit * samples.
CalGradientWithReg(r, thetas, i, grads) ==
    Total(grads, Samples(r)) * Unit + RegGradient(r, thetas[i]) * r.scale * r.scale

\* CalCost, a fraction of scale^2 * (twice the number of) samples.  The code
\* adds in the order of a map, a random one.
CalCost(r, costs) == Total(costs, Samples(r))

-----------------------------------------------------------------------------
(***************************************************************************)
(* A round of a party (dai/crypto/vl): tag says whether it has the label.  *)
(***************************************************************************)

Thetas(r, tag) == IF tag THEN r.tb ELSE r.ta
Features(r, tag) == IF tag THEN r.xb ELSE r.xa

\* What it sends to be decrypted.
CalEncGradientAndCost(r, tag) ==
    [grads |-> [i \in DOMAIN Thetas(r, tag) |->
                   IF tag THEN CalEncLocalGradientTagPart(r, i) ELSE CalEncLocalGradient(r, i)],
     cost |-> IF tag THEN EvaluateEncLocalCostTag(r) ELSE EvaluateEncLocalCost(r)]

LogicEncGradientAndCost(r, tag) ==
    [grads |-> [i \in DOMAIN Thetas(r, tag) |->
                   IF tag THEN LogicGradientTagPart(r, i) ELSE LogicGradient(r, i)],
     cost |-> IF tag THEN LogicCostTag(r) ELSE LogicCost(r)]

\* What the other one answers.
DecGradientAndCost(enc) ==
    [grads |-> [i \in DOMAIN enc.grads |-> DecryptGradient(enc.grads[i])],
     cost |-> DecryptCost(enc.cost)]

\* The cost of each sample, that of the round, and the new coefficients:
\* fractions of scale^2 * Unit * samples.
RealCosts(r, tag) ==
    RetrieveRealCost(r, DecGradientAndCost(CalEncGradientAndCost(r, tag)).cost)

UpdateCost(r, tag) == CalCost(r, RealCosts(r, tag))

UpdateGradient(r, tag) ==
    LET thetas == Thetas(r, tag)
        dec == DecGradientAndCost(CalEncGradientAndCost(r, tag)) IN
    [i \in DOMAIN thetas |->
        thetas[i] * Den * Cardinality(Samples(r)) * r.scale * r.scale
        - r.alpha * CalGradientWithReg(r, thetas, i, RetrieveRealGradient(r, dec.grads[i]))]

LogicRealCosts(r, tag) == LogicRetrieveCost(r, LogicEncGradientAndCost(r, tag).cost)

LogicUpdateCost(r, tag) == CalCost(r, LogicRealCosts(r, tag))

LogicUpdateGradient(r, tag) ==
    LET thetas == Thetas(r, tag)
        enc == LogicEncGradientAndCost(r, tag) IN
    [i \in DOMAIN thetas |->
        thetas[i] * Den * Cardinality(Samples(r)) * r.scale * r.scale
        - r.alpha * CalGradientWithReg(r, thetas, i, LogicRetrieveGradient(r, enc.grads[i]))]

-----------------------------------------------------------------------------
(***************************************************************************)
(* The same in one place: a step of train, and evaluateCost, of the learner *)
(* that has all the features; for the logistic regression with the sigmoid *)
(* and the logarithm replaced by the second order of their Taylor series.  *)
(***************************************************************************)

\* What is predicted, a fraction of Unit, and its deviation from the label;
\* for the logistic regression 1/2 + u/4 - y, a fraction of 4 * Unit.
Predicted(r, j) == predict(r.ta, r.xa[j]) + predict(r.tb, r.xb[j])
Deviation(r, j) == Predicted(r, j) - r.y[j] * Den
LogicDeviation(r, j) == 2 * Unit + Predicted(r, j) - 4 * Unit * r.y[j]

\* Fractions of Unit * Den and of 4 * Unit * Den, times the samples; x are the
\* features that the deviations are multiplied with.
calGradient(r, tag, x, i) ==
    Den * RegGradient(r, Thetas(r, tag)[i])
    + Total([j \in Samples(r) |-> Deviation(r, j) * x[j][i]], Samples(r))

logicCalGradient(r, tag, i) ==
    4 * Den * RegGradient(r, Thetas(r, tag)[i])
    + Total([j \in Samples(r) |-> LogicDeviation(r, j) * Features(r, tag)[j][i]], Samples(r))

\* The new coefficients of train: fractions of Unit * Den * samples.
trained(r, tag, x) ==
    [i \in DOMAIN Thetas(r, tag) |->
        Thetas(r, tag)[i] * Unit * Cardinality(Samples(r)) - r.alpha * calGradient(r, tag, x, i)]

logicTrained(r, tag) ==
    [i \in DOMAIN Thetas(r, tag) |->
        4 * Thetas(r, tag)[i] * Unit * Cardinality(Samples(r)) - r.alpha * logicCalGradient(r, tag, i)]

\* Fractions of Unit^2, and of 8 * Unit^2, negated and without the constant.
evaluateCost(r) ==
    Total([j \in Samples(r) |-> Deviation(r, j) * Deviation(r, j)], Samples(r))

logicEvaluateCost(r) ==
    Total([j \in Samples(r) |->
        4 * (2 * r.y[j] - 1) * Predicted(r, j) * Unit - Predicted(r, j) * Predicted(r, j)], Samples(r))

-----------------------------------------------------------------------------
(***************************************************************************)
(* Prediction with a trained model.  A model has coefficients by name;     *)
(* mean and deviation of the training values of a column standardise them, *)
(* and what is to be predicted.                                            *)
(***************************************************************************)

xbar(values) == Total(values, DOMAIN values) \div Len(values)

\* The square root of the variance; the values are such that it is whole.
sigma(values) ==
    CHOOSE s \in 1..10 :
        s * s * Len(values) = Total([j \in DOMAIN values |-> (values[j] - xbar(values)) * (values[j] - xbar(values))],
                                    DOMAIN values)

Standard(values, v) == (Den * (v - xbar(values))) \div sigma(values)

\* Fractions of Den.  The label of the logistic regression stays as it is.
StandardizeDataSet(p) ==
    [n \in DOMAIN p.data |-> [j \in DOMAIN p.data[n] |-> Standard(p.data[n], p.data[n][j])]]

LogicStandardizeDataSet(p) ==
    [n \in DOMAIN p.data |->
        [j \in DOMAIN p.data[n] |->
            IF n = p.label THEN Den * p.data[n][j] ELSE Standard(p.data[n], p.data[n][j])]]

\* The constant comes first and the label last, whatever its column is.
PreProcessDataSet(p, std) ==
    LET names == SelectSeq(p.cols, LAMBDA n : n # p.label) \o <<p.label>> IN
    [names |-> names,
     rows |-> [j \in DOMAIN p.data[p.label] |->
                  <<Den>> \o [i \in DOMAIN names |-> std[names[i]][j]]]]

PreProcessDataSetNoTag(p, std) ==
    [names |-> p.others,
     rows |-> [j \in DOMAIN p.data[p.label] |-> [i \in DOMAIN p.others |-> std[p.others[i]][j]]]]

\* thetasToMap, of the party with the label and of the other one.
thetasToMapTag(thetas, names) ==
    [n \in {names[i] : i \in 1..(Len(names) - 1)} |->
        thetas[1 + CHOOSE i \in 1..(Len(names) - 1) : names[i] = n]]

thetasToMap(thetas, names) ==
    [n \in {names[i] : i \in DOMAIN names} |-> thetas[CHOOSE i \in DOMAIN names : names[i] = n]]

StandardizeLocalInput(p, input) == [n \in DOMAIN input |-> Standard(p.data[n], input[n])]

\* PredictLocalPartNoTag goes through the coefficients, PredictLocalPartTag
\* through the values: a column without a coefficient, like that of the label,
\* counts nothing.  Fractions of Unit.
PredictLocalPartNoTag(map, values) ==
    Total([n \in DOMAIN map |-> map[n] * values[n]], DOMAIN map)

PredictLocalPartTag(intercept, map, values) ==
    intercept * Den
    + Total([n \in DOMAIN values |-> IF n \in DOMAIN map THEN map[n] * values[n] ELSE 0],
            DOMAIN values)

\* A fraction of Unit.
DeStandardizeOutput(p, out) == out * sigma(p.data[p.label]) + xbar(p.data[p.label]) * Unit

\* Constant and coefficients for values that are not standardised, fractions
\* of Unit.
DeStandardizeBothThetas(p, intercept, map) ==
    LET y == p.data[p.label] IN
    [const |->
        (intercept * Den
          - Total([n \in DOMAIN map |-> map[n] * ((Den * xbar(p.data[n])) \div sigma(p.data[n]))], DOMAIN map))
        * sigma(y) + xbar(y) * Unit,
     coef |-> [n \in DOMAIN map |-> (map[n] * sigma(y) * Den) \div sigma(p.data[n])]]

\* PredictLocalPart of both parties, and their sum.
PredictLocalParts(p, mapA, mapB, input) ==
    LET std == StandardizeLocalInput(p, input) IN
    PredictLocalPartTag(p.tb[1], mapB, Restrict(std, {p.cols[i] : i \in DOMAIN p.cols} \cap DOMAIN input))
    + PredictLocalPartNoTag(mapA, std)

-----------------------------------------------------------------------------
\* The next round to calculate, or the next sample to predict.
Calculate(inputs) == round = Idle /\ round' \in inputs

(***************************************************************************)
(* Properties.                                                             *)
(***************************************************************************)

\* A scale in which nothing is rounded; in any other one, twice the error
\* that rounding makes: every number that is rounded is off by a half, and
\* multiplied with another one.
Exact(r) == r.scale % (8 * Unit * Unit) = 0

Slack(r, x, i) ==
    LET v(j) == Absolute(x[j][i])
        a(j) == Absolute(predict(r.ta, r.xa[j])) IN
    IF Exact(r) THEN 0
    ELSE Total([j \in Samples(r) |->
            IF r.of = "linear"
            THEN Unit * Den + r.scale * (2 * Unit * v(j) + Den * Absolute(Deviation(r, j)))
            ELSE 4 * Unit * Den
                 + r.scale * (5 * Unit * v(j) + 4 * Den * a(j)
                    + Den * Absolute(LogicDeviation(r, j) - predict(r.ta, r.xa[j])))],
         Samples(r))

\* The features, to the nearest whole number.
Whole(x) == [j \in DOMAIN x |-> [i \in DOMAIN x[j] |-> Den * RoundDiv(x[j][i], Den)]]

\* Coefficient i of the party after the round is that of one learner with all
\* the features, but multiplied with x in the gradient, up to the rounding.
Close(r, tag, x, i) ==
    2 * Absolute(IF r.of = "linear"
                 THEN UpdateGradient(r, tag)[i] * Den - trained(r, tag, x)[i] * r.scale * r.scale
                 ELSE 4 * LogicUpdateGradient(r, tag)[i] * Den - logicTrained(r, tag)[i] * r.scale * r.scale)
    <= r.alpha * Slack(r, x, i)

\* Both parties get the coefficients of a learner with all the features,
\* although neither sees the data of the other: nothing of the noise, the sign
\* or the scale is left over, for positive and negative numbers.  In the linear
\* regression the party without the label does not: its features count in the
\* gradient to the nearest whole number only (CalEncLocalGradient).
GradientsMatch ==
    round.of \in {"linear", "logic"} =>
        /\ \A i \in DOMAIN round.tb : Close(round, TRUE, round.xb, i)
        /\ \A i \in DOMAIN round.ta :
              Close(round, FALSE, IF round.of = "linear" THEN Whole(round.xa) ELSE round.xa, i)

\* Both parties get the same cost of every sample, whatever is rounded.  (The
\* sums over the samples, by which they decide whether the training stops, are
\* made of floats in an order that differs, and may differ in the last digit:
\* CalCost.)
CostsAgree ==
    /\ round.of = "linear" => RealCosts(round, TRUE) = RealCosts(round, FALSE)
    /\ round.of = "logic" => LogicRealCosts(round, TRUE) = LogicRealCosts(round, FALSE)

\* Without regularisation and rounding, the cost is that of a learner with
\* all the features (UpdateCost).
CostMatches ==
    LET m == Cardinality(Samples(round))
        S == round.scale * round.scale IN
    (round.of \in {"linear", "logic"} /\ round.reg = "none" /\ Exact(round)) =>
        IF round.of = "linear"
        THEN UpdateCost(round, FALSE) * Unit * Unit = evaluateCost(round) * S
        ELSE (LogicUpdateCost(round, FALSE) - m * LnHalf(round)) * 8 * Unit * Unit = logicEvaluateCost(round) * S

\* A model predicts a sample as the training did: the coefficients it has by
\* name are those the training had by column, whatever column the label is in,
\* and a training sample that is predicted again is standardised alike.
\* Predicting with standardised values and undoing it is predicting with the
\* coefficients themselves (DeStandardizeBothThetas).
PredictionMatches ==
    round.of = "predict" =>
        LET p == round
            std == IF p.linear THEN StandardizeDataSet(p) ELSE LogicStandardizeDataSet(p)
            setA == PreProcessDataSetNoTag(p, std)
            setB == PreProcessDataSet(p, std)
            mapA == thetasToMap(p.ta, setA.names)
            mapB == thetasToMapTag(p.tb, setB.names)
            both == [n \in DOMAIN mapA \cup DOMAIN mapB |->
                        IF n \in DOMAIN mapA THEN mapA[n] ELSE mapB[n]]
            raw == DeStandardizeBothThetas(p, p.tb[1], both) IN
        /\ \A j \in DOMAIN p.data[p.label] :
              PredictLocalParts(p, mapA, mapB, [n \in DOMAIN p.input |-> p.data[n][j]])
              = predict(p.ta, setA.rows[j]) + predict(p.tb, setB.rows[j])
        /\ p.linear =>
              DeStandardizeOutput(p, PredictLocalParts(p, mapA, mapB, p.input))
              = raw.const + Total([n \in DOMAIN both |-> raw.coef[n] * p.input[n]], DOMAIN both)

\* What the encryption, the noise and the scaling do to vertical regression is
\* undone: gradients, the costs of the samples and the predictions are those of a
\* learner with all the features, except for the linear gradients of the party
\* without the label, which are those for whole features (GradientsMatch).
RegressionMatches == GradientsMatch /\ CostsAgree /\ CostMatches /\ PredictionMatches
=============================================================================
