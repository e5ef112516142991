---------------------------- MODULE MCAlgorithms ----------------------------
(***************************************************************************)
(* The algorithms on bounded inputs: one step calculates one case of one   *)
(* of the modules; only the growth of a decision tree takes several.       *)
(* Behaviours that begin after midnight of the first day are those of a    *)
(* storage node instead, whose health is calculated on the way.            *)
(***************************************************************************)
EXTENDS VerticalRegression, SampleSets, DecisionTree, Primitives, NodeHealth

-----------------------------------------------------------------------------
(* VerticalRegression: a round of training, and a prediction.  Two samples; *)
(* one feature at the party without the label, two columns at the other.    *)

Reals1 == [{1, 2} -> {<<-2>>, <<1>>, <<4>>}]
Rows2 == [{1, 2} -> {<<2, -1>>, <<2, 3>>}]
Rounds ==
    {[of |-> o, xa |-> xa, xb |-> xb, y |-> y, ta |-> <<a>>, tb |-> <<1, b>>, alpha |-> 1,
      reg |-> g, lambda |-> 1, noise |-> n, scale |-> s] :
       o \in {"linear", "logic"}, xa \in Reals1, xb \in Rows2, y \in {<<0, 1>>, <<1, 1>>},
       a \in {-1, 2}, b \in {-3, 0, 1}, g \in {"none", "lasso", "ridge"}, n \in {0, 77}, s \in {10, 128}}
Predictions ==
    {[of |-> "predict", linear |-> l, cols |-> c, others |-> <<"a1">>, label |-> "y",
      ta |-> <<t>>, tb |-> <<1, u, -1>>,
      data |-> [a1 |-> q, b1 |-> <<1, -3>>, b2 |-> <<-1, 1>>, y |-> z],
      input |-> IF f THEN [a1 |-> v, b1 |-> w, b2 |-> 2, y |-> 1] ELSE [a1 |-> v, b1 |-> w, b2 |-> 2]] :
      l \in BOOLEAN, f \in BOOLEAN,
      c \in {<<"b1", "b2", "y">>, <<"y", "b1", "b2">>, <<"b1", "y", "b2">>},
      t \in {-1, 2}, u \in {-3, 1}, v \in {-2, 3}, w \in {0, 3}, q \in {<<0, 2>>, <<4, 0>>}, z \in {<<2, 4>>, <<1, 5>>}}

-----------------------------------------------------------------------------
(* SampleSets: files with common, missing and repeated ids; all orders of a *)
(* few samples; every way of dividing them; every score of four samples.    *)

Rows(ids) == [i \in DOMAIN ids |-> [id |-> ids[i], x |-> i]]
IdLists == {<<1, 2, 3>>, <<3, 1>>, <<2, 3, 2>>, <<4>>, <<3, 4, 1, 3>>}
Alignments ==
    {[of |-> "align", files |-> [p \in {"A", "B"} |-> Rows(f[p])]] : f \in [{"A", "B"} -> IdLists]} \cup
    {[of |-> "align", files |-> [p \in {"A", "B", "C"} |-> Rows(f[p])]] : f \in [{"A", "B", "C"} -> IdLists]}
Perms(n) == {p \in [1..n -> 1..n] : IsInjective(p)}
Batches ==
    {[of |-> "batch", samples |-> [i \in 1..n |-> i], size |-> k, rounds |-> 3,
      orders |-> [r \in 0..3 |-> IF r < 2 THEN p ELSE q]] :
        <<n, p, q>> \in {<<3, p, q>> : p \in Perms(3), q \in Perms(3)} \cup
                   {<<4, p, q>> : p \in {<<2, 4, 1, 3>>, <<4, 3, 2, 1>>}, q \in Perms(4)}, k \in 0..4}
Hows(n) ==
    {[by |-> b, n |-> k, seed |-> s] :
        b \in {"percents", "shuffled percents", "folds", "shuffled folds", "leave one out"},
        k \in {0, 2, 3, 50, 70},
        s \in {[i \in 1..n |-> n + 1 - i], [i \in 1..n |-> (i % n) + 1]}}
Splits ==
    UNION {{[of |-> "split", a |-> Rows(p), b |-> Rows(q), how |-> h] :
        p \in {[i \in 1..n |-> i], [i \in 1..n |-> n + 1 - i]}, q \in {[i \in 1..n |-> ((i * 3) % (n + 1))]},
        h \in Hows(n)} : n \in {4, 6}} \cup
    {[of |-> "split", a |-> Rows(p), b |-> Rows(q), how |-> h] : p \in {<<1, 2, 1>>}, q \in {<<1, 1, 2>>, <<2, 1, 1>>}, h \in Hows(3)}
Scored(o, Ys, Ps) ==
    {[of |-> o, rows |-> [i \in 1..4 |-> [x |-> i, y |-> y[i]]], probas |-> pr, how |-> h] :
        y \in [1..4 -> Ys], pr \in [1..4 -> Ps],
        h \in {[by |-> "percents", n |-> 50, seed |-> <<>>], [by |-> "percents", n |-> 100, seed |-> <<>>],
               [by |-> "shuffled folds", n |-> 2, seed |-> <<3, 1, 4, 2>>],
               [by |-> "leave one out", n |-> 0, seed |-> <<>>]}}

SetCases ==
    Alignments \cup Batches \cup Splits \cup Scored("classes", {"yes", "no"}, {0, 2, 3})
        \cup Scored("values", {0, 2}, {-1, 3})

-----------------------------------------------------------------------------
(* DecisionTree: four samples, with features that tell them apart, do not,  *)
(* or have one value.                                                       *)

Columns == {<<1, 1, 2, 2>>, <<1, 2, 1, 2>>, <<1, 1, 1, 1>>, <<3, 1, 2, 2>>}
Featured(n) == [1..n -> [continuous : BOOLEAN, values : Columns]]
Jobs ==
    {[features |-> f, label |-> l, cond |-> [samples |-> c[1], depth |-> c[2], gini |-> c[3]], reg |-> r] :
        f \in Featured(2) \cup {<<[continuous |-> FALSE, values |-> <<1, 1, 1, 1>>],
                                  [continuous |-> FALSE, values |-> <<1, 1, 2, 2>>],
                                  [continuous |-> b, values |-> <<1, 2, 1, 2>>]>> : b \in BOOLEAN},
        l \in {<<"a", "a", "b", "b">>, <<"a", "b", "b", "a">>, <<"a", "a", "b", "a">>, <<"a", "b", "c", "c">>},
        c \in {<<0, 0, <<0, 1>>>>, <<1, 2, <<0, 1>>>>, <<2, 0, <<0, 1>>>>, <<0, 2, <<3, 8>>>>},
        r \in {<<0, 1>>, <<1, 8>>, <<1, 2>>}}

-----------------------------------------------------------------------------
(* Primitives. *)

Secrets == {[of |-> "secret", total |-> t, min |-> m, secret |-> s, coefficients |-> c] :
    t \in 2..3, m \in 1..3, s \in {0, 1, 6}, c \in [1..3 -> {0, 3, 9}]}
Transfers == {[of |-> "transfer", a |-> a, b |-> b, chosen |-> i] : a \in 0..6, b \in 0..6, i \in 0..1}
Merkles == LET lists == UNION {[1..n -> {"x", "y"}] : n \in 1..5} IN {[of |-> "merkle", one |-> l, other |-> k] : l \in lists, k \in lists}
Proofs == {[of |-> "pairing", v |-> 2, u |-> u, sk |-> sk, content |-> <<1, 2>>, kept |-> k, round |-> 1, challenged |-> r, vs |-> vs] :
  u \in {0, 2, 5}, sk \in {1, 4}, k \in [1..2 -> 1..3], r \in 1..2, vs \in [1..2 -> {0, 3, 6}]}
Reads == UNION {{[of |-> "read", text |-> t, replicas |-> r] : t \in [1..n -> 0..1],
   r \in [1..Blocks(n) -> [{"a", "b"} -> {"good", "bad"}]]} : n \in 2..5}

PrimitiveCases == {c \in Secrets : c.min <= c.total} \cup Transfers \cup Merkles \cup Proofs \cup Reads

-----------------------------------------------------------------------------
algorithmVars == <<round, sets, treeVars, prim, nodeHealthVars>>

AlgorithmInit == round = Idle /\ sets = NoCase /\ TreeInit /\ prim = NoPrim /\ NodeInit({0, 1, 3})

Resting == <<round, sets, prim>> = <<Idle, NoCase, NoPrim>>

Calculations ==
    \/ TreeInit /\ Resting /\ Calculate(Rounds \cup Predictions) /\ UNCHANGED <<sets, treeVars, prim>>
    \/ TreeInit /\ Resting /\ CalculateSets(SetCases) /\ UNCHANGED <<round, treeVars, prim>>
    \/ TreeInit /\ Resting /\ Calls(PrimitiveCases) /\ UNCHANGED <<round, sets, treeVars>>
    \/ Resting /\ Train(Jobs) /\ UNCHANGED <<round, sets, prim>>
    \/ Resting /\ Growing /\ UNCHANGED <<round, sets, prim>>

AlgorithmNext ==
    \/ clock = 0 /\ Calculations /\ UNCHANGED nodeHealthVars
    \/ clock > 0 /\ NodeHealthNext /\ UNCHANGED <<round, sets, treeVars, prim>>

AlgorithmSpec == AlgorithmInit /\ [][AlgorithmNext]_algorithmVars
=============================================================================
