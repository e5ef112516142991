---------------------------- MODULE DecisionTree ----------------------------
(***************************************************************************)
(* CART decision trees: training, pruning and prediction                   *)
(* (crypto/core/machine_learning/decision_tree/classification).            *)
(*                                                                         *)
(* A tree is a function from paths (sequences of "l" and "r") to nodes.    *)
(* Training splits one open node at a time, the leftmost one, then prunes, *)
(* then checks the tree.  A data set is the set of its samples; nil and a  *)
(* set without features are the empty one.  Maps are traversed in any      *)
(* order, so that ties between values of a discrete feature and between    *)
(* labels are resolved nondeterministically.  Gini indices are compared as *)
(* fractions.                                                              *)
(***************************************************************************)
EXTENDS Integers, Sequences, FiniteSets, Functions

CONSTANT MaxDepth   \* bound: a tree this deep has used up the stack

VARIABLES
    job,    \* the call of Train: samples, features, conditions; or NoJob
    tree,
    state   \* "grow", "prune", "done", or how the call has failed

treeVars == <<job, tree, state>>

NoJob == [features |-> <<>>]
AllSamples == DOMAIN job.label
NoSplit == [on |-> 0, at |-> 0]

Children(path) == {Append(path, "l"), Append(path, "r")}

-----------------------------------------------------------------------------
(* The Gini index. *)

LabelsOf(S) == {job.label[s] : s \in S}
Count(S, l) == Cardinality({s \in S : job.label[s] = l})

\* |S| times the Gini index of S, as a fraction; nothing for an empty set.
calSingleDataSetsGini(S) ==
    LET n == Cardinality(S)
    IN  IF S = {} THEN <<0, 1>>
        ELSE <<n * n - SumFunction([l \in LabelsOf(S) |-> Count(S, l) * Count(S, l)]), n>>

\* |S| times the weighted index of two parts of S.
calMultiDataSetsGini(left, right) ==
    LET a == calSingleDataSetsGini(left)  b == calSingleDataSetsGini(right)
    IN  <<a[1] * b[2] + b[1] * a[2], a[2] * b[2]>>

Less(a, b) == a[1] * b[2] < b[1] * a[2]

\* The labels that most samples have; one of them is taken.
getMaxLabelType(S) == {l \in LabelsOf(S) : \A k \in LabelsOf(S) : Count(S, k) <= Count(S, l)}

-----------------------------------------------------------------------------
(* Splitting.  Twice the value of a continuous feature is compared. *)

Feature(f) == job.features[f]
ValuesOf(S, f) == {Feature(f).values[s] : s \in S}

GoesLeft(s, split) ==
    IF Feature(split.on).continuous THEN 2 * Feature(split.on).values[s] <= split.at
    ELSE Feature(split.on).values[s] = split.at

splitDataSetByFeature(S, split) == {s \in S : GoesLeft(s, split)}
GiniOf(S, split) ==
    LET left == splitDataSetByFeature(S, split) IN calMultiDataSetsGini(left, S \ left)

Neighbours(V) == {p \in V \X V : p[1] < p[2] /\ ~\E u \in V : p[1] < u /\ u < p[2]}

\* Means of neighbouring values, or every value.
AvailableSplits(S, f) ==
    IF Feature(f).continuous
    THEN {[on |-> f, at |-> p[1] + p[2]] : p \in Neighbours(ValuesOf(S, f))}
    ELSE {[on |-> f, at |-> v] : v \in ValuesOf(S, f)}

\* The first of the smallest for a continuous feature, any of them for a
\* discrete one.
findFeatureSplitValue(S, f) ==
    LET best == {c \in AvailableSplits(S, f) : \A d \in AvailableSplits(S, f) : ~Less(GiniOf(S, d), GiniOf(S, c))}
    IN  IF Feature(f).continuous
        THEN {c \in best : \A d \in best : c.at <= d.at} ELSE best

\* The first feature of the smallest index.
selectFeature(S) ==
    LET all == UNION {findFeatureSplitValue(S, f) : f \in DOMAIN job.features}
        best == {c \in all : \A d \in all : ~Less(GiniOf(S, d), GiniOf(S, c))}
    IN  IF all = {} THEN {NoSplit} ELSE {c \in best : \A d \in best : c.on <= d.on}

DepthReached(depth) == job.cond.depth # 0 /\ depth >= job.cond.depth

\* The results a new node may have as a leaf; none if it is to be split.
decideTerminate(S, father, depth) ==
    LET gini == calSingleDataSetsGini(S)
    IN  IF S = {} THEN getMaxLabelType(father)
        ELSE IF \/ Cardinality(LabelsOf(S)) = 1
                \/ Cardinality(S) <= job.cond.samples
                \/ DepthReached(depth)
                \/ ~Less(<<job.cond.gini[1] * Cardinality(S), job.cond.gini[2]>>, gini)
             THEN getMaxLabelType(S) ELSE {}

Open(S) == [kind |-> "open", set |-> S, split |-> NoSplit, result |-> ""]
Leaf(S, r) == [kind |-> "leaf", set |-> S, split |-> NoSplit, result |-> r]
Inner(S, c) == [kind |-> "inner", set |-> S, split |-> c, result |-> ""]

NewNodes(S, father, depth) ==
    LET results == decideTerminate(S, father, depth)
    IN  IF results = {} THEN {Open(S)} ELSE {Leaf(S, r) : r \in results}

-----------------------------------------------------------------------------
(* The order of a traversal: of two paths, the one further to the left. *)

LeftOf(p, q) ==
    \E i \in 1..Len(p) :
        /\ i <= Len(q) /\ SubSeq(p, 1, i - 1) = SubSeq(q, 1, i - 1)
        /\ p[i] = "l" /\ q[i] = "r"
Leftmost(P) == CHOOSE p \in P : \A q \in P \ {p} : LeftOf(p, q)

IsPrefixOf(p, q) == Len(p) <= Len(q) /\ SubSeq(q, 1, Len(p)) = p

isLeaf(t, p) == t[p].kind = "leaf"
Leaves(t) == {p \in DOMAIN t : isLeaf(t, p)}
countLeafNum(t) == Cardinality(Leaves(t))

\* Train: the root, a leaf already or to be split.
Train(jobs) ==
    /\ job = NoJob
    /\ job' \in jobs
    /\ \E root \in NewNodes(AllSamples, {}, 0)' : tree' = [p \in {<<>>} |-> root]
    /\ state' = "grow"

OpenPaths == {p \in DOMAIN tree : tree[p].kind = "open"}

\* splitTree: a node gets its split and its two children.
splitTree ==
    /\ state = "grow" /\ OpenPaths # {}
    /\ LET path == Leftmost(OpenPaths)
           S == tree[path].set
       IN  IF Len(path) = MaxDepth THEN state' = "overflow" /\ UNCHANGED tree
           ELSE /\ UNCHANGED state
                /\ \E c \in selectFeature(S) :
                     LET left == IF c = NoSplit THEN {} ELSE splitDataSetByFeature(S, c)
                         right == IF c = NoSplit THEN {} ELSE S \ left
                     IN  \E l \in NewNodes(left, S, Len(path) + 1), r \in NewNodes(right, S, Len(path) + 1) :
                           tree' = [p \in DOMAIN tree \cup Children(path) |->
                                      CASE p = path -> Inner(S, c)
                                        [] p = Append(path, "l") -> l
                                        [] p = Append(path, "r") -> r
                                        [] OTHER -> tree[p]]
    /\ UNCHANGED job

\* checkTree, and trimDataSet when it holds.
checkTree(t) == \A p \in DOMAIN t : t[p].kind = "inner" => t[p].split # NoSplit
trimDataSet(t) == [p \in DOMAIN t |-> [t[p] EXCEPT !.set = {}]]

Return ==
    IF checkTree(tree) THEN state' = "done" /\ tree' = trimDataSet(tree)
    ELSE state' = "invalid" /\ UNCHANGED tree

\* All nodes are there: prune, or return the tree.  A leaf without samples has
\* no data set to calculate a cost with.
Grown ==
    /\ state = "grow" /\ OpenPaths = {}
    /\ IF job.reg[1] = 0 THEN Return
       ELSE /\ state' = IF \E p \in Leaves(tree) : tree[p].set = {} THEN "panic" ELSE "prune"
            /\ UNCHANGED tree
    /\ UNCHANGED job

-----------------------------------------------------------------------------
(* Pruning. *)

calculateLeafCost(t) ==
    SumFunction([p \in Leaves(t) |-> Cardinality({s \in t[p].set : job.label[s] # t[p].result})])

\* In parts of the samples and of the denominator of regParam.
calculateCost(t) ==
    calculateLeafCost(t) * job.reg[2] + job.reg[1] * Cardinality(AllSamples) * countLeafNum(t)

findTargetNodesToPrune(t) ==
    {p \in DOMAIN t : t[p].kind = "inner" /\ \A c \in Children(p) : isLeaf(t, c)}

\* The trees without what is below the topmost node that has the samples of the
\* target.
pruneNode(t, target) ==
    LET same == {p \in DOMAIN t : t[p].kind = "inner" /\ t[p].set = t[target].set}
        top == CHOOSE p \in same : \A q \in same : Len(p) <= Len(q)
        kept == {p \in DOMAIN t : p = top \/ ~IsPrefixOf(top, p)}
    IN  {[p \in kept |-> IF p = top THEN Leaf(t[top].set, r) ELSE t[p]] : r \in getMaxLabelType(t[top].set)}

Pays(old, new) == calculateCost(new) <= calculateCost(old)

\* The first target that pays is pruned; without one the tree is returned.
prune ==
    /\ state = "prune"
    /\ LET targets == {p \in findTargetNodesToPrune(tree) : \E t \in pruneNode(tree, p) : Pays(tree, t)}
       IN  IF targets = {} THEN Return
           ELSE tree' \in pruneNode(tree, Leftmost(targets)) /\ UNCHANGED state
    /\ UNCHANGED job

-----------------------------------------------------------------------------
(* Prediction: the leaf a sample is led to by the tests of the nodes above. *)

\* Mutant of ChoosesLeft: a continuous value is compared as a discrete one is.
ChoosesLeft_equal(s, split) == Feature(split.on).values[s] = split.at

\* The node remembers whether its feature is continuous.
ChoosesLeft(s, split) ==
    LET v == Feature(split.on).values[s]
    IN  \/ Feature(split.on).continuous /\ 2 * v <= split.at
        \/ ~Feature(split.on).continuous /\ v = split.at

LedTo(s, path) ==
    \A i \in 1..Len(path) :
        LET node == tree[SubSeq(path, 1, i - 1)]
        IN  node.kind = "inner" /\ (path[i] = "l" <=> ChoosesLeft(s, node.split))

Predict(s) == tree[CHOOSE p \in Leaves(tree) : LedTo(s, p)].result

TreeInit == job = NoJob /\ tree = <<>> /\ state = "idle"
Growing == splitTree \/ Grown \/ prune

-----------------------------------------------------------------------------
(***************************************************************************)
(* Properties.                                                             *)
(***************************************************************************)

\* While the tree is built, every sample is in one of the nodes that have no
\* children, and it is the one that prediction would lead it to (Predict).
SamplesFollowTests ==
    (state \in {"grow", "prune"} /\ checkTree(tree)) =>
        LET ends == {p \in DOMAIN tree : tree[p].kind # "inner"}
        IN  \A s \in AllSamples :
               /\ Cardinality({p \in ends : s \in tree[p].set}) = 1
               /\ \A p \in ends : s \in tree[p].set <=> LedTo(s, p)

\* Without thresholds and without pruning, a tree that is returned predicts
\* every sample it was trained with correctly.
TrainedExactly ==
    (state = "done" /\ job.reg[1] = 0 /\ job.cond = [samples |-> 0, depth |-> 0, gini |-> <<0, 1>>]) =>
        \A s \in AllSamples : Predict(s) = job.label[s]

\* Training only runs away where it has no depth threshold and comes to samples
\* of several labels that no split of any feature tells apart better: there a
\* discrete feature of one value may be "split" for ever.
OverflowExplained ==
    state = "overflow" =>
        /\ job.cond.depth = 0
        /\ \E p \in DOMAIN tree :
              /\ tree[p].kind = "inner" /\ {tree[c].set : c \in Children(p)} = {tree[p].set, {}}
              /\ \A f \in DOMAIN job.features : \A c \in AvailableSplits(tree[p].set, f) :
                    ~Less(GiniOf(tree[p].set, c), calSingleDataSetsGini(tree[p].set))

\* The call fails for the lack of a split only if samples of different labels
\* agree in every feature.
InvalidExplained ==
    state = "invalid" =>
        \E s, o \in AllSamples :
            /\ job.label[s] # job.label[o]
            /\ \A f \in DOMAIN job.features : Feature(f).values[s] = Feature(f).values[o]

\* A tree fits its samples: they are where prediction leads them to, it is exact
\* when nothing stops it earlier, and where training fails the samples are why.
TreeMatches == SamplesFollowTests /\ TrainedExactly /\ OverflowExplained /\ InvalidExplained
=============================================================================
