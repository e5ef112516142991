------------------------ MODULE WritePipeline_proofs -------------------------
(***************************************************************************)
(* Proofs about the write pipeline, for any file, any nodes, any number of *)
(* workers, any capacity of the channels and any failures of pushes.       *)
(***************************************************************************)
EXTENDS WritePipeline, FiniteSetTheorems, TLAPS

-----------------------------------------------------------------------------
(***************************************************************************)
(* Sequences.                                                              *)
(***************************************************************************)

LEMMA Appended ==
    ASSUME NEW S, NEW q \in Seq(S), NEW x \in S
    PROVE  /\ Append(q, x) \in Seq(S) /\ Len(Append(q, x)) = Len(q) + 1
           /\ DOMAIN Append(q, x) = DOMAIN q \cup {Len(q) + 1}
           /\ \A i \in DOMAIN q : Append(q, x)[i] = q[i]
           /\ Append(q, x)[Len(q) + 1] = x /\ Len(q) + 1 \notin DOMAIN q
  OBVIOUS

LEMMA Taken ==
    ASSUME NEW S, NEW q \in Seq(S), q # << >>
    PROVE  /\ Tail(q) \in Seq(S) /\ Len(Tail(q)) = Len(q) - 1 /\ Len(q) \in Nat \ {0}
           /\ Head(q) \in S /\ Head(q) = q[1] /\ 1 \in DOMAIN q
           /\ \A i \in DOMAIN Tail(q) : i \in Nat \ {0} /\ i + 1 \in DOMAIN q /\ Tail(q)[i] = q[i + 1]
           /\ \A i \in DOMAIN q : i = 1 \/ (i - 1 \in DOMAIN Tail(q) /\ Tail(q)[i - 1] = q[i])
  OBVIOUS

LEMMA Joined ==
    ASSUME NEW S, NEW q \in Seq(S), NEW t \in Seq(S)
    PROVE  /\ q \o t \in Seq(S) /\ Len(q \o t) = Len(q) + Len(t)
           /\ \A i \in DOMAIN q : i \in DOMAIN (q \o t) /\ (q \o t)[i] = q[i]
           /\ \A i \in DOMAIN t : Len(q) + i \in DOMAIN (q \o t) /\ (q \o t)[Len(q) + i] = t[i]
           /\ \A i \in DOMAIN (q \o t) : i \in DOMAIN q \/ (i - Len(q) \in DOMAIN t /\ i \notin DOMAIN q)
  OBVIOUS

LEMMA SetAsSequence ==
    ASSUME NEW S, IsFiniteSet(S)
    PROVE  SetToSeq(S) \in Seq(S) /\ IsInjective(SetToSeq(S)) /\ Range(SetToSeq(S)) = S
  <1>1. PICK n \in Nat : ExistsBijection(1..n, S)
    BY FS_NatBijection
  <1>2. PICK f \in Bijection(1..n, S) : TRUE
    BY <1>1 DEF ExistsBijection
  <1>3. n = Cardinality(S)
    BY <1>1, FS_CountingElements
  <1>4. f \in [1..Cardinality(S) -> S] /\ IsInjective(f)
    BY <1>2, <1>3 DEF Bijection, Injection, IsInjective
  <1>5. PICK g : g = SetToSeq(S)
    OBVIOUS
  <1>6. g \in [1..Cardinality(S) -> S] /\ IsInjective(g)
    BY <1>4, <1>5 DEF SetToSeq
  <1>7. g \in Seq(S)
    BY <1>3, <1>6
  <1>8. Range(g) = S
    <2>1. g \in Bijection(1..Cardinality(S), Range(g))
      BY <1>6 DEF Bijection, Injection, Surjection, IsInjective, Range
    <2>2. IsFiniteSet(Range(g)) /\ Cardinality(Range(g)) = Cardinality(S)
      BY <1>3, <2>1, FS_CountingElements, FS_NatBijection DEF ExistsBijection
    <2>3. Range(g) \subseteq S
      BY <1>6 DEF Range
    <2> QED
      BY <2>2, <2>3, FS_Subset
  <1> QED
    BY <1>5, <1>6, <1>7, <1>8

LEMMA RangeOfAppend ==
    ASSUME NEW S, NEW q \in Seq(S), NEW x \in S
    PROVE  /\ Range(Append(q, x)) = Range(q) \cup {x}
           /\ IsInjective(q) /\ x \notin Range(q) => IsInjective(Append(q, x))
  BY Appended DEF Range, IsInjective

LEMMA RangeOfTail ==
    ASSUME NEW S, NEW q \in Seq(S), q # << >>
    PROVE  /\ Range(q) = Range(Tail(q)) \cup {Head(q)}
           /\ IsInjective(q) => IsInjective(Tail(q)) /\ Head(q) \notin Range(Tail(q))
  <1>1. Range(q) = Range(Tail(q)) \cup {Head(q)}
    <2>1. \A i \in DOMAIN q : q[i] \in Range(Tail(q)) \cup {Head(q)}
      <3> SUFFICES ASSUME NEW i \in DOMAIN q, i # 1 PROVE q[i] \in Range(Tail(q))
        BY Taken
      <3>1. i - 1 \in DOMAIN Tail(q) /\ Tail(q)[i - 1] = q[i]
        BY Taken
      <3> QED
        BY <3>1 DEF Range
    <2>2. \A i \in DOMAIN Tail(q) : Tail(q)[i] \in Range(q)
      <3> TAKE i \in DOMAIN Tail(q)
      <3>1. i + 1 \in DOMAIN q /\ Tail(q)[i] = q[i + 1]
        BY Taken
      <3> QED
        BY <3>1 DEF Range
    <2>3. Head(q) \in Range(q)
      BY Taken DEF Range
    <2>4. \A x \in Range(q) : x \in Range(Tail(q)) \cup {Head(q)}
      BY <2>1 DEF Range
    <2>5. \A x \in Range(Tail(q)) : x \in Range(q)
      BY <2>2 DEF Range
    <2> QED
      BY <2>3, <2>4, <2>5
  <1>2. ASSUME IsInjective(q) PROVE IsInjective(Tail(q)) /\ Head(q) \notin Range(Tail(q))
    <2>1. \A i \in DOMAIN Tail(q) : i \in Nat \ {0} /\ i + 1 \in DOMAIN q /\ Tail(q)[i] = q[i + 1]
      BY Taken
    <2>2. Head(q) = q[1] /\ 1 \in DOMAIN q
      BY Taken
    <2>3. IsInjective(Tail(q))
      <3> SUFFICES ASSUME NEW a \in DOMAIN Tail(q), NEW b \in DOMAIN Tail(q), Tail(q)[a] = Tail(q)[b]
                   PROVE  a = b
        BY DEF IsInjective
      <3>1. q[a + 1] = q[b + 1]
        BY <2>1
      <3>2. a + 1 = b + 1
        BY <1>2, <2>1, <3>1 DEF IsInjective
      <3> QED
        BY <2>1, <3>2
    <2>4. Head(q) \notin Range(Tail(q))
      <3> SUFFICES ASSUME NEW a \in DOMAIN Tail(q), Tail(q)[a] = Head(q) PROVE FALSE
        BY DEF Range
      <3>1. a + 1 = 1
        BY <1>2, <2>1, <2>2 DEF IsInjective
      <3> QED
        BY <2>1, <3>1
    <2> QED
      BY <2>3, <2>4
  <1> QED
    BY <1>1, <1>2

LEMMA RangeOfJoin ==
    ASSUME NEW S, NEW q \in Seq(S), NEW t \in Seq(S)
    PROVE  /\ Range(q \o t) = Range(q) \cup Range(t)
           /\ IsInjective(q) /\ IsInjective(t) /\ Range(q) \cap Range(t) = {} => IsInjective(q \o t)
  <1>1. /\ \A i \in DOMAIN q : i \in DOMAIN (q \o t) /\ (q \o t)[i] = q[i]
        /\ \A i \in DOMAIN t : Len(q) + i \in DOMAIN (q \o t) /\ (q \o t)[Len(q) + i] = t[i]
        /\ \A i \in DOMAIN (q \o t) : i \in DOMAIN q \/ (i - Len(q) \in DOMAIN t /\ i \notin DOMAIN q)
        /\ \A i \in DOMAIN (q \o t) : i \in Nat
        /\ Len(q) \in Nat
    BY Joined
  <1>2. \A i \in DOMAIN (q \o t) : \/ i \in DOMAIN q /\ (q \o t)[i] = q[i]
                                   \/ i - Len(q) \in DOMAIN t /\ (q \o t)[i] = t[i - Len(q)]
    <2> SUFFICES ASSUME NEW i \in DOMAIN (q \o t), i \notin DOMAIN q
                 PROVE  i - Len(q) \in DOMAIN t /\ (q \o t)[i] = t[i - Len(q)]
      BY <1>1
    <2>1. i - Len(q) \in DOMAIN t /\ Len(q) + (i - Len(q)) = i
      BY <1>1
    <2> QED
      BY <1>1, <2>1
  <1>3. Range(q \o t) = Range(q) \cup Range(t)
    <2>1. \A x \in Range(q \o t) : x \in Range(q) \cup Range(t)
      BY <1>2 DEF Range
    <2>2. \A x \in Range(q) : x \in Range(q \o t)
      BY <1>1 DEF Range
    <2>3. \A x \in Range(t) : x \in Range(q \o t)
      BY <1>1 DEF Range
    <2> QED
      BY <2>1, <2>2, <2>3
  <1>4. ASSUME IsInjective(q), IsInjective(t), Range(q) \cap Range(t) = {} PROVE IsInjective(q \o t)
    <2> SUFFICES ASSUME NEW a \in DOMAIN (q \o t), NEW b \in DOMAIN (q \o t), (q \o t)[a] = (q \o t)[b]
                 PROVE  a = b
      BY DEF IsInjective
    <2>1. CASE a \in DOMAIN q /\ b \in DOMAIN q
      BY <1>1, <1>4, <2>1 DEF IsInjective
    <2>2. CASE a \notin DOMAIN q /\ b \notin DOMAIN q
      <3>1. a - Len(q) = b - Len(q)
        BY <1>2, <1>4, <2>2 DEF IsInjective
      <3> QED
        BY <1>1, <3>1
    <2>3. CASE a \in DOMAIN q /\ b \notin DOMAIN q
      <3>1. (q \o t)[a] = q[a] /\ (q \o t)[b] = t[b - Len(q)] /\ b - Len(q) \in DOMAIN t
        BY <1>1, <1>2, <2>3
      <3>2. q[a] \in Range(q)
        BY <2>3 DEF Range
      <3>3. t[b - Len(q)] \in Range(t)
        BY <3>1 DEF Range
      <3> QED
        BY <1>4, <3>1, <3>2, <3>3
    <2>4. CASE a \notin DOMAIN q /\ b \in DOMAIN q
      <3>1. (q \o t)[b] = q[b] /\ (q \o t)[a] = t[a - Len(q)] /\ a - Len(q) \in DOMAIN t
        BY <1>1, <1>2, <2>4
      <3>2. q[b] \in Range(q)
        BY <2>4 DEF Range
      <3>3. t[a - Len(q)] \in Range(t)
        BY <3>1 DEF Range
      <3> QED
        BY <1>4, <3>1, <3>2, <3>3
    <2> QED
      BY <2>1, <2>2, <2>3, <2>4
  <1> QED
    BY <1>3, <1>4

-----------------------------------------------------------------------------
(***************************************************************************)
(* Types.  The shape of the file never changes, so neither do the sets     *)
(* built from it.                                                          *)
(***************************************************************************)

\* The choices of nodes for a slice.
Places == {S \in SUBSET Nodes : Cardinality(S) = Replica}
LoopRec == [left : Int, reader : Content, at : {"run", "ok", "failed"}]

PipeTyped ==
    /\ shape \in Shapes
    /\ cut \in Nat
    /\ sliceQ \in Seq(SliceNos) /\ metaQ \in Seq(SliceNos) /\ metas \in Seq(SliceNos) /\ locQ \in Seq(SliceNos)
    /\ locatedQ \in Seq(SliceNos \X Places)
    /\ encQ \in Seq(Copies) /\ encryptedQ \in Seq(Copies)

PushTyped ==
    /\ pool \in [Stages -> Int]
    /\ stuck \in SUBSET Copies /\ finished \in SUBSET Copies /\ failedQ \in SUBSET Copies
    /\ failedTwice \in SUBSET Copies /\ moving \in SUBSET Copies
    /\ DOMAIN retrying \in SUBSET Copies
    /\ \A c \in DOMAIN retrying : retrying[c] \in LoopRec
    /\ stored \in [Copies -> Content]

Typed == PipeTyped /\ PushTyped

LEMMA SameFile ==
    ASSUME [Next]_vars
    PROVE  /\ shape' = shape /\ NSlices' = NSlices /\ Replica' = Replica
           /\ SliceNos' = SliceNos /\ Copies' = Copies /\ Places' = Places
  <1>1. shape' = shape
    BY DEF Next, System, Pipeline, Pushing, vars, restVars, Slice, Feed, FeedEnds, CollectMeta,
           Locate, FeedCopies, Encrypt, EncryptFails, Return, ClientLeaves, Distribute, StartRetry,
           Retry, RetryTimeout, RetryEnds, OtherBegin, OtherPush, OtherFails, Publish, GiveUp, Done
  <1> QED
    BY <1>1 DEF NSlices, Replica, SliceNos, Copies, Places

LEMMA TypedInit ==
    ASSUME Init PROVE Typed
  <1>1. PipeTyped
    BY DEF Init, PipeTyped
  <1>2. PushTyped
    BY PipelineAssumption DEF Init, PushTyped, Content
  <1> QED
    BY <1>1, <1>2 DEF Typed

LEMMA ShapeFacts ==
    ASSUME shape \in Shapes
    PROVE  /\ NSlices \in Nat \ {0} /\ Replica \in Nat \ {0} /\ Replica <= Cardinality(Nodes)
           /\ SliceNos \subseteq Nat \ {0}
  BY PipelineAssumption, FS_CardinalityType DEF NSlices, Replica, SliceNos

LEMMA SelectPlaces ==
    ASSUME NEW S \in Select PROVE S \in Places
  BY DEF Select, Places

\* A copy per chosen node.
LEMMA CopiesOfSlice ==
    ASSUME NEW x \in SliceNos \X Places
    PROVE  /\ {x[1]} \X x[2] \subseteq Copies
           /\ SetToSeq({x[1]} \X x[2]) \in Seq(Copies) /\ IsInjective(SetToSeq({x[1]} \X x[2]))
           /\ Range(SetToSeq({x[1]} \X x[2])) = {x[1]} \X x[2]
  <1>1. {x[1]} \X x[2] \subseteq Copies
    BY DEF Copies, Places
  <1>2. IsFiniteSet({x[1]} \X x[2])
    <2>1. IsFiniteSet(x[2])
      BY PipelineAssumption, FS_Subset DEF Places
    <2>2. IsFiniteSet({x[1]})
      BY FS_Singleton
    <2> QED
      BY <2>1, <2>2, FS_Product
  <1>3. /\ SetToSeq({x[1]} \X x[2]) \in Seq({x[1]} \X x[2])
        /\ IsInjective(SetToSeq({x[1]} \X x[2]))
        /\ Range(SetToSeq({x[1]} \X x[2])) = {x[1]} \X x[2]
    BY <1>2, SetAsSequence
  <1>4. SetToSeq({x[1]} \X x[2]) \in Seq(Copies)
    BY <1>1, <1>3
  <1> QED
    BY <1>1, <1>3, <1>4

LEMMA PushKeepsContent ==
    ASSUME PushTyped, NEW c \in Copies, NEW sent \in Content, NEW o \in Outcomes, Push(c, sent, o)
    PROVE  /\ stored' \in [Copies -> Content]
           /\ stored'[c] = Kept(c, sent, o)
           /\ \A d \in Copies \ {c} : stored'[d] = stored[d]
  <1>1. Kept(c, sent, o) \in Content
    BY DEF Kept, PushTyped, Content, Outcomes
  <1> QED
    BY <1>1 DEF Push, PushTyped

LEMMA TypedStep ==
    ASSUME Typed, [Next]_vars PROVE Typed'
  <1> USE DEF Typed
  <1>0. /\ SliceNos' = SliceNos /\ Copies' = Copies /\ Places' = Places /\ shape' = shape
        /\ SliceNos \subseteq Nat \ {0}
    BY SameFile, ShapeFacts DEF PipeTyped
  <1> SUFFICES PipeTyped' /\ PushTyped'
    OBVIOUS
  <1>1. CASE UNCHANGED vars
    BY <1>0, <1>1 DEF vars, pipeVars, otherVars, pushVars, PipeTyped, PushTyped
  <1>2. CASE Slice
    <2>1. PushTyped'
      BY <1>0, <1>2 DEF Slice, restVars, otherVars, pushVars, PushTyped
    <2>2. cut' \in Nat /\ sliceQ' \in Seq(SliceNos)
      <3>1. CASE cut < NSlices /\ cut' = cut + 1 /\ sliceQ' = Append(sliceQ, cut')
        <4>1. cut' \in SliceNos
          <5>1. NSlices \in Nat /\ cut \in Nat
            BY ShapeFacts DEF PipeTyped
          <5> QED
            BY <3>1, <5>1 DEF SliceNos
        <4> QED
          BY <3>1, <4>1 DEF PipeTyped
      <3>2. CASE UNCHANGED <<cut, sliceQ>>
        BY <3>2 DEF PipeTyped
      <3> QED
        BY <1>2, <3>1, <3>2 DEF Slice
    <2> QED
      BY <1>0, <1>2, <2>1, <2>2 DEF Slice, PipeTyped, restVars
  <1>3. CASE Feed
    <2>1. PushTyped'
      BY <1>0, <1>3 DEF Feed, restVars, otherVars, pushVars, PushTyped
    <2>2. sliceQ \in Seq(SliceNos) /\ sliceQ # << >>
      BY <1>3 DEF PipeTyped, Feed
    <2>3. Head(sliceQ) \in SliceNos /\ Tail(sliceQ) \in Seq(SliceNos)
      BY <2>2, Taken
    <2> QED
      BY <1>0, <1>3, <2>1, <2>3 DEF Feed, PipeTyped, restVars
  <1>4. CASE FeedEnds
    BY <1>0, <1>4 DEF FeedEnds, restVars, otherVars, pushVars, PipeTyped, PushTyped
  <1>5. CASE CollectMeta
    <2>1. PushTyped'
      BY <1>0, <1>5 DEF CollectMeta, restVars, otherVars, pushVars, PushTyped
    <2>2. metaQ \in Seq(SliceNos) /\ metaQ # << >>
      BY <1>5 DEF PipeTyped, CollectMeta
    <2>3. Head(metaQ) \in SliceNos /\ Tail(metaQ) \in Seq(SliceNos)
      BY <2>2, Taken
    <2> QED
      BY <1>0, <1>5, <2>1, <2>3 DEF CollectMeta, PipeTyped, restVars
  <1>6. CASE Locate
    <2>1. PushTyped'
      BY <1>0, <1>6 DEF Locate, restVars, otherVars, pushVars, PushTyped
    <2>2. locQ \in Seq(SliceNos) /\ locQ # << >>
      BY <1>6 DEF PipeTyped, Locate
    <2>3. Head(locQ) \in SliceNos /\ Tail(locQ) \in Seq(SliceNos)
      BY <2>2, Taken
    <2>4. PICK S \in Select : locatedQ' = Append(locatedQ, <<Head(locQ), S>>)
      BY <1>6 DEF Locate
    <2>5. <<Head(locQ), S>> \in SliceNos \X Places
      BY <2>3, SelectPlaces
    <2>6. locatedQ' \in Seq(SliceNos \X Places)
      BY <2>4, <2>5 DEF PipeTyped
    <2> QED
      BY <1>0, <1>6, <2>1, <2>3, <2>6 DEF Locate, PipeTyped, restVars
  <1>7. CASE FeedCopies
    <2>1. PushTyped'
      BY <1>0, <1>7 DEF FeedCopies, restVars, otherVars, pushVars, PushTyped
    <2>2. encQ' \in Seq(Copies) /\ locatedQ' \in Seq(SliceNos \X Places)
      <3>1. CASE UNCHANGED <<encQ, locatedQ>>
        BY <3>1 DEF PipeTyped
      <3>2. CASE /\ locatedQ # << >>
                 /\ encQ' = encQ \o SetToSeq({Head(locatedQ)[1]} \X Head(locatedQ)[2])
                 /\ locatedQ' = Tail(locatedQ)
        <4>1. Head(locatedQ) \in SliceNos \X Places /\ Tail(locatedQ) \in Seq(SliceNos \X Places)
          BY <3>2, Taken DEF PipeTyped
        <4>2. SetToSeq({Head(locatedQ)[1]} \X Head(locatedQ)[2]) \in Seq(Copies)
          BY <4>1, CopiesOfSlice
        <4>3. encQ \in Seq(Copies)
          BY DEF PipeTyped
        <4>4. encQ \o SetToSeq({Head(locatedQ)[1]} \X Head(locatedQ)[2]) \in Seq(Copies)
          BY <4>2, <4>3, Joined
        <4> QED
          BY <3>2, <4>1, <4>4
      <3> QED
        BY <1>7, <3>1, <3>2 DEF FeedCopies
    <2> QED
      BY <1>0, <1>7, <2>1, <2>2 DEF FeedCopies, PipeTyped, restVars
  <1>8. CASE Encrypt
    <2>1. PushTyped'
      BY <1>0, <1>8 DEF Encrypt, restVars, otherVars, pushVars, PushTyped
    <2>2. encQ \in Seq(Copies) /\ encQ # << >>
      BY <1>8 DEF PipeTyped, Encrypt
    <2>3. Head(encQ) \in Copies /\ Tail(encQ) \in Seq(Copies)
      BY <2>2, Taken
    <2> QED
      BY <1>0, <1>8, <2>1, <2>3 DEF Encrypt, PipeTyped, restVars
  <1>9. CASE EncryptFails
    <2>1. PushTyped'
      BY <1>0, <1>9 DEF EncryptFails, otherVars, PushTyped, Stages
    <2>2. encQ \in Seq(Copies) /\ encQ # << >>
      BY <1>9 DEF PipeTyped, EncryptFails
    <2>3. Tail(encQ) \in Seq(Copies)
      BY <2>2, Taken
    <2> QED
      BY <1>0, <1>9, <2>1, <2>3 DEF EncryptFails, PipeTyped
  <1>10. ASSUME NEW s \in Stages, Return(s) PROVE PipeTyped' /\ PushTyped'
    <2>1. pool' \in [Stages -> Int]
      BY <1>10 DEF Return, PushTyped
    <2> QED
      BY <1>0, <1>10, <2>1 DEF Return, pipeVars, otherVars, pushVars, PipeTyped, PushTyped
  <1>11. CASE ClientLeaves
    BY <1>0, <1>11 DEF ClientLeaves, pipeVars, otherVars, pushVars, PipeTyped, PushTyped
  <1>12. ASSUME NEW o \in Outcomes, Distribute(o) PROVE PipeTyped' /\ PushTyped'
    <2>1. encryptedQ \in Seq(Copies) /\ encryptedQ # << >>
      BY <1>12 DEF PipeTyped, Distribute
    <2>2. Head(encryptedQ) \in Copies /\ Tail(encryptedQ) \in Seq(Copies)
      BY <2>1, Taken
    <2>3. stored' \in [Copies -> Content]
      BY <1>12, <2>2, PushKeepsContent DEF Distribute, Content
    <2>4. finished' \in SUBSET Copies /\ failedQ' \in SUBSET Copies /\ stuck' \in SUBSET Copies
      BY <1>12, <2>2 DEF Distribute, PushTyped
    <2> QED
      BY <1>0, <1>12, <2>2, <2>3, <2>4 DEF Distribute, otherVars, PipeTyped, PushTyped
  <1>13. CASE StartRetry
    <2>1. pool' \in [Stages -> Int]
      BY <1>13 DEF StartRetry
    <2>2. DOMAIN retrying' \in SUBSET Copies /\ \A c \in DOMAIN retrying' : retrying'[c] \in LoopRec
      BY <1>13, PipelineAssumption DEF StartRetry, LoopRec, Content, PushTyped
    <2> QED
      BY <1>0, <1>13, <2>1, <2>2 DEF StartRetry, otherVars, pushVars, PipeTyped, PushTyped
  <1>14. ASSUME NEW c \in Copies, NEW o \in Outcomes, Retry(c, o) PROVE PipeTyped' /\ PushTyped'
    <2>1. c \in DOMAIN retrying /\ retrying[c] \in LoopRec
      BY <1>14 DEF Retry, Loops, PushTyped
    <2>2. stored' \in [Copies -> Content]
      BY <1>14, <2>1, PushKeepsContent DEF Retry, LoopRec
    <2>3. finished' \in SUBSET Copies
      BY <1>14 DEF Retry, PushTyped
    <2>4. DOMAIN retrying' = DOMAIN retrying
      BY <1>14 DEF Retry
    <2>5. \A d \in DOMAIN retrying' : retrying'[d] \in LoopRec
      BY <1>14, <2>1, <2>4 DEF Retry, PushTyped, LoopRec, Content, ReaderAfter
    <2> QED
      BY <1>0, <1>14, <2>2, <2>3, <2>4, <2>5 DEF Retry, pipeVars, otherVars, PipeTyped, PushTyped
  <1>15. ASSUME NEW c \in Copies, RetryTimeout(c) PROVE PipeTyped' /\ PushTyped'
    <2>1. c \in DOMAIN retrying /\ retrying[c] \in LoopRec
      BY <1>15 DEF RetryTimeout, Loops, PushTyped
    <2>2. DOMAIN retrying' = DOMAIN retrying
      BY <1>15 DEF RetryTimeout
    <2>3. \A d \in DOMAIN retrying' : retrying'[d] \in LoopRec
      BY <1>15, <2>1, <2>2 DEF RetryTimeout, PushTyped, LoopRec
    <2> QED
      BY <1>0, <1>15, <2>2, <2>3 DEF RetryTimeout, pipeVars, pushVars, PipeTyped, PushTyped
  <1>16. CASE RetryEnds
    BY <1>0, <1>16 DEF RetryEnds, pipeVars, pushVars, PipeTyped, PushTyped
  <1>17. ASSUME NEW c \in Copies, OtherBegin(c) PROVE PipeTyped' /\ PushTyped'
    BY <1>0, <1>17 DEF OtherBegin, pipeVars, pushVars, PipeTyped, PushTyped
  <1>18. ASSUME NEW c \in Copies, NEW n \in Nodes, NEW o \in Outcomes, OtherPush(c, n, o)
         PROVE  PipeTyped' /\ PushTyped'
    <2>1. <<c[1], n>> \in Copies
      BY DEF Copies
    <2>2. stored' \in [Copies -> Content]
      BY <1>18, <2>1, PushKeepsContent DEF OtherPush, Content
    <2>3. finished' \in SUBSET Copies /\ failedTwice' \in SUBSET Copies /\ moving' \in SUBSET Copies
      BY <1>18, <2>1 DEF OtherPush, PushTyped
    <2> QED
      BY <1>0, <1>18, <2>2, <2>3 DEF OtherPush, pipeVars, PipeTyped, PushTyped
  <1>19. CASE OtherFails \/ Publish \/ GiveUp
    BY <1>0, <1>19 DEF OtherFails, Publish, GiveUp, pipeVars, otherVars, pushVars, PipeTyped, PushTyped
  <1> QED
    BY <1>1, <1>2, <1>3, <1>4, <1>5, <1>6, <1>7, <1>8, <1>9, <1>10, <1>11, <1>12, <1>13, <1>14, <1>15,
       <1>16, <1>17, <1>18, <1>19 DEF Next, System, Pipeline, Pushing, Done

-----------------------------------------------------------------------------
(***************************************************************************)
(* Order: metas, metaQ and sliceQ in a row are the slices 1..cut.          *)
(***************************************************************************)

OrderInv ==
    /\ cut = Len(metas) + Len(metaQ) + Len(sliceQ)
    /\ \A i \in DOMAIN metas : metas[i] = i
    /\ \A i \in DOMAIN metaQ : metaQ[i] = Len(metas) + i
    /\ \A i \in DOMAIN sliceQ : sliceQ[i] = Len(metas) + Len(metaQ) + i
    /\ StructureInOrder

LEMMA OrderInit ==
    ASSUME Init PROVE OrderInv
  <1>1. cut = 0 /\ metas = << >> /\ metaQ = << >> /\ sliceQ = << >> /\ structure = << >>
    BY DEF Init
  <1>2. Len(metas) = 0 /\ Len(metaQ) = 0 /\ Len(sliceQ) = 0
    BY <1>1
  <1>3. DOMAIN metas = {} /\ DOMAIN metaQ = {} /\ DOMAIN sliceQ = {} /\ DOMAIN structure = {}
    BY <1>1
  <1>4. cut = Len(metas) + Len(metaQ) + Len(sliceQ)
    BY <1>1, <1>2
  <1> QED
    BY <1>3, <1>4 DEF OrderInv, StructureInOrder

LEMMA OrderStep ==
    ASSUME Typed, OrderInv, [Next]_vars PROVE OrderInv'
  <1>1. /\ SliceNos \subseteq Nat \ {0}
        /\ sliceQ \in Seq(SliceNos) /\ metaQ \in Seq(SliceNos) /\ metas \in Seq(SliceNos)
        /\ Len(sliceQ) \in Nat /\ Len(metaQ) \in Nat /\ Len(metas) \in Nat
    BY ShapeFacts DEF Typed, PipeTyped
  <1>2. CASE UNCHANGED <<cut, metas, metaQ, sliceQ, structure>>
    BY <1>2 DEF OrderInv, StructureInOrder
  <1>3. CASE Slice
    <2>1. CASE cut' = cut + 1 /\ sliceQ' = Append(sliceQ, cut')
      <3>1. UNCHANGED <<metas, metaQ, structure>> /\ cut + 1 \in SliceNos
        <4>1. cut + 1 \in SliceNos
          <5>1. sliceQ' \in Seq(SliceNos) /\ sliceQ' = Append(sliceQ, cut + 1)
            BY <2>1, TypedStep, SameFile DEF Typed, PipeTyped
          <5>2. Len(sliceQ') = Len(sliceQ) + 1 /\ sliceQ'[Len(sliceQ) + 1] = cut + 1
            BY <1>1, <5>1
          <5> QED
            BY <1>1, <5>1, <5>2
        <4> QED
          BY <1>3, <4>1 DEF Slice, restVars
      <3>2. /\ Len(sliceQ') = Len(sliceQ) + 1 /\ DOMAIN sliceQ' = DOMAIN sliceQ \cup {Len(sliceQ) + 1}
            /\ \A i \in DOMAIN sliceQ : sliceQ'[i] = sliceQ[i]
            /\ sliceQ'[Len(sliceQ) + 1] = cut + 1
        BY <1>1, <2>1, <3>1, Appended
      <3>3. \A i \in DOMAIN sliceQ' : sliceQ'[i] = Len(metas') + Len(metaQ') + i
        <4> TAKE i \in DOMAIN sliceQ'
        <4>1. CASE i \in DOMAIN sliceQ
          BY <3>1, <3>2, <4>1 DEF OrderInv
        <4>2. CASE i = Len(sliceQ) + 1
          BY <1>1, <3>1, <3>2, <4>2 DEF OrderInv
        <4> QED
          BY <3>2, <4>1, <4>2
      <3>4. cut' = Len(metas') + Len(metaQ') + Len(sliceQ')
        BY <1>1, <2>1, <3>1, <3>2 DEF OrderInv
      <3> QED
        BY <3>1, <3>3, <3>4 DEF OrderInv, StructureInOrder
    <2>2. CASE UNCHANGED <<cut, sliceQ>>
      BY <1>2, <1>3, <2>2 DEF Slice, restVars
    <2> QED
      BY <1>3, <2>1, <2>2 DEF Slice
  <1>4. CASE Feed
    <2>1. /\ sliceQ # << >> /\ metaQ' = Append(metaQ, Head(sliceQ)) /\ sliceQ' = Tail(sliceQ)
          /\ UNCHANGED <<cut, metas, structure>>
      BY <1>4 DEF Feed, restVars
    <2>2. /\ Len(sliceQ') = Len(sliceQ) - 1 /\ 1 \in DOMAIN sliceQ
          /\ Head(sliceQ) = sliceQ[1] /\ Head(sliceQ) \in SliceNos
          /\ \A i \in DOMAIN sliceQ' : i \in Nat \ {0} /\ i + 1 \in DOMAIN sliceQ /\ sliceQ'[i] = sliceQ[i + 1]
      BY <1>1, <2>1, Taken
    <2>3. /\ Len(metaQ') = Len(metaQ) + 1 /\ DOMAIN metaQ' = DOMAIN metaQ \cup {Len(metaQ) + 1}
          /\ \A i \in DOMAIN metaQ : metaQ'[i] = metaQ[i]
          /\ metaQ'[Len(metaQ) + 1] = Head(sliceQ)
      BY <1>1, <2>1, <2>2, Appended
    <2>4. Head(sliceQ) = Len(metas) + Len(metaQ) + 1
      BY <2>2 DEF OrderInv
    <2>5. cut' = Len(metas') + Len(metaQ') + Len(sliceQ')
      BY <1>1, <2>1, <2>2, <2>3 DEF OrderInv
    <2>6. \A i \in DOMAIN metaQ' : metaQ'[i] = Len(metas') + i
      <3> TAKE i \in DOMAIN metaQ'
      <3>1. CASE i \in DOMAIN metaQ
        BY <2>1, <2>3, <3>1 DEF OrderInv
      <3>2. CASE i = Len(metaQ) + 1
        BY <1>1, <2>1, <2>3, <2>4, <3>2
      <3> QED
        BY <2>3, <3>1, <3>2
    <2>7. \A i \in DOMAIN sliceQ' : sliceQ'[i] = Len(metas') + Len(metaQ') + i
      BY <1>1, <2>1, <2>2, <2>3 DEF OrderInv
    <2> QED
      BY <2>1, <2>5, <2>6, <2>7 DEF OrderInv, StructureInOrder
  <1>5. CASE CollectMeta
    <2>1. /\ metaQ # << >> /\ metas' = Append(metas, Head(metaQ)) /\ metaQ' = Tail(metaQ)
          /\ UNCHANGED <<cut, sliceQ, structure>>
      BY <1>5 DEF CollectMeta, restVars
    <2>2. /\ Len(metaQ') = Len(metaQ) - 1 /\ 1 \in DOMAIN metaQ
          /\ Head(metaQ) = metaQ[1] /\ Head(metaQ) \in SliceNos
          /\ \A i \in DOMAIN metaQ' : i \in Nat \ {0} /\ i + 1 \in DOMAIN metaQ /\ metaQ'[i] = metaQ[i + 1]
      BY <1>1, <2>1, Taken
    <2>3. /\ Len(metas') = Len(metas) + 1 /\ DOMAIN metas' = DOMAIN metas \cup {Len(metas) + 1}
          /\ \A i \in DOMAIN metas : metas'[i] = metas[i]
          /\ metas'[Len(metas) + 1] = Head(metaQ)
      BY <1>1, <2>1, <2>2, Appended
    <2>4. Head(metaQ) = Len(metas) + 1
      BY <2>2 DEF OrderInv
    <2>5. cut' = Len(metas') + Len(metaQ') + Len(sliceQ')
      BY <1>1, <2>1, <2>2, <2>3 DEF OrderInv
    <2>6. \A i \in DOMAIN metas' : metas'[i] = i
      BY <1>1, <2>3, <2>4 DEF OrderInv
    <2>7. \A i \in DOMAIN metaQ' : metaQ'[i] = Len(metas') + i
      BY <1>1, <2>1, <2>2, <2>3 DEF OrderInv
    <2>8. \A i \in DOMAIN sliceQ' : sliceQ'[i] = Len(metas') + Len(metaQ') + i
      BY <1>1, <2>1, <2>2, <2>3 DEF OrderInv
    <2> QED
      BY <2>1, <2>5, <2>6, <2>7, <2>8 DEF OrderInv, StructureInOrder
  <1>6. CASE Publish
    BY <1>6 DEF Publish, pipeVars, OrderInv, StructureInOrder
  <1>7. CASE \/ UNCHANGED vars \/ FeedEnds \/ Locate \/ FeedCopies \/ Encrypt \/ EncryptFails
             \/ StartRetry \/ RetryEnds \/ OtherFails \/ GiveUp \/ ClientLeaves \/ Done
    BY <1>2, <1>7 DEF vars, pipeVars, restVars, FeedEnds, Locate, FeedCopies, Encrypt, EncryptFails,
       StartRetry, RetryEnds, OtherFails, GiveUp, ClientLeaves, Done
  <1>8. CASE \/ \E s \in Stages : Return(s)
             \/ \E o \in Outcomes : Distribute(o)
             \/ \E c \in Copies, o \in Outcomes : Retry(c, o)
             \/ \E c \in Copies : RetryTimeout(c) \/ OtherBegin(c)
             \/ \E c \in Copies, n \in Nodes, o \in Outcomes : OtherPush(c, n, o)
    BY <1>2, <1>8 DEF pipeVars, Return, Distribute, Retry, RetryTimeout, OtherBegin, OtherPush
  <1> QED
    BY <1>3, <1>4, <1>5, <1>6, <1>7, <1>8 DEF Next, System, Pipeline, Pushing

(***************************************************************************)
(* The published structure is in the order of the file.                    *)
(***************************************************************************)
THEOREM StructureIsInOrder == Spec => []StructureInOrder
  <1>1. Init => Typed /\ OrderInv
    BY TypedInit, OrderInit
  <1>2. Typed /\ OrderInv /\ [Next]_vars => (Typed /\ OrderInv)'
    BY TypedStep, OrderStep
  <1>3. Typed /\ OrderInv => StructureInOrder
    BY DEF OrderInv
  <1> QED
    BY <1>1, <1>2, <1>3, PTL DEF Spec

-----------------------------------------------------------------------------
(***************************************************************************)
(* Content: unless a push of it was spoilt, a node keeps a copy whole or   *)
(* not at all, and a reader that is used up means that the copy is there.  *)
(***************************************************************************)

WholeInv ==
    /\ \A c \in Copies : stored[c] \in {"none", "whole"} \/ c \in spoilt
    /\ \A c \in DOMAIN retrying : retrying[c].reader = "whole" \/ stored[c] = "whole" \/ c \in spoilt
    /\ \A c \in finished : stored[c] = "whole" \/ c \in spoilt

\* A push of a whole reader, or to a node that has the copy, keeps this.
LEMMA PushOfWhole ==
    ASSUME Typed, WholeInv, NEW c \in Copies, NEW sent \in Content, NEW o \in Outcomes,
           sent = "whole" \/ stored[c] = "whole" \/ c \in spoilt, Push(c, sent, o)
    PROVE  /\ \A d \in Copies : stored'[d] \in {"none", "whole"} \/ d \in spoilt'
           /\ spoilt \subseteq spoilt'
           /\ \A d \in Copies : stored[d] = "whole" => stored'[d] = "whole"
           /\ o = "ok" => stored'[c] = "whole" \/ c \in spoilt'
           /\ o # "ok" => ReaderAfter(sent, o) = "whole" \/ stored'[c] = "whole" \/ c \in spoilt'
  <1>1. /\ stored'[c] = Kept(c, sent, o)
        /\ \A d \in Copies \ {c} : stored'[d] = stored[d]
    BY PushKeepsContent DEF Typed
  <1>2. spoilt \subseteq spoilt' /\ (o \in {"refused", "cut"} => c \in spoilt')
    BY DEF Push
  <1>3. stored[c] \in {"none", "whole"} \/ c \in spoilt
    BY DEF WholeInv
  <1>4. CASE o \in {"refused", "cut"} \/ c \in spoilt
    <2>1. c \in spoilt'
      BY <1>2, <1>4
    <2>2. stored[c] = "whole" => stored'[c] = "whole"
      BY <1>1 DEF Kept
    <2> QED
      BY <1>1, <1>2, <2>1, <2>2 DEF WholeInv
  <1>5. CASE o = "unreachable" /\ c \notin spoilt
    <2>1. stored'[c] = stored[c] /\ ReaderAfter(sent, o) = sent
      BY <1>1, <1>5 DEF Kept, ReaderAfter
    <2> QED
      BY <1>1, <1>2, <1>5, <2>1 DEF WholeInv
  <1>6. CASE o \in {"ok", "lost"} /\ c \notin spoilt
    <2>1. stored'[c] = "whole"
      <3>1. CASE stored[c] = "none"
        BY <1>1, <1>6, <3>1 DEF Kept
      <3>2. CASE stored[c] = "whole"
        BY <1>1, <3>2 DEF Kept
      <3> QED
        BY <1>3, <1>6, <3>1, <3>2
    <2> QED
      BY <1>1, <1>2, <2>1 DEF WholeInv
  <1> QED
    BY <1>4, <1>5, <1>6 DEF Outcomes

LEMMA WholeStep ==
    ASSUME Typed, WholeInv, [Next]_vars PROVE WholeInv'
  <1>0. Copies' = Copies
    BY SameFile
  <1>1. CASE UNCHANGED <<stored, spoilt, retrying, finished>>
    BY <1>0, <1>1 DEF WholeInv
  <1>2. ASSUME NEW o \in Outcomes, Distribute(o) PROVE WholeInv'
    <2>1. Head(encryptedQ) \in Copies /\ Push(Head(encryptedQ), "whole", o)
      BY <1>2, Taken DEF Distribute, Typed, PipeTyped
    <2>2. "whole" \in Content
      BY DEF Content
    <2>3. /\ \A d \in Copies : stored'[d] \in {"none", "whole"} \/ d \in spoilt'
          /\ spoilt \subseteq spoilt'
          /\ \A d \in Copies : stored[d] = "whole" => stored'[d] = "whole"
          /\ o = "ok" => stored'[Head(encryptedQ)] = "whole" \/ Head(encryptedQ) \in spoilt'
      BY <2>1, <2>2, PushOfWhole
    <2>4. retrying' = retrying /\ DOMAIN retrying \subseteq Copies /\ finished \subseteq Copies
      BY <1>2 DEF Distribute, Typed, PushTyped
    <2>5. \A c \in finished' : c \in finished \/ (o = "ok" /\ c = Head(encryptedQ))
      BY <1>2 DEF Distribute
    <2> QED
      BY <1>0, <2>3, <2>4, <2>5 DEF WholeInv
  <1>3. ASSUME NEW c \in Copies, NEW o \in Outcomes, Retry(c, o) PROVE WholeInv'
    <2>1. c \in DOMAIN retrying /\ retrying[c].reader \in Content /\ Push(c, retrying[c].reader, o)
      BY <1>3 DEF Retry, Loops, Typed, PushTyped, LoopRec
    <2>2. retrying[c].reader = "whole" \/ stored[c] = "whole" \/ c \in spoilt
      BY <2>1 DEF WholeInv
    <2>3. /\ \A d \in Copies : stored'[d] \in {"none", "whole"} \/ d \in spoilt'
          /\ spoilt \subseteq spoilt'
          /\ \A d \in Copies : stored[d] = "whole" => stored'[d] = "whole"
          /\ o = "ok" => stored'[c] = "whole" \/ c \in spoilt'
          /\ o # "ok" => \/ ReaderAfter(retrying[c].reader, o) = "whole"
                         \/ stored'[c] = "whole" \/ c \in spoilt'
      BY <2>1, <2>2, PushOfWhole
    <2>4. DOMAIN retrying' = DOMAIN retrying /\ DOMAIN retrying \subseteq Copies /\ finished \subseteq Copies
      BY <1>3 DEF Retry, Typed, PushTyped
    <2>5. \A d \in DOMAIN retrying \ {c} : retrying'[d] = retrying[d]
      BY <1>3 DEF Retry
    <2>6. retrying'[c].reader = IF o = "ok" THEN retrying[c].reader ELSE ReaderAfter(retrying[c].reader, o)
      <3>1. retrying[c] \in LoopRec
        BY <2>1 DEF Typed, PushTyped
      <3> QED
        BY <1>3, <2>1, <3>1 DEF Retry, LoopRec
    <2>7. retrying'[c].reader = "whole" \/ stored'[c] = "whole" \/ c \in spoilt'
      BY <2>2, <2>3, <2>6
    <2>8. \A d \in finished' : d \in finished \/ (o = "ok" /\ d = c)
      BY <1>3 DEF Retry
    <2>9. \A d \in DOMAIN retrying' : retrying'[d].reader = "whole" \/ stored'[d] = "whole" \/ d \in spoilt'
      BY <2>3, <2>4, <2>5, <2>7 DEF WholeInv
    <2>10. \A d \in finished' : stored'[d] = "whole" \/ d \in spoilt'
      BY <2>3, <2>4, <2>8 DEF WholeInv
    <2> QED
      BY <1>0, <2>3, <2>9, <2>10 DEF WholeInv
  <1>4. ASSUME NEW c \in Copies, NEW n \in Nodes, NEW o \in Outcomes, OtherPush(c, n, o) PROVE WholeInv'
    <2>1. <<c[1], n>> \in Copies /\ Push(<<c[1], n>>, "whole", o)
      BY <1>4 DEF OtherPush, Copies
    <2>2. "whole" \in Content
      BY DEF Content
    <2>3. /\ \A d \in Copies : stored'[d] \in {"none", "whole"} \/ d \in spoilt'
          /\ spoilt \subseteq spoilt'
          /\ \A d \in Copies : stored[d] = "whole" => stored'[d] = "whole"
          /\ o = "ok" => stored'[<<c[1], n>>] = "whole" \/ <<c[1], n>> \in spoilt'
      BY <2>1, <2>2, PushOfWhole
    <2>4. retrying' = retrying /\ DOMAIN retrying \subseteq Copies /\ finished \subseteq Copies
      BY <1>4 DEF OtherPush, Typed, PushTyped
    <2>5. \A d \in finished' : d \in finished \/ (o = "ok" /\ d = <<c[1], n>>)
      BY <1>4 DEF OtherPush
    <2> QED
      BY <1>0, <2>3, <2>4, <2>5 DEF WholeInv
  <1>5. CASE StartRetry
    <2>1. \A c \in DOMAIN retrying' : retrying'[c].reader = "whole"
      BY <1>5 DEF StartRetry
    <2> QED
      BY <1>0, <1>5, <2>1 DEF StartRetry, pushVars, WholeInv
  <1>6. ASSUME NEW c \in Copies, RetryTimeout(c) PROVE WholeInv'
    <2>1. DOMAIN retrying' = DOMAIN retrying
      BY <1>6 DEF RetryTimeout
    <2>2. \A d \in DOMAIN retrying : retrying'[d].reader = retrying[d].reader
      <3> TAKE d \in DOMAIN retrying
      <3>1. retrying[d] \in LoopRec
        BY DEF Typed, PushTyped
      <3> QED
        BY <1>6, <3>1 DEF RetryTimeout, LoopRec
    <2> QED
      BY <1>0, <1>6, <2>1, <2>2 DEF RetryTimeout, pushVars, WholeInv
  <1>7. CASE RetryEnds
    <2>1. DOMAIN retrying' = {}
      BY <1>7 DEF RetryEnds
    <2> QED
      BY <1>0, <1>7, <2>1 DEF RetryEnds, pushVars, WholeInv
  <1>8. CASE \/ UNCHANGED vars \/ Slice \/ Feed \/ FeedEnds \/ CollectMeta \/ Locate \/ FeedCopies
             \/ Encrypt \/ EncryptFails \/ OtherFails \/ Publish \/ GiveUp \/ ClientLeaves \/ Done
    BY <1>1, <1>8 DEF vars, pushVars, restVars, Slice, Feed, FeedEnds, CollectMeta, Locate, FeedCopies,
       Encrypt, EncryptFails, OtherFails, Publish, GiveUp, ClientLeaves, Done
  <1>9. CASE (\E s \in Stages : Return(s)) \/ \E c \in Copies : OtherBegin(c)
    BY <1>1, <1>9 DEF pushVars, Return, OtherBegin
  <1> QED
    BY <1>2, <1>3, <1>4, <1>5, <1>6, <1>7, <1>8, <1>9 DEF Next, System, Pipeline, Pushing

(***************************************************************************)
(* Whatever is lost or retried, the node of a published copy holds it      *)
(* whole, unless a push of this copy was refused or broken off.            *)
(***************************************************************************)
THEOREM PublishedIsWhole == Spec => []PublishedWhole
  <1>1. Init => Typed /\ WholeInv
    <2> SUFFICES ASSUME Init PROVE Typed /\ WholeInv
      OBVIOUS
    <2>1. Typed
      BY TypedInit
    <2>2. /\ DOMAIN retrying = {} /\ finished = {}
          /\ \A c \in Copies : stored[c] = "none"
      BY DEF Init
    <2> QED
      BY <2>1, <2>2 DEF WholeInv
  <1>2. Typed /\ WholeInv /\ [Next]_vars => (Typed /\ WholeInv)'
    BY TypedStep, WholeStep
  <1>3. Typed /\ WholeInv => PublishedWhole
    BY DEF WholeInv, PublishedWhole
  <1> QED
    BY <1>1, <1>2, <1>3, PTL DEF Spec

-----------------------------------------------------------------------------
(***************************************************************************)
(* Replicas.  While nobody cancels the context, the slices go down the     *)
(* line in order, a stage ends only when the one before it has ended and   *)
(* left nothing behind, and no copy is lost or made twice.                 *)
(***************************************************************************)

\* The slices whose copies were handed to the encryptors.
Spread == cut - Len(sliceQ) - Len(locQ) - Len(locatedQ)

LineInv ==
    /\ \A i \in DOMAIN locatedQ : locatedQ[i][1] = Spread + i
    /\ \A i \in DOMAIN locQ : locQ[i] = Spread + Len(locatedQ) + i

ClosingInv ==
    /\ slicer = "closed" => cut = NSlices
    /\ fed => sliceQ = << >> /\ slicer = "closed"
    /\ pool["locate"] < Workers => fed /\ locQ = << >>
    /\ encFed => locatedQ = << >> /\ fed /\ pool["locate"] < Workers
    /\ pool["encrypt"] < Workers => encFed /\ encQ = << >>
    /\ pool["distribute"] < Workers => EncryptedClosed /\ encryptedQ = << >>

NodesOf(C, s) == {n \in Nodes : <<s, n>> \in C}

Waiting == Range(encQ) \cup Range(encryptedQ)
Lost == failedQ \cup stuck
Made == finished \cup Lost \cup Waiting

\* No copy is in two places, and the copies of a slice are as many as wanted.
DrainInv ==
    main = "drain" =>
        /\ IsInjective(encQ) /\ IsInjective(encryptedQ) /\ Range(encQ) \cap Range(encryptedQ) = {}
        /\ finished \cap Lost = {} /\ Waiting \cap (finished \cup Lost) = {}
        /\ \A s \in SliceNos : s <= Spread => Cardinality(NodesOf(Made, s)) = Replica
        /\ \A s \in SliceNos : s > Spread => NodesOf(Made, s) = {}
        /\ failedTwice = {} /\ moving = {}

RetryInv ==
    main = "retry" =>
        /\ finished \cap (Loops("run") \cup failedTwice) = {} /\ Loops("run") \cap failedTwice = {}
        /\ \A s \in SliceNos :
              Cardinality(NodesOf(finished \cup Loops("run") \cup failedTwice, s)) = Replica
        /\ moving = {}

OtherInv ==
    main \in {"other", "published"} =>
        /\ finished \subseteq tried
        /\ moving \subseteq failedTwice /\ \A c, d \in moving : c = d
        /\ \A s \in SliceNos :
              Cardinality(NodesOf(finished, s)) + Cardinality(NodesOf(failedTwice, s)) = Replica
        /\ main = "published" => failedTwice = {}

ReplicaInv == cancelled \/ (LineInv /\ ClosingInv /\ DrainInv /\ RetryInv /\ OtherInv)

LEMMA Lengths ==
    ASSUME Typed
    PROVE  /\ Len(sliceQ) \in Nat /\ Len(locQ) \in Nat /\ Len(locatedQ) \in Nat /\ cut \in Nat
           /\ Spread \in Int
  <1>1. Len(sliceQ) \in Nat /\ Len(locQ) \in Nat /\ Len(locatedQ) \in Nat /\ cut \in Nat
    BY DEF Typed, PipeTyped
  <1> QED
    BY <1>1 DEF Spread

LEMMA NodesOfFinite ==
    ASSUME NEW C, NEW s PROVE IsFiniteSet(NodesOf(C, s)) /\ Cardinality(NodesOf(C, s)) \in Nat
  BY PipelineAssumption, FS_Subset, FS_CardinalityType DEF NodesOf

LEMMA CopiesFinite ==
    ASSUME Typed, NEW C \in SUBSET Copies PROVE IsFiniteSet(C) /\ Cardinality(C) \in Nat
  <1>1. NSlices \in Nat
    BY ShapeFacts DEF Typed, PipeTyped
  <1>2. IsFiniteSet(SliceNos)
    <2>1. PICK a, b \in Int : a = 1 /\ b = NSlices
      BY <1>1
    <2> QED
      BY <2>1, FS_Interval DEF SliceNos
  <1>3. IsFiniteSet(Copies)
    BY <1>2, PipelineAssumption, FS_Product DEF Copies
  <1> QED
    BY <1>3, FS_Subset, FS_CardinalityType

LEMMA LineStep ==
    ASSUME Typed, OrderInv, LineInv, [Next]_vars PROVE LineInv'
  <1>0. /\ Len(sliceQ) \in Nat /\ Len(locQ) \in Nat /\ Len(locatedQ) \in Nat /\ cut \in Nat
        /\ Len(metas) \in Nat /\ Len(metaQ) \in Nat
        /\ sliceQ \in Seq(SliceNos) /\ locQ \in Seq(SliceNos) /\ locatedQ \in Seq(SliceNos \X Places)
    BY Lengths DEF Typed, PipeTyped
  <1>1. CASE UNCHANGED <<cut, sliceQ, locQ, locatedQ>>
    BY <1>1 DEF LineInv, Spread
  <1>2. CASE Slice
    <2>1. CASE cut' = cut + 1 /\ sliceQ' = Append(sliceQ, cut')
      <3>1. UNCHANGED <<locQ, locatedQ>>
        BY <1>2 DEF Slice
      <3>2. Len(sliceQ') = Len(sliceQ) + 1
        <4>1. sliceQ' \in Seq(SliceNos)
          BY TypedStep, SameFile DEF Typed, PipeTyped
        <4> QED
          BY <1>0, <2>1, <4>1
      <3>3. Spread' = Spread
        BY <1>0, <2>1, <3>1, <3>2 DEF Spread
      <3> QED
        BY <3>1, <3>3 DEF LineInv
    <2>2. CASE UNCHANGED <<cut, sliceQ>>
      BY <1>1, <1>2, <2>2 DEF Slice
    <2> QED
      BY <1>2, <2>1, <2>2 DEF Slice
  <1>3. CASE Feed
    <2>1. /\ sliceQ # << >> /\ locQ' = Append(locQ, Head(sliceQ)) /\ sliceQ' = Tail(sliceQ)
          /\ UNCHANGED <<cut, locatedQ>>
      BY <1>3 DEF Feed
    <2>2. /\ Len(sliceQ') = Len(sliceQ) - 1 /\ 1 \in DOMAIN sliceQ
          /\ Head(sliceQ) = sliceQ[1] /\ Head(sliceQ) \in SliceNos
      BY <1>0, <2>1, Taken
    <2>3. /\ Len(locQ') = Len(locQ) + 1 /\ DOMAIN locQ' = DOMAIN locQ \cup {Len(locQ) + 1}
          /\ \A i \in DOMAIN locQ : locQ'[i] = locQ[i]
          /\ locQ'[Len(locQ) + 1] = Head(sliceQ)
      BY <1>0, <2>1, <2>2, Appended
    <2>4. Spread' = Spread
      BY <1>0, <2>1, <2>2, <2>3 DEF Spread
    <2>5. Head(sliceQ) = Spread + Len(locatedQ) + (Len(locQ) + 1)
      <3>1. Head(sliceQ) = Len(metas) + Len(metaQ) + 1
        BY <2>2 DEF OrderInv
      <3>2. cut = Len(metas) + Len(metaQ) + Len(sliceQ)
        BY DEF OrderInv
      <3> QED
        BY <1>0, <3>1, <3>2 DEF Spread
    <2>6. \A i \in DOMAIN locQ' : locQ'[i] = Spread + Len(locatedQ) + i
      BY <2>3, <2>5 DEF LineInv
    <2> QED
      BY <2>1, <2>4, <2>6 DEF LineInv
  <1>4. CASE Locate
    <2>0. PICK S \in Select : locatedQ' = Append(locatedQ, <<Head(locQ), S>>)
      BY <1>4 DEF Locate
    <2>1. locQ # << >> /\ locQ' = Tail(locQ) /\ UNCHANGED <<cut, sliceQ>>
      BY <1>4 DEF Locate
    <2>2. /\ Len(locQ') = Len(locQ) - 1 /\ 1 \in DOMAIN locQ
          /\ Head(locQ) = locQ[1] /\ Head(locQ) \in SliceNos
          /\ \A i \in DOMAIN locQ' : i \in Nat \ {0} /\ i + 1 \in DOMAIN locQ /\ locQ'[i] = locQ[i + 1]
      BY <1>0, <2>1, Taken
    <2>3. <<Head(locQ), S>> \in SliceNos \X Places
      BY <2>2, SelectPlaces
    <2>4. /\ Len(locatedQ') = Len(locatedQ) + 1
          /\ DOMAIN locatedQ' = DOMAIN locatedQ \cup {Len(locatedQ) + 1}
          /\ \A i \in DOMAIN locatedQ : locatedQ'[i] = locatedQ[i]
          /\ locatedQ'[Len(locatedQ) + 1] = <<Head(locQ), S>>
      <3>1. PICK x, T : x = <<Head(locQ), S>> /\ T = SliceNos \X Places
        OBVIOUS
      <3>2. locatedQ \in Seq(T) /\ x \in T /\ locatedQ' = Append(locatedQ, x)
        BY <1>0, <2>0, <2>3, <3>1
      <3> QED
        BY <3>1, <3>2, Appended
    <2>5. Spread' = Spread /\ Spread \in Int
      <3>1. Len(locQ') = Len(locQ) - 1 /\ Len(locatedQ') = Len(locatedQ) + 1 /\ UNCHANGED <<cut, sliceQ>>
        BY <2>1, <2>2, <2>4
      <3>2. cut - Len(sliceQ) - (Len(locQ) - 1) - (Len(locatedQ) + 1)
              = cut - Len(sliceQ) - Len(locQ) - Len(locatedQ)
        BY <1>0
      <3>3. Spread' = Spread
        BY <3>1, <3>2 DEF Spread
      <3>4. Spread \in Int
        BY Lengths
      <3> QED
        BY <3>3, <3>4
    <2>6. Head(locQ) = Spread + (Len(locatedQ) + 1)
      <3>1. Head(locQ) = Spread + Len(locatedQ) + 1
        BY <2>2 DEF LineInv
      <3> QED
        BY <1>0, <2>5, <3>1
    <2>7. \A i \in DOMAIN locatedQ' : locatedQ'[i][1] = Spread' + i
      BY <2>4, <2>5, <2>6 DEF LineInv
    <2>8. \A i \in DOMAIN locQ' : locQ'[i] = Spread' + Len(locatedQ') + i
      <3> TAKE i \in DOMAIN locQ'
      <3>1. i \in Nat /\ locQ'[i] = Spread + Len(locatedQ) + (i + 1)
        BY <2>2 DEF LineInv
      <3> QED
        BY <1>0, <2>4, <2>5, <3>1
    <2> QED
      BY <2>7, <2>8 DEF LineInv
  <1>5. CASE FeedCopies
    <2>1. CASE UNCHANGED <<encQ, locatedQ>>
      BY <1>1, <1>5, <2>1 DEF FeedCopies
    <2>2. CASE locatedQ # << >> /\ locatedQ' = Tail(locatedQ)
      <3>1. UNCHANGED <<cut, sliceQ, locQ>>
        BY <1>5 DEF FeedCopies
      <3>2. /\ Len(locatedQ') = Len(locatedQ) - 1
            /\ \A i \in DOMAIN locatedQ' :
                  i \in Nat \ {0} /\ i + 1 \in DOMAIN locatedQ /\ locatedQ'[i] = locatedQ[i + 1]
        BY <1>0, <2>2, Taken
      <3>3. Spread' = Spread + 1 /\ Spread \in Int
        BY <1>0, <3>1, <3>2 DEF Spread
      <3>4. \A i \in DOMAIN locatedQ' : locatedQ'[i][1] = Spread' + i
        <4> TAKE i \in DOMAIN locatedQ'
        <4>1. i \in Nat /\ locatedQ'[i][1] = Spread + (i + 1)
          BY <3>2 DEF LineInv
        <4> QED
          BY <3>3, <4>1
      <3>5. \A i \in DOMAIN locQ' : locQ'[i] = Spread' + Len(locatedQ') + i
        <4> TAKE i \in DOMAIN locQ'
        <4>1. i \in Nat /\ locQ'[i] = Spread + Len(locatedQ) + i
          BY <1>0, <3>1 DEF LineInv
        <4> QED
          BY <1>0, <3>2, <3>3, <4>1
      <3> QED
        BY <3>4, <3>5 DEF LineInv
    <2> QED
      BY <1>5, <2>1, <2>2 DEF FeedCopies
  <1>6. CASE StartRetry
    <2>1. DOMAIN locQ' = {} /\ DOMAIN locatedQ' = {}
      BY <1>6 DEF StartRetry
    <2> QED
      BY <2>1 DEF LineInv
  <1>7. CASE \/ UNCHANGED vars \/ FeedEnds \/ CollectMeta \/ Encrypt \/ EncryptFails
             \/ RetryEnds \/ OtherFails \/ Publish \/ GiveUp \/ ClientLeaves \/ Done
    BY <1>1, <1>7 DEF vars, pipeVars, restVars, FeedEnds, CollectMeta, Encrypt, EncryptFails,
       RetryEnds, OtherFails, Publish, GiveUp, ClientLeaves, Done
  <1>8. CASE \/ \E s \in Stages : Return(s)
             \/ \E o \in Outcomes : Distribute(o)
             \/ \E c \in Copies, o \in Outcomes : Retry(c, o)
             \/ \E c \in Copies : RetryTimeout(c) \/ OtherBegin(c)
             \/ \E c \in Copies, n \in Nodes, o \in Outcomes : OtherPush(c, n, o)
    BY <1>1, <1>8 DEF pipeVars, Return, Distribute, Retry, RetryTimeout, OtherBegin, OtherPush
  <1> QED
    BY <1>2, <1>3, <1>4, <1>5, <1>6, <1>7, <1>8 DEF Next, System, Pipeline, Pushing

LEMMA ClosingStep ==
    ASSUME Typed, ClosingInv, ~cancelled, ~cancelled', [Next]_vars PROVE ClosingInv'
  <1>0. /\ NSlices' = NSlices /\ Workers \in Nat \ {0}
        /\ pool \in [Stages -> Int]
        /\ pool["locate"] \in Int /\ pool["encrypt"] \in Int /\ pool["distribute"] \in Int
    BY SameFile, PipelineAssumption DEF Typed, PushTyped, Stages
  <1>1. CASE UNCHANGED <<slicer, cut, fed, sliceQ, pool, locQ, encFed, locatedQ, encQ, encryptedQ>>
    BY <1>0, <1>1 DEF ClosingInv, EncryptedClosed
  <1>2. CASE Slice
    BY <1>0, <1>2 DEF Slice, restVars, ClosingInv, EncryptedClosed
  <1>3. CASE Feed
    <2>1. ~fed /\ UNCHANGED <<slicer, cut, fed, pool, encFed, locatedQ, encQ, encryptedQ>>
      BY <1>3 DEF Feed, restVars
    <2> QED
      BY <1>0, <2>1 DEF ClosingInv, EncryptedClosed
  <1>4. CASE FeedEnds
    BY <1>0, <1>4 DEF FeedEnds, restVars, ClosingInv, EncryptedClosed
  <1>5. CASE Locate
    <2>1. locQ # << >> /\ UNCHANGED <<slicer, cut, fed, sliceQ, pool, encFed, encQ, encryptedQ>>
      BY <1>5 DEF Locate, restVars
    <2> QED
      BY <1>0, <2>1 DEF ClosingInv, EncryptedClosed
  <1>6. CASE FeedCopies
    <2>1. ~encFed /\ UNCHANGED <<slicer, cut, fed, sliceQ, pool, locQ, encryptedQ>>
      BY <1>6 DEF FeedCopies, restVars
    <2>2. CASE UNCHANGED encFed
      BY <1>0, <2>1, <2>2 DEF ClosingInv, EncryptedClosed
    <2>3. CASE locatedQ = << >> /\ LocatedClosed /\ encFed' = TRUE /\ UNCHANGED <<encQ, locatedQ>>
      BY <1>0, <2>1, <2>3 DEF ClosingInv, EncryptedClosed, LocatedClosed
    <2> QED
      BY <1>6, <2>2, <2>3 DEF FeedCopies
  <1>7. CASE Encrypt
    <2>1. encQ # << >> /\ UNCHANGED <<slicer, cut, fed, sliceQ, pool, locQ, encFed, locatedQ>>
      BY <1>7 DEF Encrypt, restVars
    <2> QED
      BY <1>0, <2>1 DEF ClosingInv, EncryptedClosed
  <1>8. CASE EncryptFails \/ ClientLeaves \/ OtherFails
    BY <1>8 DEF EncryptFails, ClientLeaves, OtherFails
  <1>9. ASSUME NEW s \in Stages, Return(s) PROVE ClosingInv'
    <2>1. /\ pool' = [pool EXCEPT ![s] = @ - 1] /\ pool[s] > 0
          /\ UNCHANGED <<slicer, cut, fed, sliceQ, locQ, encFed, locatedQ, encQ, encryptedQ>>
      BY <1>9 DEF Return, pipeVars
    <2>2. CASE s = "locate"
      <3>1. /\ fed /\ locQ = << >>
            /\ pool'["locate"] < Workers \/ pool'["locate"] >= Workers
            /\ pool["locate"] < Workers => pool'["locate"] < Workers
            /\ pool'["encrypt"] = pool["encrypt"] /\ pool'["distribute"] = pool["distribute"]
        BY <1>0, <1>9, <2>1, <2>2 DEF Return, Stages
      <3> QED
        BY <1>0, <2>1, <3>1 DEF ClosingInv, EncryptedClosed
    <2>3. CASE s = "encrypt"
      <3>1. /\ encFed /\ encQ = << >>
            /\ pool["encrypt"] > 0 /\ pool'["encrypt"] = pool["encrypt"] - 1
            /\ pool'["locate"] = pool["locate"] /\ pool'["distribute"] = pool["distribute"]
        BY <1>0, <1>9, <2>1, <2>3 DEF Return, Stages
      <3>2. ~(pool["distribute"] < Workers)
        BY <1>0, <3>1 DEF ClosingInv, EncryptedClosed
      <3> QED
        BY <1>0, <2>1, <3>1, <3>2 DEF ClosingInv, EncryptedClosed
    <2>4. CASE s = "distribute"
      <3>1. /\ EncryptedClosed /\ encryptedQ = << >>
            /\ pool'["locate"] = pool["locate"] /\ pool'["encrypt"] = pool["encrypt"]
        BY <1>0, <1>9, <2>1, <2>4 DEF Return, Stages
      <3> QED
        BY <1>0, <2>1, <3>1 DEF ClosingInv, EncryptedClosed
    <2> QED
      BY <2>2, <2>3, <2>4 DEF Stages
  <1>10. ASSUME NEW o \in Outcomes, Distribute(o) PROVE ClosingInv'
    <2>1. /\ encryptedQ # << >>
          /\ UNCHANGED <<slicer, cut, fed, sliceQ, pool, locQ, encFed, locatedQ, encQ>>
      BY <1>10 DEF Distribute
    <2> QED
      BY <1>0, <2>1 DEF ClosingInv, EncryptedClosed
  <1>11. CASE StartRetry
    <2>1. /\ pool'["locate"] = 0 /\ pool'["encrypt"] = 0 /\ pool'["distribute"] = 0
          /\ pool["distribute"] = 0 /\ encFed' = TRUE
          /\ locQ' = << >> /\ locatedQ' = << >> /\ encQ' = << >> /\ encryptedQ' = << >>
          /\ UNCHANGED <<slicer, cut, fed, sliceQ>>
      BY <1>11 DEF StartRetry, FinishedClosed, Stages
    <2>2. fed
      BY <1>0, <2>1 DEF ClosingInv, EncryptedClosed
    <2> QED
      BY <1>0, <2>1, <2>2 DEF ClosingInv, EncryptedClosed
  <1>12. CASE UNCHANGED vars \/ CollectMeta \/ RetryEnds \/ Publish \/ GiveUp \/ Done
    BY <1>1, <1>12 DEF vars, pipeVars, restVars, CollectMeta, RetryEnds, Publish, GiveUp, Done
  <1>13. CASE \/ \E c \in Copies, o \in Outcomes : Retry(c, o)
              \/ \E c \in Copies : RetryTimeout(c) \/ OtherBegin(c)
              \/ \E c \in Copies, n \in Nodes, o \in Outcomes : OtherPush(c, n, o)
    BY <1>1, <1>13 DEF pipeVars, Retry, RetryTimeout, OtherBegin, OtherPush
  <1> QED
    BY <1>2, <1>3, <1>4, <1>5, <1>6, <1>7, <1>8, <1>9, <1>10, <1>11, <1>12, <1>13
       DEF Next, System, Pipeline, Pushing

\* The copies of the slice handed on next are the first ones of this slice.
LEMMA HandedOn ==
    ASSUME Typed, LineInv, DrainInv, main = "drain", locatedQ # << >>,
           encQ' = encQ \o SetToSeq({Head(locatedQ)[1]} \X Head(locatedQ)[2]),
           locatedQ' = Tail(locatedQ),
           UNCHANGED <<main, cut, sliceQ, locQ, encryptedQ, finished, failedQ, stuck, failedTwice, moving, shape>>
    PROVE  DrainInv'
  <1> DEFINE s0 == Head(locatedQ)[1]
             P  == Head(locatedQ)[2]
  <1>1. /\ locatedQ \in Seq(SliceNos \X Places) /\ encQ \in Seq(Copies) /\ encryptedQ \in Seq(Copies)
        /\ SliceNos' = SliceNos /\ Replica' = Replica
    BY DEF Typed, PipeTyped, SliceNos, NSlices, Replica
  <1>2. /\ Head(locatedQ) \in SliceNos \X Places /\ Head(locatedQ) = locatedQ[1] /\ 1 \in DOMAIN locatedQ
        /\ Len(locatedQ') = Len(locatedQ) - 1
    BY <1>1, Taken
  <1>3. s0 = Spread + 1
    BY <1>2 DEF LineInv
  <1>4. s0 \in SliceNos /\ P \subseteq Nodes /\ Cardinality(P) = Replica
    BY <1>2 DEF Places
  <1>5. Spread \in Int /\ Spread' = Spread + 1
    BY <1>2, Lengths DEF Spread
  <1>6. SliceNos \subseteq Nat
    BY ShapeFacts DEF Typed, PipeTyped
  <1>7. PICK t : t = SetToSeq({s0} \X P)
    OBVIOUS
  <1>8. t \in Seq(Copies) /\ IsInjective(t) /\ Range(t) = {s0} \X P /\ encQ' = encQ \o t
    BY <1>2, <1>7, CopiesOfSlice
  <1> HIDE DEF s0, P
  <1>9. NodesOf(Made, s0) = {}
    BY <1>3, <1>4, <1>5, <1>6 DEF DrainInv
  <1>10. ({s0} \X P) \cap Made = {}
    <2> SUFFICES ASSUME NEW c \in {s0} \X P, c \in Made PROVE FALSE
      OBVIOUS
    <2>1. c = <<s0, c[2]>> /\ c[2] \in Nodes
      BY <1>4
    <2> QED
      BY <1>9, <2>1 DEF NodesOf
  <1>11. Range(encQ') = Range(encQ) \cup ({s0} \X P)
    <2>1. Range(encQ \o t) = Range(encQ) \cup Range(t)
      BY <1>1, <1>8, RangeOfJoin
    <2> QED
      BY <1>8, <2>1
  <1>12. IsInjective(encQ')
    <2>1. Range(encQ) \cap Range(t) = {}
      BY <1>8, <1>10 DEF Made, Waiting
    <2>2. IsInjective(encQ)
      BY DEF DrainInv
    <2>3. IsInjective(encQ \o t)
      <3>1. encQ \in Seq(Copies) /\ t \in Seq(Copies) /\ IsInjective(t)
        BY <1>1, <1>8
      <3> QED
        BY <2>1, <2>2, <3>1, RangeOfJoin
    <2> QED
      BY <1>8, <2>3
  <1>13. Made' = Made \cup ({s0} \X P)
    BY <1>11 DEF Made, Waiting, Lost
  <1>14. NodesOf(Made', s0) = P
    BY <1>4, <1>9, <1>13 DEF NodesOf
  <1>15. \A s \in SliceNos \ {s0} : NodesOf(Made', s) = NodesOf(Made, s)
    BY <1>13 DEF NodesOf
  <1>16. \A s \in SliceNos : s <= Spread' => Cardinality(NodesOf(Made', s)) = Replica
    <2> SUFFICES ASSUME NEW s \in SliceNos, s <= Spread' PROVE Cardinality(NodesOf(Made', s)) = Replica
      OBVIOUS
    <2>1. CASE s = s0
      BY <1>4, <1>14, <2>1
    <2>2. CASE s # s0
      <3>1. s <= Spread
        BY <1>3, <1>5, <1>6, <2>2
      <3> QED
        BY <1>15, <2>2, <3>1 DEF DrainInv
    <2> QED
      BY <2>1, <2>2
  <1>17. \A s \in SliceNos : s > Spread' => NodesOf(Made', s) = {}
    <2> SUFFICES ASSUME NEW s \in SliceNos, s > Spread' PROVE NodesOf(Made', s) = {}
      OBVIOUS
    <2>1. s > Spread /\ s # s0
      BY <1>3, <1>5, <1>6
    <2> QED
      BY <1>15, <2>1 DEF DrainInv
  <1>18. Range(encQ') \cap Range(encryptedQ') = {}
    BY <1>10, <1>11 DEF DrainInv, Made, Waiting
  <1>19. finished' \cap Lost' = {} /\ Waiting' \cap (finished' \cup Lost') = {}
    BY <1>10, <1>11 DEF DrainInv, Made, Waiting, Lost
  <1>20. IsInjective(encryptedQ') /\ failedTwice' = {} /\ moving' = {}
    BY DEF DrainInv
  <1> QED
    BY <1>1, <1>12, <1>16, <1>17, <1>18, <1>19, <1>20 DEF DrainInv, NodesOf

LEMMA DrainStep ==
    ASSUME Typed, LineInv, DrainInv, ~cancelled, ~cancelled', [Next]_vars PROVE DrainInv'
  <1>0. /\ SliceNos' = SliceNos /\ Replica' = Replica
        /\ encQ \in Seq(Copies) /\ encryptedQ \in Seq(Copies)
    BY SameFile DEF Typed, PipeTyped
  <1>1. CASE UNCHANGED <<main, encQ, encryptedQ, finished, failedQ, stuck, failedTwice, moving>> /\ Spread' = Spread
    <2>1. Made' = Made /\ Lost' = Lost /\ Waiting' = Waiting
      BY <1>1 DEF Made, Lost, Waiting
    <2> QED
      BY <1>0, <1>1, <2>1 DEF DrainInv, NodesOf
  <1>2. CASE main' # "drain"
    BY <1>2 DEF DrainInv
  <1>3. CASE Slice
    <2>1. Spread' = Spread
      <3>1. CASE cut' = cut + 1 /\ sliceQ' = Append(sliceQ, cut')
        <4>1. sliceQ' \in Seq(SliceNos) /\ sliceQ \in Seq(SliceNos)
          BY TypedStep, SameFile DEF Typed, PipeTyped
        <4>2. Len(sliceQ') = Len(sliceQ) + 1
          BY <3>1, <4>1
        <4>3. UNCHANGED <<locQ, locatedQ>>
          BY <1>3 DEF Slice
        <4> QED
          BY <3>1, <4>2, <4>3, Lengths DEF Spread
      <3>2. CASE UNCHANGED <<cut, sliceQ>>
        BY <1>3, <3>2 DEF Slice, Spread
      <3> QED
        BY <1>3, <3>1, <3>2 DEF Slice
    <2> QED
      BY <1>1, <1>3, <2>1 DEF Slice, restVars, otherVars
  <1>4. CASE Feed
    <2>1. sliceQ # << >> /\ sliceQ' = Tail(sliceQ) /\ locQ' = Append(locQ, Head(sliceQ)) /\ UNCHANGED <<cut, locatedQ>>
      BY <1>4 DEF Feed
    <2>2. sliceQ \in Seq(SliceNos) /\ locQ \in Seq(SliceNos)
      BY DEF Typed, PipeTyped
    <2>3. Len(sliceQ') = Len(sliceQ) - 1 /\ Head(sliceQ) \in SliceNos
      BY <2>1, <2>2, Taken
    <2>4. Len(locQ') = Len(locQ) + 1
      BY <2>1, <2>2, <2>3, Appended
    <2>5. Spread' = Spread
      BY <2>1, <2>3, <2>4, Lengths DEF Spread
    <2> QED
      BY <1>1, <1>4, <2>5 DEF Feed, restVars, otherVars
  <1>5. CASE Locate
    <2>1. PICK S \in Select : locatedQ' = Append(locatedQ, <<Head(locQ), S>>)
      BY <1>5 DEF Locate
    <2>2. locQ # << >> /\ locQ' = Tail(locQ) /\ UNCHANGED <<cut, sliceQ>>
      BY <1>5 DEF Locate
    <2>3. locQ \in Seq(SliceNos)
      BY DEF Typed, PipeTyped
    <2>4. Len(locQ') = Len(locQ) - 1 /\ Head(locQ) \in SliceNos
      BY <2>2, <2>3, Taken
    <2>5. PICK x, T : x = <<Head(locQ), S>> /\ T = SliceNos \X Places
      OBVIOUS
    <2>6. locatedQ \in Seq(T) /\ x \in T /\ locatedQ' = Append(locatedQ, x)
      BY <2>1, <2>4, <2>5, SelectPlaces DEF Typed, PipeTyped
    <2>7. Len(locatedQ') = Len(locatedQ) + 1
      BY <2>6, Appended
    <2>8. Spread' = Spread
      BY <2>2, <2>4, <2>7, Lengths DEF Spread
    <2> QED
      BY <1>1, <1>5, <2>8 DEF Locate, restVars, otherVars
  <1>6. CASE FeedCopies
    <2>1. /\ main = "drain"
          /\ UNCHANGED <<main, cut, sliceQ, locQ, encryptedQ, finished, failedQ, stuck, failedTwice, moving, shape>>
      BY <1>6 DEF FeedCopies, restVars, otherVars
    <2>2. CASE /\ locatedQ # << >>
               /\ encQ' = encQ \o SetToSeq({Head(locatedQ)[1]} \X Head(locatedQ)[2])
               /\ locatedQ' = Tail(locatedQ)
      BY <2>1, <2>2, HandedOn
    <2>3. CASE UNCHANGED <<encQ, locatedQ>>
      BY <1>1, <2>1, <2>3 DEF Spread
    <2> QED
      BY <1>6, <2>2, <2>3 DEF FeedCopies
  <1>7. CASE Encrypt
    <2>1. /\ main = "drain" /\ encQ # << >>
          /\ encryptedQ' = Append(encryptedQ, Head(encQ)) /\ encQ' = Tail(encQ)
          /\ UNCHANGED <<main, cut, sliceQ, locQ, locatedQ, finished, failedQ, stuck, failedTwice, moving>>
      BY <1>7 DEF Encrypt, restVars, otherVars
    <2>2. /\ IsInjective(encQ) /\ IsInjective(encryptedQ) /\ Range(encQ) \cap Range(encryptedQ) = {}
          /\ finished \cap Lost = {} /\ Waiting \cap (finished \cup Lost) = {}
      BY <2>1 DEF DrainInv
    <2>3. PICK x : x = Head(encQ)
      OBVIOUS
    <2>4. /\ Range(encQ) = Range(encQ') \cup {x} /\ x \notin Range(encQ') /\ IsInjective(encQ') /\ x \in Copies
      BY <1>0, <2>1, <2>2, <2>3, RangeOfTail, Taken
    <2>5. Range(encryptedQ') = Range(encryptedQ) \cup {x} /\ IsInjective(encryptedQ')
      BY <1>0, <2>1, <2>2, <2>3, <2>4, RangeOfAppend
    <2>6. Waiting' = Waiting /\ Lost' = Lost /\ Made' = Made
      BY <2>1, <2>4, <2>5 DEF Waiting, Lost, Made
    <2>7. Range(encQ') \cap Range(encryptedQ') = {}
      BY <2>2, <2>4, <2>5
    <2>8. Spread' = Spread
      BY <2>1 DEF Spread
    <2> QED
      BY <1>0, <2>1, <2>4, <2>5, <2>6, <2>7, <2>8 DEF DrainInv, NodesOf
  <1>8. ASSUME NEW o \in Outcomes, Distribute(o) PROVE DrainInv'
    <2>0. Cardinality(failedQ) \in Nat /\ FailedCap \in Nat
      BY CopiesFinite, PipelineAssumption DEF Typed, PushTyped
    <2>1. /\ main = "drain" /\ encryptedQ # << >> /\ encryptedQ' = Tail(encryptedQ)
          /\ UNCHANGED <<main, cut, sliceQ, locQ, locatedQ, encQ, failedTwice, moving>>
      BY <1>8 DEF Distribute, otherVars
    <2>2. /\ IsInjective(encQ) /\ IsInjective(encryptedQ) /\ Range(encQ) \cap Range(encryptedQ) = {}
          /\ finished \cap Lost = {} /\ Waiting \cap (finished \cup Lost) = {}
      BY <2>1 DEF DrainInv
    <2>3. PICK x : x = Head(encryptedQ)
      OBVIOUS
    <2>4. /\ Range(encryptedQ) = Range(encryptedQ') \cup {x} /\ x \notin Range(encryptedQ')
          /\ IsInjective(encryptedQ')
      BY <1>0, <2>1, <2>2, <2>3, RangeOfTail
    <2>5. \/ finished' = finished \cup {x} /\ Lost' = Lost
          \/ finished' = finished /\ Lost' = Lost \cup {x}
      <3>1. CASE o = "ok"
        BY <1>8, <2>3, <3>1 DEF Distribute, Lost
      <3>2. CASE o # "ok" /\ Cardinality(failedQ) < FailedCap
        <4>1. ~(Cardinality(failedQ) >= FailedCap)
          BY <2>0, <3>2
        <4> QED
          BY <1>8, <2>3, <3>2, <4>1 DEF Distribute, Lost
      <3>3. CASE o # "ok" /\ ~(Cardinality(failedQ) < FailedCap)
        <4>1. Cardinality(failedQ) >= FailedCap
          BY <2>0, <3>3
        <4> QED
          BY <1>8, <2>3, <3>3, <4>1 DEF Distribute, Lost
      <3> QED
        BY <3>1, <3>2, <3>3
    <2>6. Waiting' = Waiting \ {x} /\ x \in Waiting
      BY <2>1, <2>2, <2>4 DEF Waiting
    <2>7. Made' = Made
      BY <2>5, <2>6 DEF Made
    <2>8. /\ finished' \cap Lost' = {} /\ Waiting' \cap (finished' \cup Lost') = {}
          /\ Range(encQ') \cap Range(encryptedQ') = {}
      BY <2>1, <2>2, <2>4, <2>5, <2>6
    <2>9. Spread' = Spread
      BY <2>1 DEF Spread
    <2> QED
      BY <1>0, <2>1, <2>2, <2>4, <2>7, <2>8, <2>9 DEF DrainInv, NodesOf
  <1>9. CASE StartRetry \/ RetryEnds \/ Publish \/ GiveUp
    BY <1>2, <1>9 DEF StartRetry, RetryEnds, Publish, GiveUp
  <1>10. CASE UNCHANGED vars \/ FeedEnds \/ CollectMeta \/ Done
    BY <1>1, <1>10 DEF vars, pipeVars, restVars, otherVars, FeedEnds, CollectMeta, Done, Spread
  <1>11. CASE EncryptFails \/ ClientLeaves \/ OtherFails
    BY <1>11 DEF EncryptFails, ClientLeaves, OtherFails
  <1>12. CASE \E s \in Stages : Return(s)
    BY <1>1, <1>12 DEF pipeVars, otherVars, Return, Spread
  <1>13. CASE \/ \E c \in Copies, o \in Outcomes : Retry(c, o)
              \/ \E c \in Copies : RetryTimeout(c) \/ OtherBegin(c)
              \/ \E c \in Copies, n \in Nodes, o \in Outcomes : OtherPush(c, n, o)
    BY <1>2, <1>13 DEF Retry, RetryTimeout, OtherBegin, OtherPush
  <1> QED
    BY <1>3, <1>4, <1>5, <1>6, <1>7, <1>8, <1>9, <1>10, <1>11, <1>12, <1>13
       DEF Next, System, Pipeline, Pushing

LEMMA RetryStep ==
    ASSUME Typed, LineInv, ClosingInv, DrainInv, RetryInv, ~cancelled, ~cancelled', [Next]_vars
    PROVE  RetryInv'
  <1>0. SliceNos' = SliceNos /\ Replica' = Replica
    BY SameFile
  <1>1. CASE UNCHANGED <<main, finished, retrying, failedTwice, moving>>
    <2>1. Loops("run")' = Loops("run")
      BY <1>1 DEF Loops
    <2> QED
      BY <1>0, <1>1, <2>1 DEF RetryInv, NodesOf
  <1>2. CASE main' # "retry"
    BY <1>2 DEF RetryInv
  <1>3. CASE StartRetry
    <2>1. /\ main = "drain" /\ pool["distribute"] = 0 /\ stuck = {}
          /\ retrying' = [c \in failedQ |-> [left |-> Retries, reader |-> "whole", at |-> "run"]]
          /\ UNCHANGED <<finished, failedTwice, moving>>
      BY <1>3 DEF StartRetry, FinishedClosed, otherVars
    <2>2. Loops("run")' = failedQ
      BY <2>1 DEF Loops
    <2>3. /\ cut = NSlices /\ sliceQ = << >> /\ locQ = << >> /\ locatedQ = << >>
          /\ encQ = << >> /\ encryptedQ = << >>
      <3>1. 0 < Workers /\ Workers \in Nat
        BY PipelineAssumption
      <3>2. EncryptedClosed /\ encryptedQ = << >>
        BY <2>1, <3>1 DEF ClosingInv
      <3>3. encFed /\ encQ = << >>
        BY <3>1, <3>2 DEF ClosingInv, EncryptedClosed
      <3>4. locatedQ = << >> /\ fed /\ locQ = << >> /\ sliceQ = << >> /\ cut = NSlices
        BY <3>3 DEF ClosingInv
      <3> QED
        BY <3>2, <3>3, <3>4
    <2>4. Spread = NSlices
      <3>1. Len(sliceQ) = 0 /\ Len(locQ) = 0 /\ Len(locatedQ) = 0 /\ cut \in Nat
        BY <2>3, Lengths
      <3> QED
        BY <2>3, <3>1 DEF Spread
    <2>5. Waiting = {}
      <3>1. DOMAIN encQ = {} /\ DOMAIN encryptedQ = {}
        BY <2>3
      <3> QED
        BY <3>1 DEF Waiting, Range
    <2>6. failedTwice = {} /\ moving = {} /\ finished \cap failedQ = {}
      BY <2>1 DEF DrainInv, Lost
    <2>7. Made = finished \cup failedQ
      BY <2>1, <2>5 DEF Made, Lost
    <2>8. \A s \in SliceNos : Cardinality(NodesOf(finished \cup failedQ, s)) = Replica
      <3> TAKE s \in SliceNos
      <3>1. s <= Spread
        BY <2>4 DEF SliceNos
      <3> QED
        BY <2>1, <2>7, <3>1 DEF DrainInv
    <2>9. (finished \cup Loops("run") \cup failedTwice)' = finished \cup failedQ
      BY <2>1, <2>2, <2>6
    <2> QED
      BY <1>0, <2>1, <2>2, <2>6, <2>8, <2>9 DEF RetryInv, NodesOf
  <1>4. ASSUME NEW c \in Copies, NEW o \in Outcomes, Retry(c, o) PROVE RetryInv'
    <2>1. main = "retry" /\ c \in Loops("run") /\ UNCHANGED <<main, failedTwice, moving>>
      BY <1>4 DEF Retry, otherVars
    <2>2. /\ finished \cap (Loops("run") \cup failedTwice) = {} /\ Loops("run") \cap failedTwice = {}
          /\ \A s \in SliceNos :
                Cardinality(NodesOf(finished \cup Loops("run") \cup failedTwice, s)) = Replica
          /\ moving = {}
      BY <2>1 DEF RetryInv
    <2>3. CASE o = "ok"
      <3>1. retrying' = [retrying EXCEPT ![c].at = "ok"] /\ finished' = finished \cup {c}
        BY <1>4, <2>3 DEF Retry
      <3>2. c \in DOMAIN retrying /\ retrying[c] \in LoopRec
        BY <2>1 DEF Loops, Typed, PushTyped
      <3>3. Loops("run")' = Loops("run") \ {c}
        BY <3>1, <3>2 DEF Loops, LoopRec
      <3>4. (finished \cup Loops("run") \cup failedTwice)' = finished \cup Loops("run") \cup failedTwice
        BY <2>1, <3>1, <3>3
      <3>5. /\ finished' \cap (Loops("run")' \cup failedTwice') = {}
            /\ Loops("run")' \cap failedTwice' = {}
        BY <2>1, <2>2, <3>1, <3>3
      <3> QED
        BY <1>0, <2>1, <2>2, <3>4, <3>5 DEF RetryInv, NodesOf
    <2>4. CASE o # "ok"
      <3>1. /\ retrying' = [retrying EXCEPT
                   ![c] = [left |-> retrying[c].left - 1, at |-> "run",
                           reader |-> ReaderAfter(retrying[c].reader, o)]]
            /\ UNCHANGED finished
        BY <1>4, <2>4 DEF Retry
      <3>2. Loops("run")' = Loops("run")
        BY <2>1, <3>1 DEF Loops
      <3> QED
        BY <1>0, <2>1, <2>2, <3>1, <3>2 DEF RetryInv, NodesOf
    <2> QED
      BY <2>3, <2>4
  <1>5. ASSUME NEW c \in Copies, RetryTimeout(c) PROVE RetryInv'
    <2>1. /\ main = "retry" /\ c \in Loops("run") /\ UNCHANGED <<main, finished, moving>>
          /\ retrying' = [retrying EXCEPT ![c].at = "failed"] /\ failedTwice' = failedTwice \cup {c}
      BY <1>5 DEF RetryTimeout
    <2>2. /\ finished \cap (Loops("run") \cup failedTwice) = {} /\ Loops("run") \cap failedTwice = {}
          /\ \A s \in SliceNos :
                Cardinality(NodesOf(finished \cup Loops("run") \cup failedTwice, s)) = Replica
          /\ moving = {}
      BY <2>1 DEF RetryInv
    <2>3. c \in DOMAIN retrying /\ retrying[c] \in LoopRec
      BY <2>1 DEF Loops, Typed, PushTyped
    <2>4. Loops("run")' = Loops("run") \ {c}
      BY <2>1, <2>3 DEF Loops, LoopRec
    <2>5. (finished \cup Loops("run") \cup failedTwice)' = finished \cup Loops("run") \cup failedTwice
      BY <2>1, <2>4
    <2>6. /\ finished' \cap (Loops("run")' \cup failedTwice') = {}
          /\ Loops("run")' \cap failedTwice' = {}
      BY <2>1, <2>2, <2>4
    <2> QED
      BY <1>0, <2>1, <2>2, <2>5, <2>6 DEF RetryInv, NodesOf
  <1>6. CASE RetryEnds \/ Publish \/ GiveUp
    BY <1>2, <1>6 DEF RetryEnds, Publish, GiveUp
  <1>7. CASE \/ UNCHANGED vars \/ Slice \/ Feed \/ FeedEnds \/ CollectMeta \/ Locate \/ FeedCopies
             \/ Encrypt \/ Done
    BY <1>1, <1>7 DEF vars, restVars, otherVars, Slice, Feed, FeedEnds, CollectMeta, Locate, FeedCopies,
       Encrypt, Done
  <1>8. CASE EncryptFails \/ ClientLeaves \/ OtherFails
    BY <1>8 DEF EncryptFails, ClientLeaves, OtherFails
  <1>9. CASE (\E s \in Stages : Return(s)) \/ (\E o \in Outcomes : Distribute(o))
    BY <1>1, <1>2, <1>9 DEF otherVars, Return, Distribute
  <1>10. CASE \/ \E c \in Copies : OtherBegin(c)
              \/ \E c \in Copies, n \in Nodes, o \in Outcomes : OtherPush(c, n, o)
    BY <1>2, <1>10 DEF OtherBegin, OtherPush
  <1> QED
    BY <1>3, <1>4, <1>5, <1>6, <1>7, <1>8, <1>9, <1>10 DEF Next, System, Pipeline, Pushing

\* Moving a copy to another node: one copy less to place, one more in place.
LEMMA MovedCopy ==
    ASSUME Typed, OtherInv, main = "other", NEW c \in Copies, c \in moving,
           NEW n \in Nodes, n \in NextNodes(c[1])
    PROVE  \A s \in SliceNos :
              Cardinality(NodesOf(finished \cup {<<c[1], n>>}, s))
                + Cardinality(NodesOf(failedTwice \ {c}, s)) = Replica
  <1>1. /\ finished \subseteq tried /\ c \in failedTwice
        /\ \A s \in SliceNos :
              Cardinality(NodesOf(finished, s)) + Cardinality(NodesOf(failedTwice, s)) = Replica
    BY DEF OtherInv
  <1>2. <<c[1], n>> \notin tried
    BY DEF NextNodes, TriedNodes
  <1>3. c[1] \in SliceNos /\ c[2] \in Nodes /\ c = <<c[1], c[2]>>
    BY DEF Copies
  <1> TAKE s \in SliceNos
  <1>4. CASE s # c[1]
    <2>1. NodesOf(finished \cup {<<c[1], n>>}, s) = NodesOf(finished, s)
      BY <1>4 DEF NodesOf
    <2>2. NodesOf(failedTwice \ {c}, s) = NodesOf(failedTwice, s)
      BY <1>3, <1>4 DEF NodesOf
    <2> QED
      BY <1>1, <2>1, <2>2
  <1>5. CASE s = c[1]
    <2>1. NodesOf(finished \cup {<<c[1], n>>}, s) = NodesOf(finished, s) \cup {n} /\ n \notin NodesOf(finished, s)
      BY <1>1, <1>2, <1>5 DEF NodesOf
    <2>2. NodesOf(failedTwice \ {c}, s) = NodesOf(failedTwice, s) \ {c[2]} /\ c[2] \in NodesOf(failedTwice, s)
      BY <1>1, <1>3, <1>5 DEF NodesOf
    <2>3. Cardinality(NodesOf(finished \cup {<<c[1], n>>}, s)) = Cardinality(NodesOf(finished, s)) + 1
      BY <2>1, NodesOfFinite, FS_AddElement
    <2>4. Cardinality(NodesOf(failedTwice \ {c}, s)) = Cardinality(NodesOf(failedTwice, s)) - 1
      <3>1. PICK A, x : A = NodesOf(failedTwice, s) /\ x = c[2]
        OBVIOUS
      <3>2. IsFiniteSet(A) /\ x \in A
        BY <2>2, <3>1, NodesOfFinite
      <3>3. Cardinality(A \ {x}) = Cardinality(A) - 1
        BY <3>2, FS_RemoveElement
      <3> QED
        BY <2>2, <3>1, <3>3
    <2>5. Cardinality(NodesOf(finished, s)) \in Nat /\ Cardinality(NodesOf(failedTwice, s)) \in Nat
      BY NodesOfFinite
    <2> QED
      BY <1>1, <2>3, <2>4, <2>5
  <1> QED
    BY <1>4, <1>5

LEMMA OtherStep ==
    ASSUME Typed, RetryInv, OtherInv, ~cancelled, ~cancelled', [Next]_vars PROVE OtherInv'
  <1>0. SliceNos' = SliceNos /\ Replica' = Replica
    BY SameFile
  <1>1. CASE UNCHANGED <<main, finished, tried, failedTwice, moving>>
    BY <1>0, <1>1 DEF OtherInv, NodesOf
  <1>2. CASE main' \notin {"other", "published"}
    BY <1>2 DEF OtherInv
  <1>3. CASE RetryEnds
    <2>1. main = "retry" /\ Loops("run") = {} /\ main' = "other" /\ tried' = finished
          /\ UNCHANGED <<finished, failedTwice, moving>>
      BY <1>3 DEF RetryEnds
    <2>2. moving = {} /\ finished \cap failedTwice = {}
      BY <2>1 DEF RetryInv
    <2>3. \A s \in SliceNos :
             Cardinality(NodesOf(finished, s)) + Cardinality(NodesOf(failedTwice, s)) = Replica
      <3> TAKE s \in SliceNos
      <3>1. NodesOf(finished \cup Loops("run") \cup failedTwice, s) = NodesOf(finished, s) \cup NodesOf(failedTwice, s)
        BY <2>1 DEF NodesOf
      <3>2. Cardinality(NodesOf(finished \cup Loops("run") \cup failedTwice, s)) = Replica
        BY <2>1 DEF RetryInv
      <3>3. NodesOf(finished, s) \cap NodesOf(failedTwice, s) = {}
        BY <2>2 DEF NodesOf
      <3>4. PICK A, B : A = NodesOf(finished, s) /\ B = NodesOf(failedTwice, s)
        OBVIOUS
      <3>5. IsFiniteSet(A) /\ IsFiniteSet(B) /\ Cardinality(A) \in Nat /\ Cardinality(B) \in Nat
        BY <3>4, NodesOfFinite
      <3>6. Cardinality(A \cup B) = Cardinality(A) + Cardinality(B) - Cardinality(A \cap B)
        BY <3>5, FS_Union
      <3>7. Cardinality(A \cap B) = 0
        BY <3>3, <3>4, FS_EmptySet
      <3>8. Cardinality(A \cup B) = Replica
        BY <3>1, <3>2, <3>4
      <3>9. Cardinality(A) + Cardinality(B) = Replica
        BY <3>5, <3>6, <3>7, <3>8
      <3> QED
        BY <3>4, <3>9
    <2> QED
      BY <1>0, <2>1, <2>2, <2>3 DEF OtherInv, NodesOf
  <1>4. ASSUME NEW c \in Copies, OtherBegin(c) PROVE OtherInv'
    <2>1. /\ main = "other" /\ c \in failedTwice /\ moving' = {c} /\ tried' = tried \cup {c}
          /\ UNCHANGED <<main, finished, failedTwice>>
      BY <1>4 DEF OtherBegin
    <2> QED
      BY <1>0, <2>1 DEF OtherInv, NodesOf
  <1>5. ASSUME NEW c \in Copies, NEW n \in Nodes, NEW o \in Outcomes, OtherPush(c, n, o) PROVE OtherInv'
    <2>1. /\ main = "other" /\ c \in moving /\ n \in NextNodes(c[1]) /\ UNCHANGED main
          /\ tried' = tried \cup {<<c[1], n>>}
      BY <1>5 DEF OtherPush
    <2>2. CASE o = "ok"
      <3>1. finished' = finished \cup {<<c[1], n>>} /\ failedTwice' = failedTwice \ {c} /\ moving' = {}
        BY <1>5, <2>2 DEF OtherPush
      <3>2. \A s \in SliceNos :
               Cardinality(NodesOf(finished', s)) + Cardinality(NodesOf(failedTwice', s)) = Replica
        BY <2>1, <3>1, MovedCopy
      <3>3. finished' \subseteq tried'
        BY <2>1, <3>1 DEF OtherInv
      <3> QED
        BY <1>0, <2>1, <3>1, <3>2, <3>3 DEF OtherInv, NodesOf
    <2>3. CASE o # "ok"
      <3>1. UNCHANGED <<finished, failedTwice, moving>>
        BY <1>5, <2>3 DEF OtherPush
      <3> QED
        BY <1>0, <2>1, <3>1 DEF OtherInv, NodesOf
    <2> QED
      BY <2>2, <2>3
  <1>6. CASE Publish
    <2>1. main = "other" /\ failedTwice = {} /\ UNCHANGED <<finished, tried, failedTwice, moving>>
      BY <1>6 DEF Publish, otherVars
    <2> QED
      BY <1>0, <2>1 DEF OtherInv, NodesOf
  <1>7. CASE StartRetry \/ GiveUp
    BY <1>2, <1>7 DEF StartRetry, GiveUp
  <1>8. CASE \/ UNCHANGED vars \/ Slice \/ Feed \/ FeedEnds \/ CollectMeta \/ Locate \/ FeedCopies
             \/ Encrypt \/ Done
    BY <1>1, <1>8 DEF vars, restVars, otherVars, Slice, Feed, FeedEnds, CollectMeta, Locate, FeedCopies,
       Encrypt, Done
  <1>9. CASE EncryptFails \/ ClientLeaves \/ OtherFails
    BY <1>9 DEF EncryptFails, ClientLeaves, OtherFails
  <1>10. CASE \/ \E s \in Stages : Return(s)
              \/ \E o \in Outcomes : Distribute(o)
              \/ \E c \in Copies, o \in Outcomes : Retry(c, o)
              \/ \E c \in Copies : RetryTimeout(c)
    BY <1>2, <1>10 DEF Return, Distribute, Retry, RetryTimeout
  <1> QED
    BY <1>3, <1>4, <1>5, <1>6, <1>7, <1>8, <1>9, <1>10 DEF Next, System, Pipeline, Pushing

LEMMA ReplicaStep ==
    ASSUME Typed, OrderInv, ReplicaInv, [Next]_vars PROVE ReplicaInv'
  <1>1. CASE cancelled' = TRUE
    BY <1>1 DEF ReplicaInv
  <1>2. CASE cancelled /\ cancelled' = cancelled
    BY <1>2 DEF ReplicaInv
  <1>3. cancelled' = TRUE \/ cancelled' = cancelled
    BY DEF Next, System, Pipeline, Pushing, vars, restVars, Slice, Feed, FeedEnds, CollectMeta,
           Locate, FeedCopies, Encrypt, EncryptFails, Return, ClientLeaves, Distribute, StartRetry,
           Retry, RetryTimeout, RetryEnds, OtherBegin, OtherPush, OtherFails, Publish, GiveUp, Done
  <1>4. CASE ~cancelled /\ cancelled' = cancelled
    BY <1>4, LineStep, ClosingStep, DrainStep, RetryStep, OtherStep DEF ReplicaInv
  <1> QED
    BY <1>1, <1>2, <1>3, <1>4

LEMMA ReplicaInit ==
    ASSUME Init PROVE ReplicaInv
  <1>1. /\ main = "drain" /\ cut = 0 /\ slicer = "run" /\ fed = FALSE /\ encFed = FALSE
        /\ sliceQ = << >> /\ locQ = << >> /\ locatedQ = << >> /\ encQ = << >> /\ encryptedQ = << >>
        /\ pool["locate"] = Workers /\ pool["encrypt"] = Workers /\ pool["distribute"] = Workers
        /\ finished = {} /\ failedQ = {} /\ stuck = {} /\ failedTwice = {} /\ moving = {}
    BY DEF Init, Stages
  <1>2. DOMAIN encQ = {} /\ DOMAIN encryptedQ = {} /\ DOMAIN locQ = {} /\ DOMAIN locatedQ = {}
    BY <1>1
  <1>3. Len(sliceQ) = 0 /\ Len(locQ) = 0 /\ Len(locatedQ) = 0
    BY <1>1
  <1>4. Spread = 0
    <2>1. cut = 0
      BY <1>1
    <2> QED
      BY <1>3, <2>1 DEF Spread
  <1>5. LineInv
    BY <1>2 DEF LineInv
  <1>6. ClosingInv
    BY <1>1, PipelineAssumption DEF ClosingInv
  <1>7. DrainInv
    <2>1. Range(encQ) = {} /\ Range(encryptedQ) = {} /\ IsInjective(encQ) /\ IsInjective(encryptedQ)
      BY <1>2 DEF Range, IsInjective
    <2>2. Waiting = {} /\ Lost = {} /\ Made = {}
      BY <1>1, <2>1 DEF Waiting, Lost, Made
    <2>3. \A s \in SliceNos : NodesOf(Made, s) = {}
      BY <2>2 DEF NodesOf
    <2>4. \A s \in SliceNos : ~(s <= Spread)
      <3>1. SliceNos \subseteq Nat \ {0}
        BY TypedInit, ShapeFacts DEF Typed, PipeTyped
      <3> QED
        BY <1>4, <3>1
    <2> QED
      BY <1>1, <2>1, <2>2, <2>3, <2>4 DEF DrainInv
  <1>8. RetryInv /\ OtherInv
    BY <1>1 DEF RetryInv, OtherInv
  <1> QED
    BY <1>5, <1>6, <1>7, <1>8 DEF ReplicaInv

(***************************************************************************)
(* A file published for a client that waited has exactly the replicas of   *)
(* its namespace on different nodes, whichever pushes failed.              *)
(***************************************************************************)
THEOREM PublishedIsReplicated == Spec => []FullyReplicated
  <1>1. Init => Typed /\ OrderInv /\ ReplicaInv
    BY TypedInit, OrderInit, ReplicaInit
  <1>2. Typed /\ OrderInv /\ ReplicaInv /\ [Next]_vars => (Typed /\ OrderInv /\ ReplicaInv)'
    BY TypedStep, OrderStep, ReplicaStep
  <1>3. Typed /\ OrderInv /\ ReplicaInv => FullyReplicated
    <2> SUFFICES ASSUME Typed, ReplicaInv, main = "published", ~cancelled, NEW s \in SliceNos
                 PROVE  Cardinality(Holders(s)) = Replica
      BY DEF FullyReplicated
    <2>1. /\ Cardinality(NodesOf(finished, s)) + Cardinality(NodesOf(failedTwice, s)) = Replica
          /\ failedTwice = {}
      BY DEF ReplicaInv, OtherInv
    <2>2. NodesOf(failedTwice, s) = {} /\ NodesOf(finished, s) = Holders(s)
      BY <2>1 DEF NodesOf, Holders
    <2>3. Cardinality(NodesOf(failedTwice, s)) = 0 /\ Cardinality(NodesOf(finished, s)) \in Nat
      BY <2>2, NodesOfFinite, FS_EmptySet
    <2> QED
      BY <2>1, <2>2, <2>3
  <1> QED
    BY <1>1, <1>2, <1>3, PTL DEF Spec
==============================================================================
