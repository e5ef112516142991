----------------------- MODULE SliceMaintenance_proofs -----------------------
(***************************************************************************)
(* Proofs about the upkeep of a stored file, for any number of slices,     *)
(* storage nodes and replicas, any changes of health and any failures.     *)
(***************************************************************************)
EXTENDS SliceMaintenance, FiniteSetTheorems, WellFoundedInduction, TLAPS

-----------------------------------------------------------------------------
(***************************************************************************)
(* Indexes: getNodeSliceIdx returns one that is not used on the node.      *)
(***************************************************************************)

\* A set of natural numbers that is bounded and not empty has a greatest element.
LEMMA GreatestExists ==
    ASSUME NEW b \in Nat, NEW T \in SUBSET (0..b), T # {}
    PROVE  \E i \in T : \A j \in T : j <= i
  <1> DEFINE R == OpToRel(<, Nat)
             D == {b - i : i \in T}
  <1>1. IsWellFoundedOn(R, Nat)
    BY NatLessThanWellFounded
  <1>2. \A x, y \in Nat : <<y, x>> \in R <=> y < x
    BY DEF OpToRel
  <1>3. \A i \in T : b - i \in Nat
    OBVIOUS
  <1>4. D \in SUBSET Nat
    BY <1>3
  <1>5. D # {}
    OBVIOUS
  <1> HIDE DEF R, D
  <1>6. PICK x \in D : \A y \in D : ~ (<<y, x>> \in R)
    BY <1>1, <1>4, <1>5, WFMin
  <1>7. PICK i \in T : x = b - i
    BY DEF D
  <1>8. ASSUME NEW j \in T PROVE j <= i
    <2>1. b - j \in D
      BY DEF D
    <2>2. ~ (b - j < x)
      BY <1>2, <1>3, <1>4, <1>6, <2>1
    <2> QED
      BY <1>7, <2>2
  <1> QED
    BY <1>8

LEMMA IdxIsNew ==
    ASSUME NEW M \in SUBSET SliceMeta, NEW b \in Nat, \A m \in M : m.idx <= b, NEW n
    PROVE  /\ getNodeSliceIdx(M, n) \in 1..(b + 1)
           /\ \A m \in M : m.node = n => m.idx < getNodeSliceIdx(M, n)
  <1> DEFINE used == {0} \cup {m.idx : m \in {x \in M : x.node = n}}
  <1>1. used \in SUBSET (0..b)
    <2>1. \A m \in M : m.idx \in 0..b
      BY DEF SliceMeta
    <2> QED
      BY <2>1
  <1>2. used # {}
    OBVIOUS
  <1>3. \A m \in M : m.node = n => m.idx \in used
    OBVIOUS
  <1>4. getNodeSliceIdx(M, n) = (CHOOSE i \in used : \A j \in used : j <= i) + 1
    BY DEF getNodeSliceIdx
  <1> HIDE DEF used
  <1>5. \E i \in used : \A j \in used : j <= i
    BY <1>1, <1>2, GreatestExists
  <1>6. PICK top : top = CHOOSE i \in used : \A j \in used : j <= i
    OBVIOUS
  <1>7. top \in used /\ \A j \in used : j <= top
    BY <1>5, <1>6
  <1>8. top \in 0..b /\ getNodeSliceIdx(M, n) = top + 1
    BY <1>1, <1>4, <1>6, <1>7
  <1>9. \A m \in M : m.node = n => m.idx < top + 1
    <2> SUFFICES ASSUME NEW m \in M, m.node = n PROVE m.idx < top + 1
      OBVIOUS
    <2>1. m.idx <= top /\ m.idx \in Nat
      BY <1>3, <1>7 DEF SliceMeta
    <2> QED
      BY <1>8, <2>1
  <1> QED
    BY <1>8, <1>9

-----------------------------------------------------------------------------
(***************************************************************************)
(* A listing as the workers read and write it: slices with different       *)
(* indexes on a node, numbered up to some bound, and no replica less than  *)
(* the file was written with.                                              *)
(***************************************************************************)

Listing(M) ==
    /\ M \in SUBSET SliceMeta
    /\ \E b \in Nat : \A m \in M : m.idx <= b
    /\ \A m1, m2 \in M : m1 # m2 /\ m1.node = m2.node => m1.id # m2.id /\ m1.idx # m2.idx
    /\ \A s \in Slices : Cardinality(HoldersOf(M, s)) >= InitReplica

LEMMA HoldersFinite ==
    ASSUME NEW M \in SUBSET SliceMeta, NEW s
    PROVE  /\ HoldersOf(M, s) \in SUBSET Nodes /\ IsFiniteSet(HoldersOf(M, s))
           /\ Cardinality(HoldersOf(M, s)) \in Nat
  <1>1. HoldersOf(M, s) \in SUBSET Nodes
    BY DEF HoldersOf, SliceMeta
  <1> QED
    BY <1>1, MaintenanceAssumption, FS_Subset, FS_CardinalityType

LEMMA InHolders ==
    ASSUME NEW M, NEW s, NEW n
    PROVE  n \in HoldersOf(M, s) <=> \E m \in M : m.id = s /\ m.node = n
  BY DEF HoldersOf

\* A slice put on nodes that do not hold it.
LEMMA AddCopies ==
    ASSUME NEW M, Listing(M), NEW s \in Slices, NEW N \in SUBSET Nodes,
           N \cap HoldersOf(M, s) = {}
    PROVE  Listing(M \cup {[id |-> s, node |-> n, idx |-> getNodeSliceIdx(M, n)] : n \in N})
  <1> DEFINE new(n) == [id |-> s, node |-> n, idx |-> getNodeSliceIdx(M, n)]
             A == {new(n) : n \in N}
  <1>1. PICK b \in Nat : \A m \in M : m.idx <= b
    BY DEF Listing
  <1>2. M \in SUBSET SliceMeta
    BY DEF Listing
  <1>3. \A n \in N : /\ getNodeSliceIdx(M, n) \in 1..(b + 1)
                     /\ \A m \in M : m.node = n => m.idx < getNodeSliceIdx(M, n)
    BY <1>1, <1>2, IdxIsNew
  <1>4. \A n \in N : new(n) \in SliceMeta /\ new(n).idx <= b + 1
    BY <1>3 DEF SliceMeta
  <1>5. \A m \in A : m.node \in N /\ m.id = s /\ m = new(m.node) /\ m \in SliceMeta /\ m.idx <= b + 1
    BY <1>4
  <1>6. \A m \in A : \A x \in M : x.node = m.node => x.idx < m.idx
    BY <1>3, <1>5
  <1> HIDE DEF A, new
  <1>7. M \cup A \in SUBSET SliceMeta
    BY <1>2, <1>5
  <1>8. \A m \in M \cup A : m.idx <= b + 1
    <2>1. \A m \in M : m.idx <= b + 1
      <3> TAKE m \in M
      <3>1. m.idx \in Nat /\ m.idx <= b
        BY <1>1, <1>2 DEF SliceMeta
      <3> QED
        BY <3>1
    <2> QED
      BY <1>5, <2>1
  <1>9. ASSUME NEW m1 \in M \cup A, NEW m2 \in M \cup A, m1 # m2, m1.node = m2.node
        PROVE  m1.id # m2.id /\ m1.idx # m2.idx
    <2>1. CASE m1 \in M /\ m2 \in M
      BY <1>9, <2>1 DEF Listing
    <2>2. CASE m1 \in A /\ m2 \in A
      BY <1>5, <1>9, <2>2
    <2>3. ASSUME NEW x \in M, NEW y \in A, x.node = y.node PROVE x.id # y.id /\ x.idx # y.idx
      <3>1. x.idx < y.idx /\ x.idx \in Nat /\ y.idx \in Nat
        BY <1>2, <1>5, <1>6, <2>3 DEF SliceMeta
      <3>2. y.node \in N /\ y.id = s
        BY <1>5
      <3>3. x.id # s
        BY <2>3, <3>2, InHolders
      <3> QED
        BY <3>1, <3>2, <3>3
    <2> QED
      BY <1>9, <2>1, <2>2, <2>3
  <1>10. ASSUME NEW t \in Slices PROVE Cardinality(HoldersOf(M \cup A, t)) >= InitReplica
    <2>1. HoldersOf(M, t) \subseteq HoldersOf(M \cup A, t)
      BY DEF HoldersOf
    <2>2. /\ IsFiniteSet(HoldersOf(M \cup A, t)) /\ Cardinality(HoldersOf(M \cup A, t)) \in Nat
          /\ Cardinality(HoldersOf(M, t)) \in Nat
      BY <1>2, <1>7, HoldersFinite
    <2>3. Cardinality(HoldersOf(M, t)) <= Cardinality(HoldersOf(M \cup A, t))
      BY <2>1, <2>2, FS_Subset
    <2>4. Cardinality(HoldersOf(M, t)) >= InitReplica
      BY DEF Listing
    <2>5. InitReplica \in Int
      BY MaintenanceAssumption
    <2> QED
      BY <2>2, <2>3, <2>4, <2>5
  <1>11. Listing(M \cup A)
    <2>1. b + 1 \in Nat
      OBVIOUS
    <2> QED
      BY <1>7, <1>8, <1>9, <1>10, <2>1 DEF Listing
  <1> QED
    BY <1>11 DEF A, new

\* A copy of a slice moved to a node that does not hold the slice.
LEMMA MoveCopy ==
    ASSUME NEW M, Listing(M), NEW m \in SliceMeta, NEW n \in Nodes, n \notin HoldersOf(M, m.id)
    PROVE  Listing((M \ {m}) \cup {[id |-> m.id, node |-> n, idx |-> getNodeSliceIdx(M, n)]})
  <1>1. PICK new : new = [id |-> m.id, node |-> n, idx |-> getNodeSliceIdx(M, n)]
    OBVIOUS
  <1>2. M \in SUBSET SliceMeta /\ m.id \in Slices
    BY DEF Listing, SliceMeta
  <1>3. PICK N : N = {n}
    OBVIOUS
  <1>4. Listing(M \cup {new})
    <2>1. Listing(M \cup {[id |-> m.id, node |-> k, idx |-> getNodeSliceIdx(M, k)] : k \in N})
      BY <1>2, <1>3, AddCopies
    <2>2. {[id |-> m.id, node |-> k, idx |-> getNodeSliceIdx(M, k)] : k \in N} = {new}
      BY <1>1, <1>3
    <2> QED
      BY <2>1, <2>2
  <1>5. PICK M2 : M2 = (M \ {m}) \cup {new}
    OBVIOUS
  <1>6. M2 \subseteq M \cup {new} /\ M2 \in SUBSET SliceMeta
    BY <1>4, <1>5 DEF Listing
  <1>7. /\ \E b \in Nat : \A x \in M2 : x.idx <= b
        /\ \A x, y \in M2 : x # y /\ x.node = y.node => x.id # y.id /\ x.idx # y.idx
    BY <1>4, <1>6 DEF Listing
  <1>8. ASSUME NEW s \in Slices PROVE Cardinality(HoldersOf(M2, s)) >= InitReplica
    <2> DEFINE H == HoldersOf(M, s)
    <2>1. /\ IsFiniteSet(H) /\ Cardinality(H) \in Nat
          /\ IsFiniteSet(HoldersOf(M2, s)) /\ Cardinality(HoldersOf(M2, s)) \in Nat
      BY <1>2, <1>6, HoldersFinite
    <2>2. Cardinality(H) >= InitReplica /\ InitReplica \in Int
      BY MaintenanceAssumption DEF Listing
    <2>3. CASE s # m.id
      <3>1. H \subseteq HoldersOf(M2, s)
        BY <1>5, <2>3 DEF HoldersOf
      <3> HIDE DEF H
      <3>2. Cardinality(H) <= Cardinality(HoldersOf(M2, s))
        BY <2>1, <3>1, FS_Subset
      <3> QED
        BY <2>1, <2>2, <3>2
    <2>4. CASE s = m.id
      <3>1. n \notin H
        BY <2>4
      <3>2. (H \ {m.node}) \cup {n} \subseteq HoldersOf(M2, s)
        BY <1>1, <1>5, <2>4, InHolders
      <3> HIDE DEF H
      <3>3. PICK x : x = m.node
        OBVIOUS
      <3>4. IsFiniteSet(H \ {x}) /\ Cardinality(H \ {x}) >= Cardinality(H) - 1 /\ Cardinality(H \ {x}) \in Nat
        <4>1. IsFiniteSet(H \ {x}) /\ Cardinality(H \ {x}) = IF x \in H THEN Cardinality(H) - 1 ELSE Cardinality(H)
          BY <2>1, FS_RemoveElement
        <4>2. Cardinality(H \ {x}) \in Nat
          BY <4>1, FS_CardinalityType
        <4> QED
          BY <2>1, <4>1, <4>2
      <3>5. /\ IsFiniteSet((H \ {x}) \cup {n})
            /\ Cardinality((H \ {x}) \cup {n}) = Cardinality(H \ {x}) + 1
        BY <3>1, <3>4, FS_AddElement
      <3>6. Cardinality((H \ {x}) \cup {n}) <= Cardinality(HoldersOf(M2, s))
        BY <2>1, <3>2, <3>3, FS_Subset
      <3> QED
        BY <2>1, <2>2, <3>4, <3>5, <3>6
    <2> QED
      BY <2>3, <2>4
  <1> QED
    BY <1>1, <1>5, <1>6, <1>7, <1>8 DEF Listing

\* What Write publishes is a listing: every slice on as many nodes as the
\* namespace wants, and the slices of a node are counted through.
Written(place, H) ==
    {m \in {[id |-> s, node |-> n, idx |-> Cardinality({t \in Slices : t <= s /\ n \in place[t]})] :
             s \in Slices, n \in H} : m.node \in place[m.id]}

LEMMA WrittenListing ==
    ASSUME NEW place \in [Slices -> SUBSET Nodes], NEW H \in SUBSET Nodes,
           NEW k \in Int, k >= InitReplica,
           \A s \in Slices : Cardinality(place[s]) = k /\ place[s] \subseteq H
    PROVE  Listing(Written(place, H))
  <1> DEFINE before(s, n) == {t \in Slices : t <= s /\ n \in place[t]}
             num(s, n) == Cardinality(before(s, n))
             all  == {[id |-> s, node |-> n, idx |-> num(s, n)] : s \in Slices, n \in H}
             used == {m \in all : m.node \in place[m.id]}
  <1>1. \A s, n : /\ IsFiniteSet(before(s, n)) /\ Cardinality(before(s, n)) \in Nat
                  /\ Cardinality(before(s, n)) <= Cardinality(Slices)
    <2> TAKE s, n
    <2>1. before(s, n) \subseteq Slices
      OBVIOUS
    <2> HIDE DEF before
    <2> QED
      BY <2>1, MaintenanceAssumption, FS_Subset, FS_CardinalityType
  <1> HIDE DEF before, num
  <1>2. ASSUME NEW m \in used
        PROVE  /\ m.id \in Slices /\ m.node \in H /\ m.node \in place[m.id]
               /\ m = [id |-> m.id, node |-> m.node, idx |-> num(m.id, m.node)]
    <2>1. PICK s \in Slices, n \in H : m = [id |-> s, node |-> n, idx |-> num(s, n)]
      OBVIOUS
    <2>2. m.node \in place[m.id]
      OBVIOUS
    <2>3. m.id = s /\ m.node = n
      BY <2>1
    <2> QED
      BY <2>1, <2>2, <2>3
  <1>3. ASSUME NEW s \in Slices, NEW n \in place[s]
        PROVE  [id |-> s, node |-> n, idx |-> num(s, n)] \in used
    <2>1. n \in H
      OBVIOUS
    <2>2. [id |-> s, node |-> n, idx |-> num(s, n)] \in all
      BY <2>1
    <2> QED
      BY <2>2
  <1> HIDE DEF all, used
  <1>4. used \in SUBSET SliceMeta
    <2>1. \A m \in used : num(m.id, m.node) \in Nat
      BY <1>1 DEF num
    <2>2. \A m \in used : m.id \in Slices /\ m.node \in Nodes
      BY <1>2
    <2>3. ASSUME NEW m \in used PROVE m \in SliceMeta
      BY <1>2, <2>1, <2>2 DEF SliceMeta
    <2> QED
      BY <2>3
  <1>5. \A m \in used : m.idx = Cardinality(before(m.id, m.node)) /\ m.id \in Nat
    <2> TAKE m \in used
    <2>1. m = [id |-> m.id, node |-> m.node, idx |-> num(m.id, m.node)] /\ m.id \in Slices
      BY <1>2
    <2>2. m.idx = num(m.id, m.node)
      BY <2>1
    <2> QED
      BY <2>1, <2>2, MaintenanceAssumption DEF num
  <1>6. Cardinality(Slices) \in Nat /\ \A m \in used : m.idx <= Cardinality(Slices)
    BY <1>1, <1>5, MaintenanceAssumption, FS_CardinalityType
  <1>7. ASSUME NEW m1 \in used, NEW m2 \in used, m1.node = m2.node, m1.id < m2.id
        PROVE  m1.idx < m2.idx
    <2>1. before(m1.id, m1.node) \subseteq before(m2.id, m2.node)
      <3> SUFFICES ASSUME NEW t \in Slices, t <= m1.id PROVE t <= m2.id
        BY <1>7 DEF before
      <3>1. t \in Nat
        BY MaintenanceAssumption
      <3> QED
        BY <1>5, <1>7, <3>1
    <2>2. m2.id \in before(m2.id, m2.node) /\ m2.id \notin before(m1.id, m1.node)
      <3>1. m2.id \in Slices /\ m2.node \in place[m2.id] /\ m2.id \in Nat /\ m1.id \in Nat
        BY <1>2, <1>5
      <3>2. m2.id <= m2.id /\ ~(m2.id <= m1.id)
        BY <1>7, <3>1
      <3> QED
        BY <3>1, <3>2 DEF before
    <2>3. PICK A, B : A = before(m1.id, m1.node) /\ B = before(m2.id, m2.node)
      OBVIOUS
    <2>4. /\ IsFiniteSet(A) /\ IsFiniteSet(B) /\ A \subseteq B /\ A # B
          /\ Cardinality(A) \in Nat /\ Cardinality(B) \in Nat
      BY <1>1, <2>1, <2>2, <2>3
    <2>5. Cardinality(A) <= Cardinality(B) /\ Cardinality(A) # Cardinality(B)
      BY <2>4, FS_Subset
    <2> QED
      BY <1>5, <2>3, <2>4, <2>5
  <1>8. ASSUME NEW m1 \in used, NEW m2 \in used, m1 # m2, m1.node = m2.node
        PROVE  m1.id # m2.id /\ m1.idx # m2.idx
    <2>1. m1.id # m2.id
      BY <1>2, <1>8
    <2>2. m1.id < m2.id \/ m2.id < m1.id
      BY <1>5, <2>1
    <2>3. m1.idx \in Nat /\ m2.idx \in Nat
      BY <1>1, <1>5
    <2>4. m1.idx < m2.idx \/ m2.idx < m1.idx
      BY <1>7, <1>8, <2>2
    <2> QED
      BY <2>1, <2>3, <2>4
  <1>9. ASSUME NEW s \in Slices PROVE Cardinality(HoldersOf(used, s)) >= InitReplica
    <2>1. HoldersOf(used, s) = place[s]
      <3>1. \A n \in HoldersOf(used, s) : n \in place[s]
        BY <1>2, InHolders
      <3>2. \A n \in place[s] : n \in HoldersOf(used, s)
        <4> TAKE n \in place[s]
        <4>1. PICK m \in used : m = [id |-> s, node |-> n, idx |-> num(s, n)]
          BY <1>3
        <4>2. m.id = s /\ m.node = n
          BY <4>1
        <4> QED
          BY <4>2, InHolders
      <3> QED
        BY <3>1, <3>2
    <2> QED
      BY <2>1
  <1>10. Listing(used)
    BY <1>4, <1>6, <1>8, <1>9 DEF Listing
  <1> QED
    BY <1>10 DEF Written, used, all, num, before

-----------------------------------------------------------------------------
(***************************************************************************)
(* The inductive invariant of the chain and of the two workers.            *)
(***************************************************************************)

\* What the namespace, the file and the index of slices by node can be.
ChainInv ==
    /\ FileTypeOK
    /\ Published \subseteq {F} /\ DOMAIN ns \subseteq {Ns}
    /\ \A n \in DOMAIN ns : ns[n].replica >= InitReplica
    /\ F \in Published => Ns \in DOMAIN ns /\ file[F].ns = Ns /\ Listing(file[F].slices)
    /\ \A e \in nodeSlices : e.expire = Expiry

Phases == {"idle", "list", "chain", "expand", "expanded", "reread", "red", "yellow", "migrated"}

WorkerRec == [pc : Phases, replica : 0..MaxReplica, seen : [Nodes -> {Good, Medium, Bad}],
              base : SUBSET SliceMeta, new : SUBSET SliceMeta,
              todo : SUBSET (SliceMeta \cup Slices), yellow : SUBSET SliceMeta]

\* What a worker has read and will write, phase by phase.  While it expands, the
\* slices that it has still to visit have the holders that it has read.
WorkerOK(r) ==
    /\ r \in WorkerRec
    /\ r.pc = "chain" => r.replica >= InitReplica /\ r.new = r.base /\ (r.base = {} \/ Listing(r.base))
    /\ r.pc \in Phases \ {"idle", "list", "chain"} => Listing(r.base) /\ Listing(r.new)
    /\ r.pc = "expand" =>
          r.todo \subseteq Slices /\ \A s \in r.todo : HoldersOf(r.new, s) = HoldersOf(r.base, s)
    /\ r.pc \in {"red", "yellow"} => r.todo \subseteq SliceMeta

StateInv ==
    /\ health \in [Nodes -> {Good, Medium, Bad}]
    /\ store \in [Nodes -> SUBSET Slices]
    /\ clearTime \in [Nodes -> Times]
    /\ worker \in [Workers -> WorkerRec]
    /\ \A w \in Workers : WorkerOK(worker[w])
    /\ events \in 0..MaxEvents

Stored(M) == \A m \in M : m.id \in store[m.node]

\* The slices a worker has read and those it will write are stored.
HasStored(r) == r.pc \notin {"idle", "list"} => Stored(r.base) /\ Stored(r.new)

\* Until the retention period of the first expire time is over, nothing is
\* deleted, and what is listed, or will be, is stored.
StoredInv ==
    /\ \A n \in Nodes : clearTime[n] = 0 \/ clearTime[n] <= now - Retain
    /\ now < Expiry + Retain =>
          /\ F \in Published => Stored(file[F].slices)
          /\ \A w \in Workers : HasStored(worker[w])

Inv == ChainInv /\ StateInv /\ StoredInv

LEMMA IdleOK == WorkerOK(Idle) /\ HasStored(Idle) /\ Idle.pc = "idle"
  <1>1. Idle \in WorkerRec
    <2>1. 0 \in 0..MaxReplica
      BY MaxReplicaAssumption
    <2> QED
      BY <2>1 DEF Idle, WorkerRec, Phases
  <1>2. Idle.pc = "idle"
    BY DEF Idle
  <1> QED
    BY <1>1, <1>2 DEF WorkerOK, HasStored

\* Going on to the next phase keeps what is known of a worker.
LEMMA AdvanceOK ==
    ASSUME NEW r, WorkerOK(r), r.pc \in {"expand", "red", "yellow"}
    PROVE  /\ WorkerOK(Advance(r))
           /\ Advance(r).pc \notin {"idle", "list"} => Advance(r).base = r.base /\ Advance(r).new = r.new
  <1>1. r \in WorkerRec /\ Listing(r.base) /\ Listing(r.new)
    BY DEF WorkerOK, Phases
  <1>2. \/ Advance(r) = r
        \/ Advance(r) = Idle
        \/ Advance(r) = [r EXCEPT !.pc = "expanded"]
        \/ Advance(r) = [r EXCEPT !.pc = "yellow", !.todo = r.yellow, !.yellow = {}]
        \/ Advance(r) = [r EXCEPT !.pc = "migrated"]
    BY DEF Advance
  <1>3. CASE Advance(r) = r
    BY <1>3
  <1>4. CASE Advance(r) = Idle
    BY <1>4, IdleOK
  <1>5. CASE Advance(r) = [r EXCEPT !.pc = "expanded"] \/ Advance(r) = [r EXCEPT !.pc = "migrated"]
    <2>1. PICK q : q = Advance(r)
      OBVIOUS
    <2>2. q \in WorkerRec /\ q.pc \in {"expanded", "migrated"} /\ q.base = r.base /\ q.new = r.new
      BY <1>1, <1>5, <2>1 DEF WorkerRec, Phases
    <2> QED
      BY <1>1, <2>1, <2>2 DEF WorkerOK
  <1>6. CASE Advance(r) = [r EXCEPT !.pc = "yellow", !.todo = r.yellow, !.yellow = {}]
    <2>1. PICK q : q = Advance(r)
      OBVIOUS
    <2>2. /\ q \in WorkerRec /\ q.pc = "yellow" /\ q.base = r.base /\ q.new = r.new
          /\ q.todo \subseteq SliceMeta
      BY <1>1, <1>6, <2>1 DEF WorkerRec, Phases
    <2> QED
      BY <1>1, <2>1, <2>2 DEF WorkerOK
  <1> QED
    BY <1>2, <1>3, <1>4, <1>5, <1>6

-----------------------------------------------------------------------------
(***************************************************************************)
(* The transactions of the contract.                                       *)
(***************************************************************************)

LEMMA SameChain ==
    ASSUME ChainInv, UNCHANGED fileVars PROVE ChainInv'
  BY DEF ChainInv, fileVars, FileTypeOK, Published

LEMMA NsAdded ==
    ASSUME ChainInv, AddFileNs(Ns, InitReplica) PROVE ChainInv'
  <1>1. [replica |-> InitReplica, total |-> 0] \in NsRec /\ InitReplica \in Int
    BY MaintenanceAssumption DEF NsRec
  <1>2. \A n \in DOMAIN ns' : \/ n \in DOMAIN ns /\ ns'[n] = ns[n]
                              \/ n = Ns /\ ns'[n] = [replica |-> InitReplica, total |-> 0]
    <2>1. PICK new : new = [replica |-> InitReplica, total |-> 0]
      OBVIOUS
    <2>2. ns' = [k \in DOMAIN ns \cup {Ns} |-> IF k = Ns THEN new ELSE ns[k]]
      BY <2>1 DEF AddFileNs
    <2> QED
      BY <2>1, <2>2
  <1>3. /\ DOMAIN ns' \subseteq {Ns} /\ DOMAIN ns' \subseteq Namespaces
        /\ \A n \in DOMAIN ns' : ns'[n] \in NsRec /\ ns'[n].replica >= InitReplica
    BY <1>1, <1>2, MaintenanceAssumption DEF ChainInv, FileTypeOK
  <1> QED
    BY <1>3 DEF ChainInv, AddFileNs, FileTypeOK, Published

LEMMA Ticked ==
    ASSUME ChainInv, Tick PROVE ChainInv'
  <1>1. now' \in Times
    BY MaxTimeAssumption DEF Tick, ChainInv, FileTypeOK, Times
  <1> QED
    BY <1>1 DEF ChainInv, Tick, FileTypeOK, Published

LEMMA Extended ==
    ASSUME ChainInv, NEW t \in NewExpiry, UpdateFileExpireTime(F, t)
    PROVE  /\ ChainInv' /\ Published' = Published /\ F \in Published
           /\ file'[F].slices = file[F].slices /\ file'[F].expire = t
  <1>1. F \in Published /\ file[F] \in FileRec /\ t \in Times /\ file' = [file EXCEPT ![F].expire = t]
    BY MaintenanceAssumption DEF ChainInv, FileTypeOK, UpdateFileExpireTime, CanExtend
  <1>2. /\ DOMAIN file' = DOMAIN file
        /\ file'[F] \in FileRec /\ file'[F].slices = file[F].slices /\ file'[F].ns = file[F].ns
        /\ file'[F].expire = t
    BY <1>1 DEF FileRec, Published
  <1>3. \A g \in DOMAIN file' : g = F
    BY <1>2 DEF ChainInv, Published
  <1>4. ChainInv'
    BY <1>1, <1>2, <1>3 DEF ChainInv, UpdateFileExpireTime, FileTypeOK, Published
  <1> QED
    BY <1>1, <1>2, <1>4 DEF Published

LEMMA Raised ==
    ASSUME ChainInv, NEW k \in 0..MaxReplica, k >= InitReplica, UpdateNsReplica(Ns, k) PROVE ChainInv'
  <1>1. Ns \in DOMAIN ns /\ ns[Ns] \in NsRec /\ ns' = [ns EXCEPT ![Ns].replica = k]
    BY DEF ChainInv, FileTypeOK, UpdateNsReplica
  <1>2. k \in 1..MaxReplica
    BY MaintenanceAssumption, MaxReplicaAssumption
  <1>3. DOMAIN ns' = DOMAIN ns /\ ns'[Ns] \in NsRec /\ ns'[Ns].replica = k
    BY <1>1, <1>2 DEF NsRec
  <1>4. \A n \in DOMAIN ns' : n = Ns
    BY <1>3 DEF ChainInv
  <1> QED
    BY <1>3, <1>4 DEF ChainInv, UpdateNsReplica, FileTypeOK, Published

LEMMA WrittenBack ==
    ASSUME ChainInv, NEW M, Listing(M), UpdateFilePublicSliceMeta(F, M)
    PROVE  ChainInv' /\ F \in Published /\ file'[F].slices = M
  <1>1. F \in Published /\ file[F] \in FileRec /\ M \in SUBSET SliceMeta /\ file' = [file EXCEPT ![F].slices = M]
    BY DEF ChainInv, FileTypeOK, UpdateFilePublicSliceMeta, Listing
  <1>2. /\ DOMAIN file' = DOMAIN file
        /\ file'[F] \in FileRec /\ file'[F].slices = M /\ file'[F].ns = file[F].ns
    BY <1>1 DEF FileRec, Published
  <1>3. \A g \in DOMAIN file' : g = F
    BY <1>2 DEF ChainInv, Published
  <1>4. ChainInv'
    BY <1>1, <1>2, <1>3 DEF ChainInv, UpdateFilePublicSliceMeta, FileTypeOK, Published
  <1> QED
    BY <1>1, <1>2, <1>4

LEMMA Publishing ==
    ASSUME ChainInv, NEW M, Listing(M), PublishFile(F, Ns, Name, Expiry, M)
    PROVE  ChainInv' /\ file'[F].slices = M /\ Published' = {F} /\ file'[F].expire = Expiry
  <1>1. M \in SUBSET SliceMeta /\ now \in Times
    BY DEF Listing, ChainInv, FileTypeOK
  <1>2. /\ DOMAIN file' = {F} /\ file'[F].slices = M /\ file'[F].ns = Ns /\ file'[F].expire = Expiry
        /\ file'[F] \in FileRec
    BY <1>1, MaintenanceAssumption DEF PublishFile, Published, ChainInv, FileRec
  <1>3. /\ DOMAIN nameIndex' \subseteq Namespaces \X Names
        /\ \A k \in DOMAIN nameIndex' : nameIndex'[k] \in DOMAIN file'
    <2>1. \A k \in DOMAIN nameIndex' : (k \in DOMAIN nameIndex /\ nameIndex'[k] = nameIndex[k]) \/ (k = <<Ns, Name>> /\ nameIndex'[k] = F)
      BY DEF PublishFile
    <2>2. \A k \in DOMAIN nameIndex : k \in Namespaces \X Names /\ nameIndex[k] \in Published
      BY DEF ChainInv, FileTypeOK
    <2>3. Published \subseteq {F}
      BY DEF ChainInv
    <2> QED
      BY <1>2, <2>1, <2>2, <2>3, MaintenanceAssumption
  <1>4. /\ DOMAIN ns' = DOMAIN ns
        /\ \A n \in DOMAIN ns' : ns'[n] \in NsRec /\ ns'[n].replica = ns[n].replica
    BY DEF PublishFile, ChainInv, FileTypeOK, NsRec
  <1>5. \A e \in nodeSlices' : e \in IndexEntry /\ e.expire = Expiry
    <2>1. ASSUME NEW m \in M
          PROVE  LET e == [node |-> m.node, expire |-> Expiry, file |-> F, ids |-> SlicesOn(M, m.node)]
                 IN e \in IndexEntry /\ e.expire = Expiry
      <3>1. SlicesOn(M, m.node) \in SUBSET Slices /\ m.node \in Nodes
        BY <1>1 DEF SlicesOn, SliceMeta
      <3> QED
        BY <3>1, MaintenanceAssumption DEF IndexEntry
    <2> QED
      BY <2>1 DEF PublishFile, ChainInv, FileTypeOK
  <1>6. ChainInv'
    BY <1>2, <1>3, <1>4, <1>5, MaintenanceAssumption DEF ChainInv, FileTypeOK, Published, PublishFile
  <1> QED
    BY <1>2, <1>6 DEF Published

-----------------------------------------------------------------------------
(***************************************************************************)
(* Steps of a worker.                                                      *)
(***************************************************************************)

\* Only worker w changes, to something that is as it should be.
LEMMA OneWorker ==
    ASSUME StateInv, NEW w \in Workers, NEW q, WorkerOK(q), Set(w, q)
    PROVE  /\ worker' \in [Workers -> WorkerRec] /\ worker'[w] = q
           /\ \A v \in Workers : WorkerOK(worker'[v])
           /\ \A v \in Workers \ {w} : worker'[v] = worker[v]
  <1>1. q \in WorkerRec
    BY DEF WorkerOK
  <1>2. worker' = [worker EXCEPT ![w] = q] /\ worker \in [Workers -> WorkerRec]
    BY DEF Set, StateInv
  <1>3. /\ worker' \in [Workers -> WorkerRec] /\ worker'[w] = q
        /\ \A v \in Workers \ {w} : worker'[v] = worker[v]
    BY <1>1, <1>2
  <1> QED
    BY <1>3 DEF StateInv

\* The chain does not change, and no store loses a slice.
LEMMA WorkerOnly ==
    ASSUME Inv, NEW w \in Workers, NEW q, WorkerOK(q), Set(w, q),
           UNCHANGED <<fileVars, health, clearTime>>,
           store' \in [Nodes -> SUBSET Slices], \A n \in Nodes : store[n] \subseteq store'[n],
           events' \in 0..MaxEvents,
           now < Expiry + Retain => (q.pc \notin {"idle", "list"} =>
                                        \A m \in q.base \cup q.new : m.id \in store'[m.node])
    PROVE  Inv'
  <1>1. /\ worker' \in [Workers -> WorkerRec] /\ worker'[w] = q
        /\ \A v \in Workers : WorkerOK(worker'[v])
        /\ \A v \in Workers \ {w} : worker'[v] = worker[v]
    BY OneWorker DEF Inv
  <1>2. ChainInv'
    BY SameChain DEF Inv
  <1>3. StateInv'
    BY <1>1 DEF Inv, StateInv
  <1>4. UNCHANGED <<file, now>> /\ Published' = Published
    BY DEF fileVars, Published
  <1>5. ASSUME now < Expiry + Retain
        PROVE  /\ F \in Published => Stored(file[F].slices)'
               /\ \A v \in Workers : HasStored(worker[v])'
    <2>1. F \in Published => Stored(file[F].slices)'
      <3> SUFFICES ASSUME F \in Published, NEW m \in file[F].slices PROVE m.id \in store'[m.node]
        BY <1>4 DEF Stored
      <3>1. m \in SliceMeta
        BY DEF Inv, ChainInv, FileTypeOK, FileRec
      <3>2. m.id \in store[m.node] /\ m.node \in Nodes
        BY <1>5, <3>1 DEF Inv, StoredInv, Stored, SliceMeta
      <3> QED
        BY <3>2
    <2>2. ASSUME NEW v \in Workers PROVE HasStored(worker[v])'
      <3>1. CASE v = w
        BY <1>1, <1>5, <3>1 DEF HasStored, Stored
      <3>2. CASE v # w
        <4>1. worker'[v] = worker[v] /\ worker[v] \in WorkerRec
          BY <1>1, <3>2 DEF Inv, StateInv
        <4>2. HasStored(worker[v])
          BY <1>5 DEF Inv, StoredInv
        <4>3. ASSUME NEW m \in worker[v].base \cup worker[v].new PROVE m.node \in Nodes
          BY <4>1, <4>3 DEF WorkerRec, SliceMeta
        <4> QED
          BY <4>1, <4>2, <4>3 DEF HasStored, Stored
      <3> QED
        BY <3>1, <3>2
    <2> QED
      BY <2>1, <2>2
  <1>6. StoredInv'
    BY <1>4, <1>5 DEF Inv, StoredInv
  <1> QED
    BY <1>2, <1>3, <1>6 DEF Inv

\* Reading: a worker takes over the slices of the file.
LEMMA ReadsListing ==
    ASSUME Inv, F \in Published
    PROVE  /\ Listing(file[F].slices) /\ file[F].slices \in SUBSET SliceMeta
           /\ now < Expiry + Retain => \A m \in file[F].slices : m.id \in store[m.node]
  BY DEF Inv, ChainInv, StoredInv, Stored, Listing

LEMMA MigrateTickInv ==
    ASSUME Inv, MigrateTick PROVE Inv'
  <1>1. PICK q : q = [Idle EXCEPT !.pc = "list", !.replica = ns[Ns].replica, !.seen = health]
    OBVIOUS
  <1>2. /\ Set("migrate", q) /\ UNCHANGED <<fileVars, health, clearTime>> /\ store' = store /\ events' = events
        /\ Ns \in DOMAIN ns
    BY <1>1 DEF MigrateTick
  <1>3. ns[Ns].replica \in 0..MaxReplica
    BY <1>2 DEF Inv, ChainInv, FileTypeOK, NsRec
  <1>4. Idle \in WorkerRec /\ health \in [Nodes -> {Good, Medium, Bad}]
    BY IdleOK DEF WorkerOK, Inv, StateInv
  <1>5. q \in WorkerRec /\ q.pc = "list"
    BY <1>1, <1>3, <1>4 DEF WorkerRec, Phases
  <1>6. WorkerOK(q)
    BY <1>5 DEF WorkerOK
  <1> QED
    BY <1>2, <1>5, <1>6, WorkerOnly DEF Inv, StateInv, Workers

LEMMA ExpandableSlices ==
    ASSUME NEW r, r.base \in SUBSET SliceMeta PROVE Expandable(r) \in SUBSET Slices
  BY DEF Expandable, SliceIds, SliceMeta

LEMMA MigrateListInv ==
    ASSUME Inv, MigrateList PROVE Inv'
  <1>1. PICK r : r = [worker["migrate"] EXCEPT !.base = file[F].slices, !.new = file[F].slices]
    OBVIOUS
  <1>2. PICK q : q = IF F \notin ListFiles(Ns) \/ GetFileHealth(r.base, r.replica) = Good
                     THEN Idle
                     ELSE IF TooFew(r.base, r.replica)
                          THEN Advance([r EXCEPT !.pc = "expand", !.todo = Expandable(r)])
                          ELSE [r EXCEPT !.pc = "red", !.todo = r.base]
    OBVIOUS
  <1>3. Set("migrate", q) /\ UNCHANGED <<fileVars, health, clearTime>> /\ store' = store /\ events' = events
    BY <1>1, <1>2 DEF MigrateList
  <1>4. /\ WorkerOK(q)
        /\ now < Expiry + Retain => (q.pc \notin {"idle", "list"} =>
                                        \A m \in q.base \cup q.new : m.id \in store[m.node])
    <2>1. CASE q = Idle
      BY <2>1, IdleOK
    <2>2. CASE F \in ListFiles(Ns)
      <3>1. F \in Published
        BY <2>2 DEF ListFiles
      <3>2. worker["migrate"] \in WorkerRec
        BY DEF Inv, StateInv, Workers
      <3>3. r \in WorkerRec /\ r.base = file[F].slices /\ r.new = file[F].slices
        BY <1>1, <3>1, <3>2, ReadsListing DEF WorkerRec
      <3>4. Listing(r.base) /\ Listing(r.new)
        BY <3>1, <3>3, ReadsListing
      <3>5. PICK a : a = [r EXCEPT !.pc = "expand", !.todo = Expandable(r)]
        OBVIOUS
      <3>6. /\ a \in WorkerRec /\ a.pc = "expand" /\ a.todo \subseteq Slices
            /\ a.base = r.base /\ a.new = r.new
        <4>1. Expandable(r) \in SUBSET Slices
          BY <3>3, ExpandableSlices DEF WorkerRec
        <4> QED
          BY <3>3, <3>5, <4>1 DEF WorkerRec, Phases
      <3>7. WorkerOK(a)
        BY <3>3, <3>4, <3>6 DEF WorkerOK
      <3>8. PICK b : b = [r EXCEPT !.pc = "red", !.todo = r.base]
        OBVIOUS
      <3>9. b \in WorkerRec /\ b.pc = "red" /\ b.todo \subseteq SliceMeta /\ b.base = r.base /\ b.new = r.new
        BY <3>3, <3>8 DEF WorkerRec, Phases
      <3>10. WorkerOK(b)
        BY <3>4, <3>9 DEF WorkerOK
      <3>11. /\ WorkerOK(Advance(a))
             /\ Advance(a).pc \notin {"idle", "list"} => Advance(a).base = a.base /\ Advance(a).new = a.new
        BY <3>6, <3>7, AdvanceOK
      <3>12. q = Idle \/ q = Advance(a) \/ q = b
        BY <1>2, <3>5, <3>8
      <3>13. q # Idle => WorkerOK(q) /\ (q.pc \notin {"idle", "list"} => q.base = file[F].slices /\ q.new = file[F].slices)
        BY <3>3, <3>6, <3>9, <3>10, <3>11, <3>12
      <3> QED
        BY <2>1, <3>1, <3>13, ReadsListing
    <2> QED
      BY <1>2, <2>1, <2>2
  <1> QED
    BY <1>3, <1>4, WorkerOnly DEF Inv, StateInv, Workers

LEMMA MigrateRereadInv ==
    ASSUME Inv, MigrateReread PROVE Inv'
  <1>1. PICK s : s = IF GetFileByID(F) THEN file[F].slices ELSE worker["migrate"].base
    OBVIOUS
  <1>2. PICK q : q = [worker["migrate"] EXCEPT !.pc = "red", !.base = s, !.new = s, !.todo = s]
    OBVIOUS
  <1>3. /\ Set("migrate", q) /\ UNCHANGED <<fileVars, health, clearTime>> /\ store' = store /\ events' = events
        /\ worker["migrate"].pc = "reread"
    BY <1>1, <1>2 DEF MigrateReread, At
  <1>4. worker["migrate"] \in WorkerRec /\ WorkerOK(worker["migrate"])
    BY DEF Inv, StateInv, Workers
  <1>5. Listing(s) /\ (now < Expiry + Retain => \A m \in s : m.id \in store[m.node])
    <2>1. CASE GetFileByID(F)
      BY <1>1, <2>1, ReadsListing DEF GetFileByID
    <2>2. CASE ~GetFileByID(F)
      <3>1. Listing(worker["migrate"].base)
        BY <1>3, <1>4 DEF WorkerOK, Phases
      <3>2. now < Expiry + Retain => Stored(worker["migrate"].base)
        BY <1>3 DEF Inv, StoredInv, HasStored, Workers
      <3> QED
        BY <1>1, <2>2, <3>1, <3>2 DEF Stored
    <2> QED
      BY <2>1, <2>2
  <1>6. /\ q \in WorkerRec /\ q.pc = "red" /\ q.base = s /\ q.new = s /\ q.todo = s
        /\ s \in SUBSET SliceMeta
    <2>1. s \in SUBSET SliceMeta
      BY <1>5 DEF Listing
    <2> QED
      BY <1>2, <1>4, <2>1 DEF WorkerRec, Phases
  <1>7. WorkerOK(q)
    BY <1>5, <1>6 DEF WorkerOK
  <1> QED
    BY <1>3, <1>5, <1>6, <1>7, WorkerOnly DEF Inv, StateInv, Workers

\* A slice that is pushed to nodes, some of which may answer to nobody.
LEMMA PushStores ==
    ASSUME StateInv, NEW s \in Slices, NEW N, Push(s, N)
    PROVE  /\ store' \in [Nodes -> SUBSET Slices]
           /\ \A n \in Nodes : store[n] \subseteq store'[n]
           /\ \A n \in Nodes \cap N : s \in store'[n]
  BY DEF Push, StateInv

\* What a worker remembers when it has put slice s on some nodes.
Expanded(r, s, nodes) ==
    [r EXCEPT !.todo = @ \ {s},
              !.new = @ \cup {[id |-> s, node |-> n, idx |-> getNodeSliceIdx(r.new, n)] : n \in nodes}]

\* The healthy nodes on which it has not seen the slice.
Untried(r, s) == FindNewNodes(r.seen, HoldersOf(r.base, s) \cap GetHealthNodes(r.seen))

\* One slice is expanded to nodes that do not hold it.
LEMMA ExpandEffect ==
    ASSUME Inv, NEW w \in Workers, NEW s \in Slices, ExpandSlice(w, s)
    PROVE  /\ worker[w].pc = "expand" /\ s \in worker[w].todo
           /\ UNCHANGED <<fileVars, health, clearTime>> /\ events' \in 0..MaxEvents
           /\ \E nodes \in SUBSET Untried(worker[w], s) :
                 /\ Go(w, Expanded(worker[w], s, nodes))
                 /\ store' \in [Nodes -> SUBSET Slices]
                 /\ \A n \in Nodes : store[n] \subseteq store'[n]
                 /\ \A n \in Nodes \cap nodes : s \in store'[n]
  <1> DEFINE r     == worker[w]
             held  == HoldersOf(r.base, s) \cap GetHealthNodes(r.seen)
             cands == FindNewNodes(r.seen, held)
             need  == r.replica - Cardinality(held)
             Done(nodes) == Go(w, Expanded(r, s, nodes))
  <1>1. /\ worker[w].pc = "expand" /\ s \in worker[w].todo
        /\ UNCHANGED <<fileVars, health, clearTime>>
    BY DEF ExpandSlice, At
  <1>2. events \in 0..MaxEvents /\ MaxEvents \in Nat /\ StateInv
    BY MaintenanceAssumption DEF Inv, StateInv
  <1>3. events' \in 0..MaxEvents
    <2>1. UNCHANGED events \/ Event
      BY DEF ExpandSlice
    <2> QED
      BY <1>2, <2>1 DEF Event
  <1>4. \/ \E nodes \in SUBSET cands : Done(nodes) /\ Push(s, nodes)
        \/ Done({}) /\ store' = store
        \/ \E nodes \in SUBSET cands : Done(nodes) /\ \E lost \in SUBSET (cands \ nodes) : Push(s, nodes \cup lost)
    BY DEF ExpandSlice, Expanded
  <1> HIDE DEF Done, cands
  <1>5. \E nodes \in SUBSET cands :
           /\ Done(nodes)
           /\ store' \in [Nodes -> SUBSET Slices]
           /\ \A n \in Nodes : store[n] \subseteq store'[n]
           /\ \A n \in Nodes \cap nodes : s \in store'[n]
    <2>1. ASSUME NEW nodes \in SUBSET cands, Done(nodes), NEW N, nodes \subseteq N, Push(s, N)
          PROVE  /\ store' \in [Nodes -> SUBSET Slices]
                 /\ \A n \in Nodes : store[n] \subseteq store'[n]
                 /\ \A n \in Nodes \cap nodes : s \in store'[n]
      BY <1>2, <2>1, PushStores
    <2>2. CASE \E nodes \in SUBSET cands : Done(nodes) /\ Push(s, nodes)
      BY <2>1, <2>2
    <2>3. CASE Done({}) /\ store' = store
      <3>1. {} \in SUBSET cands
        OBVIOUS
      <3>2. store' \in [Nodes -> SUBSET Slices]
        BY <1>2, <2>3 DEF StateInv
      <3> QED
        BY <2>3, <3>1, <3>2
    <2>4. CASE \E nodes \in SUBSET cands : Done(nodes) /\ \E lost \in SUBSET (cands \ nodes) : Push(s, nodes \cup lost)
      <3>1. PICK nodes \in SUBSET cands : Done(nodes) /\ \E lost \in SUBSET (cands \ nodes) : Push(s, nodes \cup lost)
        BY <2>4
      <3>2. PICK lost \in SUBSET (cands \ nodes) : Push(s, nodes \cup lost)
        BY <3>1
      <3>3. nodes \subseteq nodes \cup lost
        OBVIOUS
      <3> QED
        BY <2>1, <3>1, <3>2, <3>3
    <2> QED
      BY <1>4, <2>2, <2>3, <2>4
  <1> QED
    BY <1>1, <1>3, <1>5 DEF Done, cands, Untried

LEMMA ExpandSliceInv ==
    ASSUME Inv, NEW w \in Workers, NEW s \in Slices, ExpandSlice(w, s) PROVE Inv'
  <1>1. PICK r : r = worker[w]
    OBVIOUS
  <1>3. /\ r.pc = "expand" /\ s \in r.todo
        /\ UNCHANGED <<fileVars, health, clearTime>> /\ events' \in 0..MaxEvents
    BY <1>1, ExpandEffect
  <1>4. PICK nodes \in SUBSET Untried(r, s) :
           /\ Go(w, Expanded(r, s, nodes))
           /\ store' \in [Nodes -> SUBSET Slices]
           /\ \A n \in Nodes : store[n] \subseteq store'[n]
           /\ \A n \in Nodes \cap nodes : s \in store'[n]
    BY <1>1, ExpandEffect
  <1>5. /\ WorkerOK(r) /\ r \in WorkerRec /\ Listing(r.base) /\ Listing(r.new)
        /\ r.todo \subseteq Slices /\ \A t \in r.todo : HoldersOf(r.new, t) = HoldersOf(r.base, t)
    BY <1>1, <1>3 DEF Inv, StateInv, WorkerOK, Phases
  <1>6. nodes \in SUBSET Nodes /\ nodes \cap HoldersOf(r.new, s) = {}
    <2>1. HoldersOf(r.new, s) = HoldersOf(r.base, s)
      BY <1>3, <1>5
    <2>2. \A n \in Untried(r, s) : n \in Nodes /\ n \notin HoldersOf(r.base, s)
      BY DEF Untried, FindNewNodes, GetHealthNodes
    <2> QED
      BY <1>4, <2>1, <2>2
  <1>7. PICK A : A = {[id |-> s, node |-> n, idx |-> getNodeSliceIdx(r.new, n)] : n \in nodes}
    OBVIOUS
  <1>8. Listing(r.new \cup A)
    BY <1>5, <1>6, <1>7, AddCopies
  <1>9. \A m \in A : m.id = s /\ m.node \in nodes
    BY <1>7
  <1>10. PICK a : a = [r EXCEPT !.todo = @ \ {s}, !.new = @ \cup A]
    OBVIOUS
  <1>11. /\ a \in WorkerRec /\ a.pc = "expand" /\ a.base = r.base /\ a.new = r.new \cup A
         /\ a.todo = r.todo \ {s}
    <2>1. r.new \cup A \in SUBSET SliceMeta
      BY <1>8 DEF Listing
    <2> QED
      BY <1>3, <1>5, <1>10, <2>1 DEF WorkerRec
  <1>12. \A t \in a.todo : HoldersOf(a.new, t) = HoldersOf(a.base, t)
    <2> TAKE t \in a.todo
    <2>1. t # s /\ HoldersOf(r.new, t) = HoldersOf(r.base, t)
      BY <1>5, <1>11
    <2>2. HoldersOf(r.new \cup A, t) = HoldersOf(r.new, t)
      BY <1>9, <2>1 DEF HoldersOf
    <2> QED
      BY <1>11, <2>1, <2>2
  <1>13. WorkerOK(a)
    BY <1>5, <1>8, <1>11, <1>12 DEF WorkerOK
  <1>14. /\ WorkerOK(Advance(a))
         /\ Advance(a).pc \notin {"idle", "list"} => Advance(a).base = a.base /\ Advance(a).new = a.new
    BY <1>11, <1>13, AdvanceOK
  <1>15. now < Expiry + Retain => \A m \in r.base \cup (r.new \cup A) : m.id \in store'[m.node]
    <2> SUFFICES ASSUME now < Expiry + Retain, NEW m \in r.base \cup (r.new \cup A)
                 PROVE  m.id \in store'[m.node]
      OBVIOUS
    <2>1. CASE m \in A
      BY <1>4, <1>6, <1>9, <2>1
    <2>2. CASE m \in r.base \cup r.new
      <3>1. m \in SliceMeta /\ m.node \in Nodes
        BY <1>5, <2>2 DEF WorkerRec, SliceMeta
      <3>2. m.id \in store[m.node]
        BY <1>1, <1>3, <2>2 DEF Inv, StoredInv, HasStored, Stored
      <3> QED
        BY <1>4, <3>1, <3>2
    <2> QED
      BY <2>1, <2>2
  <1>16. Set(w, Advance(a))
    BY <1>4, <1>7, <1>10 DEF Go, Expanded
  <1> QED
    BY <1>3, <1>4, <1>11, <1>14, <1>15, <1>16, WorkerOnly

\* What a worker remembers when it passes over a slice, or has moved it to node n.
Passed(r, m) == [r EXCEPT !.todo = @ \ {m}]
Moved(r, m, n) ==
    [Passed(r, m) EXCEPT !.new = (@ \ {m}) \cup
                                    {[id |-> m.id, node |-> n, idx |-> getNodeSliceIdx(r.new, n)]}]

LEMMA MigrateEffect ==
    ASSUME Inv, NEW w \in Workers, NEW m \in SliceMeta, NEW cands \in SUBSET Nodes,
           migrateSliceToNewNode(w, m, cands)
    PROVE  /\ events' \in 0..MaxEvents
           /\ store' \in [Nodes -> SUBSET Slices]
           /\ \A n \in Nodes : store[n] \subseteq store'[n]
           /\ \/ Go(w, Passed(worker[w], m))
              \/ \E n \in cands : Go(w, Moved(worker[w], m, n)) /\ m.id \in store'[n]
  <1>1. events \in 0..MaxEvents /\ MaxEvents \in Nat /\ StateInv
    BY MaintenanceAssumption DEF Inv, StateInv
  <1>2. events' \in 0..MaxEvents
    <2>1. UNCHANGED events \/ Event
      BY DEF migrateSliceToNewNode
    <2> QED
      BY <1>1, <2>1 DEF Event
  <1>3. \/ Go(w, Passed(worker[w], m)) /\ store' = store
        \/ Go(w, Passed(worker[w], m)) /\ \E lost \in SUBSET cands : Push(m.id, lost)
        \/ \E n \in cands : Go(w, Moved(worker[w], m, n)) /\ Push(m.id, {n})
    BY DEF migrateSliceToNewNode, First, Passed, Moved
  <1>4. m.id \in Slices
    BY DEF SliceMeta
  <1>5. CASE Go(w, Passed(worker[w], m)) /\ store' = store
    BY <1>1, <1>2, <1>5 DEF StateInv
  <1>6. CASE Go(w, Passed(worker[w], m)) /\ \E lost \in SUBSET cands : Push(m.id, lost)
    BY <1>1, <1>2, <1>4, <1>6, PushStores
  <1>7. ASSUME NEW n \in cands, Go(w, Moved(worker[w], m, n)), Push(m.id, {n})
        PROVE  /\ store' \in [Nodes -> SUBSET Slices]
               /\ \A k \in Nodes : store[k] \subseteq store'[k]
               /\ m.id \in store'[n]
    <2>1. n \in Nodes \cap {n}
      OBVIOUS
    <2> QED
      BY <1>1, <1>4, <1>7, <2>1, PushStores
  <1> QED
    BY <1>2, <1>3, <1>5, <1>6, <1>7

\* Passing over a slice, with or without putting it aside.
Aside(r, m, Y) == [r EXCEPT !.todo = @ \ {m}, !.yellow = Y]

LEMMA PassedOK ==
    ASSUME NEW r, WorkerOK(r), r.pc \in {"red", "yellow"}, NEW m, NEW Y \in SUBSET SliceMeta
    PROVE  /\ WorkerOK(Aside(r, m, Y)) /\ Aside(r, m, Y).pc = r.pc
           /\ Aside(r, m, Y).base = r.base /\ Aside(r, m, Y).new = r.new
  <1> DEFINE a == Aside(r, m, Y)
  <1>1. /\ r \in WorkerRec /\ Listing(r.base) /\ Listing(r.new) /\ r.todo \subseteq SliceMeta
    BY DEF WorkerOK, Phases
  <1>2. /\ a \in WorkerRec /\ a.pc = r.pc /\ a.base = r.base /\ a.new = r.new /\ a.todo \subseteq SliceMeta
    BY <1>1 DEF WorkerRec, Aside
  <1> HIDE DEF a
  <1>3. WorkerOK(a)
    BY <1>1, <1>2 DEF WorkerOK
  <1> QED
    BY <1>2, <1>3 DEF a

LEMMA MoveInv ==
    ASSUME Inv, NEW w \in Workers, worker[w].pc \in {"red", "yellow"}, NEW m \in worker[w].todo,
           NEW cands \in SUBSET FindNewNodes(worker[w].seen, Selected(worker[w], m.id)),
           migrateSliceToNewNode(w, m, cands), UNCHANGED <<fileVars, health, clearTime>>
    PROVE  Inv'
  <1>1. PICK r : r = worker[w]
    OBVIOUS
  <1>2. /\ WorkerOK(r) /\ r \in WorkerRec /\ Listing(r.base) /\ Listing(r.new)
        /\ r.todo \subseteq SliceMeta /\ m \in SliceMeta
    BY <1>1 DEF Inv, StateInv, WorkerOK, Phases
  <1>3. cands \in SUBSET Nodes /\ \A n \in cands : n \notin HoldersOf(r.new, m.id)
    BY <1>1 DEF FindNewNodes, Selected
  <1>4. /\ events' \in 0..MaxEvents
        /\ store' \in [Nodes -> SUBSET Slices]
        /\ \A n \in Nodes : store[n] \subseteq store'[n]
        /\ \/ Go(w, Passed(r, m))
           \/ \E n \in cands : Go(w, Moved(r, m, n)) /\ m.id \in store'[n]
    BY <1>1, <1>2, <1>3, MigrateEffect
  <1>5. now < Expiry + Retain => \A x \in r.base \cup r.new : x.id \in store'[x.node]
    <2> SUFFICES ASSUME now < Expiry + Retain, NEW x \in r.base \cup r.new PROVE x.id \in store'[x.node]
      OBVIOUS
    <2>1. x.node \in Nodes
      BY <1>2 DEF WorkerRec, SliceMeta
    <2>2. x.id \in store[x.node]
      BY <1>1 DEF Inv, StoredInv, HasStored, Stored
    <2> QED
      BY <1>4, <2>1, <2>2
  <1>6. CASE Go(w, Passed(r, m))
    <2>1. PICK a : a = Passed(r, m)
      OBVIOUS
    <2>2. WorkerOK(a) /\ a.pc = r.pc /\ a.base = r.base /\ a.new = r.new
      <3>1. r.yellow \in SUBSET SliceMeta
        BY <1>2 DEF WorkerRec
      <3>2. a = Aside(r, m, r.yellow)
        BY <1>2, <2>1 DEF Passed, WorkerRec, Aside
      <3> QED
        BY <1>1, <1>2, <3>1, <3>2, PassedOK
    <2>3. /\ WorkerOK(Advance(a))
          /\ Advance(a).pc \notin {"idle", "list"} => Advance(a).base = a.base /\ Advance(a).new = a.new
      BY <1>1, <2>2, AdvanceOK
    <2>4. Set(w, Advance(a))
      BY <1>6, <2>1 DEF Go
    <2> QED
      BY <1>4, <1>5, <2>2, <2>3, <2>4, WorkerOnly
  <1>7. ASSUME NEW n \in cands, Go(w, Moved(r, m, n)), m.id \in store'[n] PROVE Inv'
    <2>1. PICK M : M = (r.new \ {m}) \cup {[id |-> m.id, node |-> n, idx |-> getNodeSliceIdx(r.new, n)]}
      OBVIOUS
    <2>2. Listing(M)
      BY <1>2, <1>3, <2>1, MoveCopy
    <2>3. PICK a : a = Moved(r, m, n)
      OBVIOUS
    <2>4. /\ a \in WorkerRec /\ a.pc = r.pc /\ a.base = r.base /\ a.new = M /\ a.todo \subseteq SliceMeta
      <3>1. M \in SUBSET SliceMeta
        BY <2>2 DEF Listing
      <3>2. a = [[r EXCEPT !.todo = @ \ {m}] EXCEPT !.new = M]
        BY <1>2, <2>1, <2>3 DEF Moved, Passed, WorkerRec
      <3> QED
        BY <1>2, <3>1, <3>2 DEF WorkerRec
    <2>5. WorkerOK(a)
      BY <1>1, <1>2, <2>2, <2>4 DEF WorkerOK
    <2>6. /\ WorkerOK(Advance(a))
          /\ Advance(a).pc \notin {"idle", "list"} => Advance(a).base = a.base /\ Advance(a).new = a.new
      BY <1>1, <2>4, <2>5, AdvanceOK
    <2>7. Set(w, Advance(a))
      BY <1>7, <2>3 DEF Go
    <2>8. now < Expiry + Retain => \A x \in r.base \cup M : x.id \in store'[x.node]
      BY <1>5, <1>7, <2>1
    <2> QED
      BY <1>4, <2>4, <2>6, <2>7, <2>8, WorkerOnly
  <1> QED
    BY <1>4, <1>6, <1>7

LEMMA MigrateRedInv ==
    ASSUME Inv, NEW m \in worker["migrate"].todo, MigrateRed(m) PROVE Inv'
  <1>1. PICK r : r = worker["migrate"]
    OBVIOUS
  <1>2. r.pc = "red" /\ UNCHANGED <<fileVars, health, clearTime>>
    BY <1>1 DEF MigrateRed, At
  <1>3. CASE migrateSliceToNewNode("migrate", m, FindNewNodes(r.seen, Selected(r, m.id)))
    BY <1>1, <1>2, <1>3, MoveInv DEF Workers
  <1>4. CASE /\ Go("migrate", [r EXCEPT !.todo = @ \ {m},
                                !.yellow = IF health[m.node] = Medium THEN @ \cup {m} ELSE @])
             /\ UNCHANGED <<store, events>>
    <2>1. WorkerOK(r) /\ r \in WorkerRec /\ m \in SliceMeta
      BY <1>1, <1>2 DEF Inv, StateInv, WorkerOK, Workers
    <2>2. PICK Y : Y = IF health[m.node] = Medium THEN r.yellow \cup {m} ELSE r.yellow
      OBVIOUS
    <2>3. Y \in SUBSET SliceMeta
      BY <2>1, <2>2 DEF WorkerRec
    <2>4. PICK a : a = Aside(r, m, Y)
      OBVIOUS
    <2>5. WorkerOK(a) /\ a.pc = r.pc /\ a.base = r.base /\ a.new = r.new
      BY <1>2, <2>1, <2>3, <2>4, PassedOK
    <2>6. /\ WorkerOK(Advance(a))
          /\ Advance(a).pc \notin {"idle", "list"} => Advance(a).base = a.base /\ Advance(a).new = a.new
      BY <1>2, <2>5, AdvanceOK
    <2>7. Set("migrate", Advance(a))
      BY <1>4, <2>2, <2>4 DEF Go, Aside
    <2>8. now < Expiry + Retain => \A x \in r.base \cup r.new : x.id \in store'[x.node]
      BY <1>1, <1>2, <1>4 DEF Inv, StoredInv, HasStored, Stored, Workers
    <2> QED
      BY <1>2, <1>4, <2>5, <2>6, <2>7, <2>8, WorkerOnly DEF Inv, StateInv, Workers
  <1> QED
    BY <1>1, <1>3, <1>4 DEF MigrateRed

LEMMA MigrateYellowInv ==
    ASSUME Inv, NEW m \in worker["migrate"].todo, MigrateYellow(m) PROVE Inv'
  <1>1. PICK r : r = worker["migrate"]
    OBVIOUS
  <1>2. PICK cands : cands = {n \in FindNewNodes(r.seen, Selected(r, m.id)) : r.seen[n] = Good}
    OBVIOUS
  <1>3. /\ r.pc = "yellow" /\ UNCHANGED <<fileVars, health, clearTime>>
        /\ migrateSliceToNewNode("migrate", m, cands)
    BY <1>1, <1>2 DEF MigrateYellow, At
  <1>4. cands \in SUBSET FindNewNodes(r.seen, Selected(r, m.id))
    BY <1>2
  <1> QED
    BY <1>1, <1>3, <1>4, MoveInv DEF Workers

-----------------------------------------------------------------------------
(***************************************************************************)
(* Steps that write to the chain, and the others.                          *)
(***************************************************************************)

\* A worker writes its listing back.
LEMMA WriteBackInv ==
    ASSUME Inv, NEW w \in Workers, worker[w].pc \in {"expanded", "migrated"},
           UpdateFilePublicSliceMeta(F, worker[w].new),
           NEW q, q = Idle \/ q = [worker[w] EXCEPT !.pc = "reread"], Set(w, q),
           UNCHANGED <<health, store, clearTime, events>>
    PROVE  Inv'
  <1>1. PICK r : r = worker[w]
    OBVIOUS
  <1>2. WorkerOK(r) /\ r \in WorkerRec /\ Listing(r.base) /\ Listing(r.new)
    BY <1>1 DEF Inv, StateInv, WorkerOK, Phases
  <1>3. ChainInv' /\ F \in Published /\ file'[F].slices = r.new
    BY <1>1, <1>2, WrittenBack DEF Inv
  <1>4. now' = now
    BY DEF UpdateFilePublicSliceMeta
  <1>5. /\ WorkerOK(q)
        /\ q.pc \notin {"idle", "list"} => q.base = r.base /\ q.new = r.new
    <2>1. CASE q = Idle
      BY <2>1, IdleOK
    <2>2. CASE q = [r EXCEPT !.pc = "reread"]
      <3>1. q \in WorkerRec /\ q.pc = "reread" /\ q.base = r.base /\ q.new = r.new
        BY <1>2, <2>2 DEF WorkerRec, Phases
      <3> QED
        BY <1>2, <3>1 DEF WorkerOK
    <2> QED
      BY <1>1, <2>1, <2>2
  <1>6. /\ worker' \in [Workers -> WorkerRec] /\ worker'[w] = q
        /\ \A v \in Workers : WorkerOK(worker'[v])
        /\ \A v \in Workers \ {w} : worker'[v] = worker[v]
    BY <1>5, OneWorker DEF Inv
  <1>7. StateInv'
    BY <1>6 DEF Inv, StateInv
  <1>8. ASSUME now < Expiry + Retain
        PROVE  Stored(file[F].slices)' /\ \A v \in Workers : HasStored(worker[v])'
    <2>1. Stored(r.base) /\ Stored(r.new) /\ \A v \in Workers : HasStored(worker[v])
      BY <1>1, <1>8 DEF Inv, StoredInv, HasStored
    <2>2. Stored(file[F].slices)'
      BY <1>3, <2>1 DEF Stored
    <2>3. ASSUME NEW v \in Workers PROVE HasStored(worker[v])'
      <3>1. CASE v = w
        BY <1>5, <1>6, <2>1, <3>1 DEF HasStored, Stored
      <3>2. CASE v # w
        BY <1>6, <2>1, <3>2 DEF HasStored, Stored
      <3> QED
        BY <3>1, <3>2
    <2> QED
      BY <2>2, <2>3
  <1>9. StoredInv'
    BY <1>4, <1>8 DEF Inv, StoredInv
  <1> QED
    BY <1>3, <1>7, <1>9 DEF Inv

LEMMA ReplicaReadInv ==
    ASSUME Inv, NEW replica \in 1..MaxReplica, ReplicaRead(replica) PROVE Inv'
  <1>1. PICK r : r = [Idle EXCEPT !.pc = "chain", !.replica = replica, !.seen = health]
    OBVIOUS
  <1>2. PICK q : q = IF F \in ListFiles(Ns)
                     THEN [r EXCEPT !.base = file[F].slices, !.new = file[F].slices] ELSE r
    OBVIOUS
  <1>3. /\ Set("replica", q) /\ UNCHANGED <<fileVars, health, clearTime>> /\ store' = store /\ events' = events
        /\ Ns \in DOMAIN ns /\ ns[Ns].replica < replica
    BY <1>1, <1>2 DEF ReplicaRead
  <1>4. replica >= InitReplica
    <2>1. ns[Ns].replica \in Int /\ ns[Ns].replica >= InitReplica
      BY <1>3 DEF Inv, ChainInv, FileTypeOK, NsRec
    <2> QED
      BY <1>3, <2>1, MaintenanceAssumption
  <1>5. Idle \in WorkerRec /\ health \in [Nodes -> {Good, Medium, Bad}]
    BY IdleOK DEF WorkerOK, Inv, StateInv
  <1>6. r \in WorkerRec /\ r.pc = "chain" /\ r.replica = replica /\ r.base = {} /\ r.new = {}
    <2>1. replica \in 0..MaxReplica
      OBVIOUS
    <2>2. Idle.base = {} /\ Idle.new = {}
      BY DEF Idle
    <2> QED
      BY <1>1, <1>5, <2>1, <2>2 DEF WorkerRec, Phases
  <1>7. CASE F \in ListFiles(Ns)
    <2>1. F \in Published
      BY <1>7 DEF ListFiles
    <2>2. /\ q \in WorkerRec /\ q.pc = "chain" /\ q.replica = replica
          /\ q.base = file[F].slices /\ q.new = file[F].slices
      BY <1>2, <1>6, <1>7, <2>1, ReadsListing DEF WorkerRec
    <2>3. WorkerOK(q)
      BY <1>4, <2>1, <2>2, ReadsListing DEF WorkerOK
    <2> QED
      BY <1>3, <2>1, <2>2, <2>3, ReadsListing, WorkerOnly DEF Inv, StateInv, Workers
  <1>8. CASE F \notin ListFiles(Ns)
    <2>1. WorkerOK(q) /\ q.base = {} /\ q.new = {}
      BY <1>2, <1>4, <1>6, <1>8 DEF WorkerOK
    <2> QED
      BY <1>3, <2>1, WorkerOnly DEF Inv, StateInv, Workers
  <1> QED
    BY <1>7, <1>8

LEMMA ReplicaChainInv ==
    ASSUME Inv, ReplicaChain PROVE Inv'
  <1>1. PICK r : r = worker["replica"]
    OBVIOUS
  <1>2. PICK a : a = [r EXCEPT !.pc = "expand", !.todo = Expandable(r)]
    OBVIOUS
  <1>3. /\ Set("replica", Advance(a)) /\ r.pc = "chain" /\ UpdateNsReplica(Ns, r.replica)
        /\ UNCHANGED <<health, store, clearTime, events>>
    BY <1>1, <1>2 DEF ReplicaChain, Go, At
  <1>4. /\ r \in WorkerRec /\ r.replica >= InitReplica /\ r.new = r.base
        /\ r.base = {} \/ Listing(r.base)
    BY <1>1, <1>3 DEF Inv, StateInv, WorkerOK, Workers
  <1>5. ChainInv' /\ UNCHANGED <<file, now>>
    BY <1>3, <1>4, Raised DEF Inv, WorkerRec, UpdateNsReplica
  <1>6. /\ a \in WorkerRec /\ a.pc = "expand" /\ a.todo = Expandable(r) /\ a.todo \subseteq Slices
        /\ a.base = r.base /\ a.new = r.new
    <2>1. Expandable(r) \in SUBSET Slices
      BY <1>4, ExpandableSlices DEF WorkerRec
    <2> QED
      BY <1>2, <1>4, <2>1 DEF WorkerRec, Phases
  <1>7. /\ WorkerOK(Advance(a))
        /\ Advance(a).pc \notin {"idle", "list"} => Advance(a).base = r.base /\ Advance(a).new = r.new
    <2>1. CASE Listing(r.base)
      <3>1. WorkerOK(a)
        BY <1>4, <1>6, <2>1 DEF WorkerOK
      <3> QED
        BY <1>6, <3>1, AdvanceOK
    <2>2. CASE r.base = {}
      <3>1. a.todo = {}
        BY <1>6, <2>2 DEF Expandable, SliceIds
      <3>2. Advance(a) = Idle
        BY <1>4, <1>6, <3>1 DEF Advance
      <3> QED
        BY <3>2, IdleOK
    <2> QED
      BY <1>4, <2>1, <2>2
  <1>8. /\ worker' \in [Workers -> WorkerRec] /\ worker'["replica"] = Advance(a)
        /\ \A v \in Workers : WorkerOK(worker'[v])
        /\ \A v \in Workers \ {"replica"} : worker'[v] = worker[v]
    BY <1>3, <1>7, OneWorker DEF Inv, Workers
  <1>9. StateInv'
    BY <1>3, <1>8 DEF Inv, StateInv
  <1>10. ASSUME now < Expiry + Retain
         PROVE  /\ F \in Published => Stored(file[F].slices)'
                /\ \A v \in Workers : HasStored(worker[v])'
    <2>1. Stored(r.base) /\ Stored(r.new) /\ \A v \in Workers : HasStored(worker[v])
      BY <1>1, <1>3, <1>10 DEF Inv, StoredInv, HasStored, Workers
    <2>2. F \in Published => Stored(file[F].slices)'
      BY <1>3, <1>5, <1>10 DEF Inv, StoredInv, Stored
    <2>3. ASSUME NEW v \in Workers PROVE HasStored(worker[v])'
      <3>1. CASE v = "replica"
        BY <1>3, <1>7, <1>8, <2>1, <3>1 DEF HasStored, Stored
      <3>2. CASE v # "replica"
        BY <1>3, <1>8, <2>1, <3>2 DEF HasStored, Stored
      <3> QED
        BY <3>1, <3>2
    <2> QED
      BY <2>2, <2>3
  <1>11. StoredInv'
    <2>1. Published' = Published
      BY <1>5 DEF Published
    <2> QED
      BY <1>3, <1>5, <1>10, <2>1 DEF Inv, StoredInv
  <1> QED
    BY <1>5, <1>9, <1>11 DEF Inv

LEMMA MaterialFailsInv ==
    ASSUME Inv, NEW w \in Workers, MaterialFails(w) PROVE Inv'
  <1>1. Set(w, Idle) /\ UNCHANGED <<fileVars, health, clearTime, store>> /\ Event
    BY DEF MaterialFails
  <1>2. events \in 0..MaxEvents /\ MaxEvents \in Nat /\ store \in [Nodes -> SUBSET Slices]
    BY MaintenanceAssumption DEF Inv, StateInv
  <1>3. events' \in 0..MaxEvents
    BY <1>1, <1>2 DEF Event
  <1> QED
    BY <1>1, <1>2, <1>3, IdleOK, WorkerOnly

LEMMA ExpandWriteInv ==
    ASSUME Inv, NEW w \in Workers, ExpandWrite(w) PROVE Inv'
  <1>1. PICK q : q = IF w = "migrate" THEN [worker[w] EXCEPT !.pc = "reread"] ELSE Idle
    OBVIOUS
  <1>2. /\ worker[w].pc \in {"expanded", "migrated"} /\ UpdateFilePublicSliceMeta(F, worker[w].new)
        /\ Set(w, q) /\ UNCHANGED <<health, store, clearTime, events>>
    BY <1>1 DEF ExpandWrite, At
  <1>3. q = Idle \/ q = [worker[w] EXCEPT !.pc = "reread"]
    BY <1>1
  <1> QED
    BY <1>2, <1>3, WriteBackInv

LEMMA MigrateWriteInv ==
    ASSUME Inv, MigrateWrite PROVE Inv'
  <1>1. PICK q : q = Idle
    OBVIOUS
  <1>2. /\ worker["migrate"].pc \in {"expanded", "migrated"}
        /\ UpdateFilePublicSliceMeta(F, worker["migrate"].new)
        /\ Set("migrate", q) /\ UNCHANGED <<health, store, clearTime, events>>
    BY <1>1 DEF MigrateWrite, At
  <1>3. "migrate" \in Workers
    BY DEF Workers
  <1> QED
    BY <1>1, <1>2, <1>3, WriteBackInv

\* No worker moves, time does not go back, and before the end of the retention
\* period no store loses a slice.
LEMMA WorkersWait ==
    ASSUME Inv, ChainInv', UNCHANGED worker, now' >= now,
           health' \in [Nodes -> {Good, Medium, Bad}], store' \in [Nodes -> SUBSET Slices],
           clearTime' \in [Nodes -> Times], events' \in 0..MaxEvents,
           \A n \in Nodes : clearTime'[n] = 0 \/ clearTime'[n] <= now' - Retain,
           now < Expiry + Retain => \A n \in Nodes : store[n] \subseteq store'[n],
           now < Expiry + Retain /\ F \in DOMAIN file' => \A m \in file'[F].slices : m.id \in store'[m.node]
    PROVE  Inv'
  <1>1. StateInv'
    BY DEF Inv, StateInv
  <1>2. now' < Expiry + Retain => now < Expiry + Retain
    <2>1. now \in Int /\ now' \in Int /\ Expiry \in Int /\ Retain \in Int
      BY RetainAssumption, MaintenanceAssumption DEF Inv, ChainInv, FileTypeOK, Times
    <2> QED
      BY <2>1
  <1>3. ASSUME now < Expiry + Retain, NEW v \in Workers PROVE HasStored(worker[v])'
    <2>1. worker'[v] = worker[v] /\ worker[v] \in WorkerRec
      BY DEF Inv, StateInv
    <2>2. HasStored(worker[v])
      BY <1>3 DEF Inv, StoredInv
    <2>3. ASSUME NEW m \in worker[v].base \cup worker[v].new PROVE m.node \in Nodes
      BY <2>1, <2>3 DEF WorkerRec, SliceMeta
    <2> QED
      BY <1>3, <2>1, <2>2, <2>3 DEF HasStored, Stored
  <1>4. StoredInv'
    BY <1>2, <1>3 DEF StoredInv, Stored, Published
  <1> QED
    BY <1>1, <1>4 DEF Inv

\* What a file lists stays stored when stores only grow.
LEMMA StaysStored ==
    ASSUME Inv, now < Expiry + Retain, F \in Published,
           \A n \in Nodes : store[n] \subseteq store'[n]
    PROVE  \A m \in file[F].slices : m.id \in store'[m.node]
  <1> SUFFICES ASSUME NEW m \in file[F].slices PROVE m.id \in store'[m.node]
    OBVIOUS
  <1>1. m \in SliceMeta
    BY DEF Inv, ChainInv, FileTypeOK, FileRec
  <1>2. m.id \in store[m.node] /\ m.node \in Nodes
    BY <1>1 DEF Inv, StoredInv, Stored, SliceMeta
  <1> QED
    BY <1>2

LEMMA ChainStepInv ==
    ASSUME Inv, Chain, UNCHANGED <<health, store, clearTime, worker>> PROVE Inv'
  <1>1. /\ now \in Int /\ Retain \in Int /\ events \in 0..MaxEvents /\ MaxEvents \in Nat
        /\ health \in [Nodes -> {Good, Medium, Bad}] /\ store \in [Nodes -> SUBSET Slices]
        /\ clearTime \in [Nodes -> Times]
        /\ \A n \in Nodes : clearTime[n] = 0 \/ clearTime[n] <= now - Retain
    BY RetainAssumption, MaintenanceAssumption DEF Inv, ChainInv, FileTypeOK, Times, StateInv, StoredInv
  <1>2. ASSUME now < Expiry + Retain, F \in Published
        PROVE  \A m \in file[F].slices : m.id \in store'[m.node]
    <2>1. \A n \in Nodes : store[n] \subseteq store'[n]
      OBVIOUS
    <2> QED
      BY <1>2, <2>1, StaysStored
  <1>3. CASE AddFileNs(Ns, InitReplica) /\ UNCHANGED events
    <2>1. ChainInv' /\ now' = now /\ file' = file
      BY <1>3, NsAdded DEF Inv, AddFileNs
    <2> QED
      BY <1>1, <1>2, <1>3, <2>1, WorkersWait DEF Published
  <1>4. CASE Tick /\ UNCHANGED events
    <2>1. ChainInv' /\ now' = now + 1 /\ file' = file
      BY <1>4, Ticked DEF Inv, Tick
    <2>2. \A n \in Nodes : clearTime'[n] = 0 \/ clearTime'[n] <= now' - Retain
      <3> TAKE n \in Nodes
      <3>1. clearTime[n] \in Int
        BY <1>1 DEF Times
      <3> QED
        BY <1>1, <2>1, <3>1
    <2>3. now' >= now
      BY <1>1, <2>1
    <2> QED
      BY <1>1, <1>2, <1>4, <2>1, <2>2, <2>3, WorkersWait DEF Published
  <1>5. ASSUME NEW t \in NewExpiry, UpdateFileExpireTime(F, t), Event PROVE Inv'
    <2>1. ChainInv' /\ now' = now /\ F \in Published /\ file'[F].slices = file[F].slices
      BY <1>5, Extended DEF Inv, UpdateFileExpireTime
    <2>2. events' \in 0..MaxEvents
      BY <1>1, <1>5 DEF Event
    <2> QED
      BY <1>1, <1>2, <2>1, <2>2, WorkersWait
  <1> QED
    BY <1>3, <1>4, <1>5 DEF Chain

LEMMA WriteFileInv ==
    ASSUME Inv, NEW place \in [Slices -> SUBSET Nodes], WriteFile(place) PROVE Inv'
  <1>1. PICK H : H = GetHealthNodes(health)
    OBVIOUS
  <1>2. PICK M : M = Written(place, H)
    OBVIOUS
  <1>3. PICK k : k = ns[Ns].replica
    OBVIOUS
  <1>4. /\ Ns \in DOMAIN ns
        /\ \A s \in Slices : Cardinality(place[s]) = k /\ place[s] \subseteq H
        /\ PublishFile(F, Ns, Name, Expiry, M)
        /\ store' = [n \in Nodes |-> store[n] \cup SlicesOn(M, n)]
        /\ UNCHANGED <<health, clearTime, worker, events>>
    BY <1>1, <1>2, <1>3 DEF WriteFile, Written
  <1>5. k \in Int /\ k >= InitReplica
    BY <1>3, <1>4 DEF Inv, ChainInv, FileTypeOK, NsRec
  <1>6. H \in SUBSET Nodes
    BY <1>1 DEF GetHealthNodes
  <1>7. Listing(M)
    BY <1>2, <1>4, <1>5, <1>6, WrittenListing
  <1>8. ChainInv' /\ file'[F].slices = M /\ now' = now
    BY <1>4, <1>7, Publishing DEF Inv, PublishFile
  <1>9. M \in SUBSET SliceMeta
    BY <1>7 DEF Listing
  <1>10. store' \in [Nodes -> SUBSET Slices] /\ \A n \in Nodes : store[n] \subseteq store'[n]
    <2>1. \A n \in Nodes : SlicesOn(M, n) \in SUBSET Slices
      BY <1>9 DEF SlicesOn, SliceMeta
    <2>2. store \in [Nodes -> SUBSET Slices]
      BY DEF Inv, StateInv
    <2> QED
      BY <1>4, <2>1, <2>2
  <1>11. \A m \in M : m.id \in store'[m.node]
    <2> TAKE m \in M
    <2>1. m.node \in Nodes
      BY <1>9 DEF SliceMeta
    <2>2. m.id \in SlicesOn(M, m.node)
      BY DEF SlicesOn
    <2> QED
      BY <1>4, <2>1, <2>2
  <1>12. /\ now \in Int /\ events \in 0..MaxEvents
         /\ health \in [Nodes -> {Good, Medium, Bad}] /\ clearTime \in [Nodes -> Times]
         /\ \A n \in Nodes : clearTime[n] = 0 \/ clearTime[n] <= now - Retain
    BY DEF Inv, ChainInv, FileTypeOK, Times, StateInv, StoredInv
  <1>13. now' >= now /\ UNCHANGED worker
    BY <1>4, <1>8, <1>12
  <1> QED
    BY <1>4, <1>8, <1>10, <1>11, <1>12, <1>13, WorkersWait

LEMMA HealthChangeInv ==
    ASSUME Inv, NEW n \in Nodes, NEW h \in {Good, Medium, Bad}, HealthChange(n, h) PROVE Inv'
  <1>1. /\ health' = [health EXCEPT ![n] = h] /\ Event
        /\ UNCHANGED <<fileVars, store, clearTime, worker>>
    BY DEF HealthChange
  <1>2. /\ now \in Int /\ events \in 0..MaxEvents /\ MaxEvents \in Nat
        /\ health \in [Nodes -> {Good, Medium, Bad}] /\ clearTime \in [Nodes -> Times]
        /\ store \in [Nodes -> SUBSET Slices]
        /\ \A k \in Nodes : clearTime[k] = 0 \/ clearTime[k] <= now - Retain
    BY MaintenanceAssumption DEF Inv, ChainInv, FileTypeOK, Times, StateInv, StoredInv
  <1>3. health' \in [Nodes -> {Good, Medium, Bad}] /\ events' \in 0..MaxEvents
    BY <1>1, <1>2 DEF Event
  <1>4. ChainInv' /\ now' = now /\ file' = file
    BY <1>1, SameChain DEF Inv, fileVars
  <1>5. now < Expiry + Retain /\ F \in Published => \A m \in file[F].slices : m.id \in store'[m.node]
    BY <1>1, StaysStored
  <1> QED
    BY <1>1, <1>2, <1>3, <1>4, <1>5, WorkersWait DEF Published

\* Before the end of the retention period nothing is listed for deletion.
LEMMA NothingExpired ==
    ASSUME Inv, NEW n \in Nodes, 0 <= now - Retain
    PROVE  /\ getEndExpireTime(clearTime[n]) \in Times
           /\ getEndExpireTime(clearTime[n]) = now - Retain
           /\ now < Expiry + Retain => Expired(n) = {}
  <1>1. /\ now \in 0..MaxTime /\ Retain \in Nat /\ MaxTime \in Nat /\ Expiry \in Nat
        /\ clearTime[n] \in Nat
        /\ clearTime[n] = 0 \/ clearTime[n] <= now - Retain
    BY RetainAssumption, MaxTimeAssumption, MaintenanceAssumption
       DEF Inv, ChainInv, FileTypeOK, Times, StateInv, StoredInv
  <1>2. getEndExpireTime(clearTime[n]) = now - Retain
    BY <1>1 DEF getEndExpireTime
  <1>3. getEndExpireTime(clearTime[n]) \in Times
    BY <1>1, <1>2 DEF Times
  <1>4. ASSUME now < Expiry + Retain PROVE Expired(n) = {}
    <2>1. \A e \in nodeSlices : e.expire = Expiry
      BY DEF Inv, ChainInv
    <2>2. ~(Expiry \in clearTime[n]..(now - Retain))
      BY <1>1, <1>4
    <2>3. ListNodesExpireSlice(n, clearTime[n], getEndExpireTime(clearTime[n])) = {}
      BY <1>2, <2>1, <2>2 DEF ListNodesExpireSlice
    <2> QED
      BY <2>3 DEF Expired
  <1> QED
    BY <1>2, <1>3, <1>4

\* A step of a clear loop that deletes some of the listed slices.
LEMMA ClearInv ==
    ASSUME Inv, NEW n \in Nodes, 0 <= now - Retain, NEW gone, gone \subseteq Expired(n),
           store' = [store EXCEPT ![n] = @ \ gone],
           \/ UNCHANGED clearTime
           \/ clearTime' = [clearTime EXCEPT ![n] = getEndExpireTime(@)],
           events' \in 0..MaxEvents, UNCHANGED <<fileVars, health, worker>>
    PROVE  Inv'
  <1>1. /\ now \in Int /\ health \in [Nodes -> {Good, Medium, Bad}] /\ clearTime \in [Nodes -> Times]
        /\ store \in [Nodes -> SUBSET Slices]
        /\ \A k \in Nodes : clearTime[k] = 0 \/ clearTime[k] <= now - Retain
        /\ Retain \in Int
    BY RetainAssumption DEF Inv, ChainInv, FileTypeOK, Times, StateInv, StoredInv
  <1>2. ChainInv' /\ now' = now /\ file' = file
    BY SameChain DEF Inv, fileVars
  <1>3. /\ getEndExpireTime(clearTime[n]) \in Times
        /\ getEndExpireTime(clearTime[n]) = now - Retain
        /\ now < Expiry + Retain => Expired(n) = {}
    BY NothingExpired
  <1>4. /\ clearTime' \in [Nodes -> Times]
        /\ \A k \in Nodes : clearTime'[k] = 0 \/ clearTime'[k] <= now' - Retain
    <2>1. CASE UNCHANGED clearTime
      BY <1>1, <1>2, <2>1
    <2>2. CASE clearTime' = [clearTime EXCEPT ![n] = getEndExpireTime(@)]
      <3>1. clearTime' = [clearTime EXCEPT ![n] = now - Retain]
        BY <1>3, <2>2
      <3>2. now - Retain <= now - Retain
        BY <1>1
      <3> QED
        BY <1>1, <1>2, <1>3, <3>1, <3>2
    <2> QED
      BY <2>1, <2>2
  <1>5. store' \in [Nodes -> SUBSET Slices]
    BY <1>1
  <1>6. now < Expiry + Retain => \A k \in Nodes : store[k] \subseteq store'[k]
    BY <1>1, <1>3
  <1>7. now < Expiry + Retain /\ F \in Published => \A m \in file[F].slices : m.id \in store'[m.node]
    BY <1>6, StaysStored
  <1> QED
    BY <1>1, <1>2, <1>4, <1>5, <1>6, <1>7, WorkersWait DEF Published

LEMMA SliceClearInv ==
    ASSUME Inv, NEW n \in Nodes, SliceClear(n) \/ SliceClearFails(n) PROVE Inv'
  <1>1. events \in 0..MaxEvents /\ MaxEvents \in Nat /\ store \in [Nodes -> SUBSET Slices]
    BY MaintenanceAssumption DEF Inv, StateInv
  <1>2. CASE SliceClear(n)
    <2>1. /\ 0 <= now - Retain /\ events' = events
          /\ UNCHANGED store \/ store' = [store EXCEPT ![n] = @ \ Expired(n)]
          /\ clearTime' = [clearTime EXCEPT ![n] = getEndExpireTime(@)]
          /\ UNCHANGED <<fileVars, health, worker>>
      BY <1>2 DEF SliceClear
    <2>2. PICK gone : gone \subseteq Expired(n) /\ store' = [store EXCEPT ![n] = @ \ gone]
      <3>1. UNCHANGED store => store' = [store EXCEPT ![n] = @ \ {}]
        BY <1>1
      <3> QED
        BY <2>1, <3>1
    <2> QED
      BY <1>1, <2>1, <2>2, ClearInv
  <1>3. CASE SliceClearFails(n)
    <2>1. 0 <= now - Retain /\ Event /\ UNCHANGED <<fileVars, health, worker>> /\ UNCHANGED clearTime
      BY <1>3 DEF SliceClearFails
    <2>2. PICK gone : gone \subseteq Expired(n) /\ store' = [store EXCEPT ![n] = @ \ gone]
      BY <1>3 DEF SliceClearFails
    <2>3. events' \in 0..MaxEvents
      BY <1>1, <2>1 DEF Event
    <2> QED
      BY <2>1, <2>2, <2>3, ClearInv
  <1> QED
    BY <1>2, <1>3

-----------------------------------------------------------------------------
(***************************************************************************)
(* The invariant holds.                                                    *)
(***************************************************************************)

LEMMA InvInit ==
    ASSUME Init PROVE Inv
  <1>1. 0 \in Times /\ Expiry \in Int /\ Retain \in Int
    BY MaxTimeAssumption, RetainAssumption, MaintenanceAssumption DEF Times
  <1>2. Published = {} /\ DOMAIN ns = {} /\ DOMAIN nameIndex = {} /\ nodeSlices = {} /\ now = 0
    BY DEF Init, FileInit, Published
  <1>3. ChainInv
    BY <1>1, <1>2 DEF ChainInv, FileTypeOK
  <1>4. worker = [w \in Workers |-> Idle] /\ WorkerOK(Idle) /\ Idle \in WorkerRec /\ HasStored(Idle)
    BY IdleOK DEF Init, WorkerOK
  <1>5. worker \in [Workers -> WorkerRec] /\ \A w \in Workers : WorkerOK(worker[w]) /\ HasStored(worker[w])
    BY <1>4
  <1>6. StateInv
    BY <1>1, <1>5, MaintenanceAssumption DEF Init, StateInv
  <1>7. StoredInv
    BY <1>2, <1>5 DEF Init, StoredInv
  <1> QED
    BY <1>3, <1>6, <1>7 DEF Inv

LEMMA InvSame ==
    ASSUME Inv, UNCHANGED vars PROVE Inv'
  <1>1. ChainInv'
    BY SameChain DEF Inv, vars
  <1>2. StateInv'
    BY DEF Inv, StateInv, vars, maintVars
  <1>3. StoredInv'
    BY DEF Inv, StoredInv, Stored, HasStored, Published, vars, maintVars, fileVars
  <1> QED
    BY <1>1, <1>2, <1>3 DEF Inv

LEMMA InvStep ==
    ASSUME Inv, [Next]_vars PROVE Inv'
  <1>1. CASE Chain /\ UNCHANGED <<health, store, clearTime, worker>>
    BY <1>1, ChainStepInv
  <1>2. CASE \E place \in [Slices -> SUBSET Nodes] : WriteFile(place)
    BY <1>2, WriteFileInv
  <1>3. CASE \E n \in Nodes, h \in {Good, Medium, Bad} : HealthChange(n, h)
    BY <1>3, HealthChangeInv
  <1>4. CASE Migrate
    BY <1>4, MigrateTickInv, MigrateListInv, MigrateRereadInv, MigrateRedInv, MigrateYellowInv,
       MigrateWriteInv DEF Migrate
  <1>5. CASE \E replica \in 1..MaxReplica : ReplicaRead(replica)
    BY <1>5, ReplicaReadInv
  <1>6. CASE ReplicaChain
    BY <1>6, ReplicaChainInv
  <1>7. CASE \E w \in Workers : Expand(w) \/ MaterialFails(w)
    BY <1>7, ExpandSliceInv, ExpandWriteInv, MaterialFailsInv DEF Expand
  <1>8. CASE \E n \in Nodes : SliceClear(n) \/ SliceClearFails(n)
    BY <1>8, SliceClearInv
  <1>9. CASE UNCHANGED vars
    BY <1>9, InvSame
  <1> QED
    BY <1>1, <1>2, <1>3, <1>4, <1>5, <1>6, <1>7, <1>8, <1>9 DEF Next

LEMMA InvHolds == Spec => []Inv
  <1>1. Init => Inv
    BY InvInit
  <1>2. Inv /\ [Next]_vars => Inv'
    BY InvStep
  <1> QED
    BY <1>1, <1>2, PTL DEF Spec

-----------------------------------------------------------------------------
(***************************************************************************)
(* What follows from it.                                                   *)
(***************************************************************************)

\* For every instance the state of the chain, the stores and the workers is well
\* formed: no migration or expansion writes a slice that is none to the chain.
THEOREM MaintenanceTyped == Spec => []TypeOK
  <1>1. Inv => TypeOK
    BY DEF Inv, ChainInv, StateInv, WorkerRec, TypeOK
  <1> QED
    BY <1>1, InvHolds, PTL

\* For every instance, the slices of a file on one node keep different ids and
\* indexes whatever expansions, migrations and writes of stale listings happen.
THEOREM WellIndexed == Spec => []SlicesWellIndexed
  <1>1. Inv => SlicesWellIndexed
    BY DEF Inv, ChainInv, Listing, SlicesWellIndexed
  <1> QED
    BY <1>1, InvHolds, PTL

\* For every instance, lost updates between the migration loop and the handler of
\* UpdateNsReplica never cost a replica that the file was written with.
THEOREM NoReplicaLost == Spec => []ReplicasKept
  <1>1. Inv => ReplicasKept
    BY DEF Inv, ChainInv, Listing, ReplicasKept
  <1> QED
    BY <1>1, InvHolds, PTL

LEMMA ListedStored ==
    ASSUME Inv PROVE ListedIsStored
  <1> SUFFICES ASSUME F \in Published, GetFileByID(F), NotExtended
               PROVE  Stored(file[F].slices)
    BY DEF ListedIsStored, Stored
  <1>1. file[F].expire = Expiry
    BY DEF Inv, ChainInv, NotExtended
  <1>2. now \in Int /\ Expiry \in Int /\ Retain \in Nat \ {0}
    BY RetainAssumption, MaintenanceAssumption DEF Inv, ChainInv, FileTypeOK, Times
  <1>3. now < Expiry + Retain
    BY <1>1, <1>2 DEF GetFileByID
  <1> QED
    BY <1>3 DEF Inv, StoredInv

\* For every instance, what the chain lists of a readable file is on the listed
\* nodes, whatever the two workers and the clear loops did and whatever failed.
THEOREM ListedSlicesAreStored == Spec => []ListedIsStored
  <1>1. Inv => ListedIsStored
    BY ListedStored
  <1> QED
    BY <1>1, InvHolds, PTL

\* The health of the system is that of the only file that can be read.
LEMMA SysHealthIsFileHealth ==
    ASSUME Inv, F \in ListFiles(Ns)
    PROVE  GetFileSysHealth = GetFileHealth(file[F].slices, ns[Ns].replica)
  <1>1. PICK h : h = GetFileHealth(file[F].slices, ns[Ns].replica)
    OBVIOUS
  <1>2. h \in {Good, Medium, Bad}
    BY <1>1 DEF GetFileHealth
  <1>3. F \in Published /\ Published \subseteq {F}
    BY DEF ListFiles, Inv, ChainInv
  <1>4. DOMAIN ns = {Ns}
    BY <1>3 DEF Inv, ChainInv
  <1>5. ListFiles(Ns) = {F}
    BY <1>3 DEF ListFiles
  <1>6. Cardinality({F}) = 1 /\ Cardinality({}) = 0
    BY FS_Singleton, FS_EmptySet
  <1> DEFINE of == [f \in ListFiles(Ns) |-> GetFileHealth(file[f].slices, ns[Ns].replica)]
             count(c) == Cardinality({f \in ListFiles(Ns) : of[f] = c})
  <1>7. of[F] = h
    BY <1>1
  <1>8. \A c : count(c) = IF c = h THEN 1 ELSE 0
    <2> TAKE c
    <2> HIDE DEF of
    <2>1. CASE c = h
      <3>1. {f \in ListFiles(Ns) : of[f] = c} = {F}
        BY <1>5, <1>7, <2>1
      <3> QED
        BY <1>6, <2>1, <3>1
    <2>2. CASE c # h
      <3>1. {f \in ListFiles(Ns) : of[f] = c} = {}
        BY <1>5, <1>7, <2>2
      <3> QED
        BY <1>6, <2>2, <3>1
    <2> QED
      BY <2>1, <2>2
  <1>9. /\ GetNsFilesHealth(Ns).normal = Cardinality(ListFiles(Ns))
        /\ GetNsFilesHealth(Ns).green = count(Good)
        /\ GetNsFilesHealth(Ns).red = Cardinality(ListFiles(Ns)) - count(Good) - count(Medium)
    BY DEF GetNsFilesHealth
  <1> HIDE DEF count, of
  <1>10. /\ GetNsFilesHealth(Ns).normal = 1
         /\ GetNsFilesHealth(Ns).green = IF h = Good THEN 1 ELSE 0
         /\ GetNsFilesHealth(Ns).red = IF h = Bad THEN 1 ELSE 0
    <2>1. Good # Bad /\ Good # Medium /\ Medium # Bad
      BY DEF Good, Medium, Bad
    <2> QED
      BY <1>2, <1>5, <1>6, <1>8, <1>9, <2>1
  <1>11. GetFileSysHealth = h
    BY <1>2, <1>4, <1>10 DEF GetFileSysHealth
  <1> QED
    BY <1>1, <1>11

\* For every instance, the health that the owner is told of holds for what the
\* storage nodes keep: green means two good copies of each slice, not red means one.
THEOREM ReportedHealthIsTrue == Spec => []HealthReportTrue
  <1>1. ASSUME Inv PROVE HealthReportTrue
    <2> SUFFICES ASSUME F \in ListFiles(Ns), NotExtended, NEW s \in Slices
                 PROVE  /\ GetFileSysHealth = Good => Cardinality(Keepers(s, {Good})) > 1
                        /\ GetFileSysHealth # Bad => Keepers(s, {Good, Medium}) # {}
      BY DEF HealthReportTrue
    <2>1. PICK M : M = file[F].slices
      OBVIOUS
    <2>2. PICK H : H = HoldersOf(M, s)
      OBVIOUS
    <2>3. F \in Published /\ GetFileByID(F)
      <3>1. F \in Published /\ file[F].expire > now
        BY DEF ListFiles
      <3>2. now \in Int /\ file[F].expire \in Int
        BY <1>1, <3>1 DEF Inv, ChainInv, FileTypeOK, FileRec, Times
      <3> QED
        BY <3>1, <3>2 DEF GetFileByID
    <2>4. Listing(M) /\ M \in SUBSET SliceMeta
      BY <1>1, <2>1, <2>3 DEF Inv, ChainInv, Listing
    <2>5. \A n \in H : n \in Nodes /\ s \in store[n]
      <3> TAKE n \in H
      <3>1. PICK m \in M : m.id = s /\ m.node = n
        BY <2>2, InHolders
      <3>2. m.id \in store[m.node]
        BY <1>1, <2>1, <2>3, <3>1, ListedStored DEF ListedIsStored
      <3> QED
        BY <2>4, <3>1, <3>2 DEF SliceMeta
    <2>6. IsFiniteSet(H) /\ Cardinality(H) \in Nat /\ H # {} /\ s \in SliceIds(M)
      <3>1. IsFiniteSet(H) /\ Cardinality(H) \in Nat
        BY <2>2, <2>4, HoldersFinite
      <3>2. Cardinality(H) >= InitReplica /\ InitReplica \in Int /\ InitReplica >= 1
        BY <2>2, <2>4, MaintenanceAssumption DEF Listing
      <3>3. H # {}
        <4>1. Cardinality(H) # 0
          BY <3>1, <3>2
        <4> QED
          BY <4>1, FS_EmptySet
      <3>4. s \in SliceIds(M)
        BY <2>2, <3>3, InHolders DEF SliceIds
      <3> QED
        BY <3>1, <3>3, <3>4
    <2>7. GetFileSysHealth = GetFileHealth(M, ns[Ns].replica)
      BY <1>1, <2>1, SysHealthIsFileHealth
    <2>8. /\ GetFileSysHealth = Good => GetSliceAvgHealth(H) = Good
          /\ GetFileSysHealth # Bad => GetSliceAvgHealth(H) # Bad
      BY <2>2, <2>6, <2>7 DEF GetFileHealth, Good, Medium, Bad
    <2>9. ASSUME GetFileSysHealth = Good PROVE Cardinality(Keepers(s, {Good})) > 1
      <3>1. Cardinality(H) > 1 /\ \A n \in H : health[n] = Good
        BY <2>8, <2>9 DEF GetSliceAvgHealth, Good, Medium, Bad
      <3>2. H \subseteq Keepers(s, {Good}) /\ Keepers(s, {Good}) \subseteq Nodes
        BY <2>5, <3>1 DEF Keepers
      <3>3. PICK K : K = Keepers(s, {Good})
        OBVIOUS
      <3>4. IsFiniteSet(K) /\ Cardinality(K) \in Nat /\ Cardinality(H) <= Cardinality(K)
        BY <3>2, <3>3, MaintenanceAssumption, FS_Subset, FS_CardinalityType
      <3> QED
        BY <2>6, <3>1, <3>3, <3>4
    <2>10. ASSUME GetFileSysHealth # Bad PROVE Keepers(s, {Good, Medium}) # {}
      <3>1. PICK n \in H : health[n] # Bad
        BY <2>8, <2>10 DEF GetSliceAvgHealth
      <3>2. n \in Nodes /\ s \in store[n] /\ health[n] \in {Good, Medium}
        BY <1>1, <2>5, <3>1 DEF Inv, StateInv
      <3> QED
        BY <3>2 DEF Keepers
    <2> QED
      BY <2>9, <2>10
  <1>2. Inv => HealthReportTrue
    BY <1>1
  <1> QED
    BY <1>2, InvHolds, PTL
==============================================================================
