-------------------------- MODULE SliceMaintenance --------------------------
(***************************************************************************)
(* The upkeep of a stored file.  On the data owner's node the migration    *)
(* loop (xdb/engine/monitor/filemaintainer/migrate.go) replaces replicas   *)
(* on unhealthy nodes and adds missing ones, while the handler of          *)
(* UpdateNsReplica (handler_file.go) adds replicas to the same files; both *)
(* work on a copy of the slice list that they read from the chain and      *)
(* write it back as a whole.  On each storage node the clear loop          *)
(* (nodemaintainer/sliceclear.go) deletes the slices of expired files.     *)
(*                                                                         *)
(* The module follows one file F: the goroutines of different files share  *)
(* no state.  The challenge algorithm is the pairing-based one, in which   *)
(* every slice of a file has an index on its node.  A slice's ciphertext   *)
(* is a function of file, slice and node, so what a node stores is a set   *)
(* of slices.  Health of nodes is an input (GetNodeHealth: see NodeHealth  *)
(* and Challenges); nobody takes a node offline.                           *)
(***************************************************************************)
EXTENDS FileContract

CONSTANTS
    F,                 \* the file
    Ns,                \* its namespace
    Name,              \* its name
    InitReplica,       \* replicas of the namespace when the file is written
    Expiry,            \* its expire time
    NewExpiry,         \* the expire times an extension may set
    MaxEvents          \* bound: health changes, extensions, and failures of
                       \* pushes, challenge material and deletions

ASSUME MaintenanceAssumption ==
    /\ F \in Files /\ Ns \in Namespaces /\ Name \in Names
    /\ IsFiniteSet(Nodes) /\ IsFiniteSet(Slices) /\ Slices \subseteq Nat
    /\ InitReplica \in 1..MaxReplica
    /\ Expiry \in Times /\ NewExpiry \subseteq Times
    /\ MaxEvents \in Nat

VARIABLES
    health,            \* health of each node as GetNodeHealth answers
    store,             \* the slices that each node stores
    clearTime,         \* the end of the last cleared range of each node
    worker,            \* the migration loop and the handler
    events             \* events so far

maintVars == <<health, store, clearTime, worker, events>>

vars == <<fileVars, maintVars>>

Good   == "Green"
Medium == "Yellow"
Bad    == "Red"

Workers == {"migrate", "replica"}

\* What a worker remembers: the replica number and the health it has read,
\* the slices it has read, the slices it will write, and what is left to do.
Idle == [pc |-> "idle", replica |-> 0, seen |-> [n \in Nodes |-> Bad],
         base |-> {}, new |-> {}, todo |-> {}, yellow |-> {}]

Init ==
    /\ FileInit
    /\ health = [n \in Nodes |-> Good]
    /\ store = [n \in Nodes |-> {}]
    /\ clearTime = [n \in Nodes |-> 0]
    /\ worker = [w \in Workers |-> Idle]
    /\ events = 0

-----------------------------------------------------------------------------
(***************************************************************************)
(* Health, candidates and indexes.                                         *)
(***************************************************************************)

\* GetHealthNodes: the nodes that are not red.
GetHealthNodes(h) == {n \in Nodes : h[n] # Bad}

\* GetSliceAvgHealth: red if no holder is left, green if all of several are.
GetSliceAvgHealth(holders) ==
    IF \A n \in holders : health[n] = Bad THEN Bad
    ELSE IF Cardinality(holders) > 1 /\ \A n \in holders : health[n] = Good
         THEN Good ELSE Medium

\* Mutant of GetFileHealth: red only when every slice is lost.
GetFileHealth_all(metas, replica) ==
    LET of == [s \in SliceIds(metas) |-> GetSliceAvgHealth(HoldersOf(metas, s))]
    IN IF \A s \in SliceIds(metas) : of[s] = Bad THEN Bad
       ELSE IF /\ replica > 1
               /\ Cardinality(metas) = Cardinality(SliceIds(metas)) * replica
               /\ \A s \in SliceIds(metas) : of[s] = Good
            THEN Good ELSE Medium

\* GetFileHealth compares the number of slices with the replica policy.
GetFileHealth(metas, replica) ==
    LET of == [s \in SliceIds(metas) |-> GetSliceAvgHealth(HoldersOf(metas, s))]
    IN IF \E s \in SliceIds(metas) : of[s] = Bad THEN Bad
       ELSE IF /\ replica > 1
               /\ Cardinality(metas) = Cardinality(SliceIds(metas)) * replica
               /\ \A s \in SliceIds(metas) : of[s] = Good
            THEN Good ELSE Medium

\* GetNsFilesHealth: how many files of the namespace are how healthy.
GetNsFilesHealth(n) ==
    LET of == [f \in ListFiles(n) |-> GetFileHealth(file[f].slices, ns[n].replica)]
        count(h) == Cardinality({f \in ListFiles(n) : of[f] = h})
    IN [normal |-> Cardinality(ListFiles(n)),
        expired |-> ns[n].total - Cardinality(ListFiles(n)),
        green |-> count(Good), red |-> Cardinality(ListFiles(n)) - count(Good) - count(Medium)]

\* GetFileSysHealth over the namespaces of the owner; green when there is no file.
GetFileSysHealth ==
    IF \A n \in DOMAIN ns : GetNsFilesHealth(n).normal = GetNsFilesHealth(n).green THEN Good
    ELSE IF \E n \in DOMAIN ns : GetNsFilesHealth(n).red >= 1 THEN Bad ELSE Medium

\* FindNewNodes: healthy nodes that were not selected for the slice.
FindNewNodes(seen, selected) == {n \in Nodes : seen[n] # Bad /\ n \notin selected}

\* FindNewNodes puts the green nodes first.
First(cands, seen) ==
    IF \E n \in cands : seen[n] = Good THEN {n \in cands : seen[n] = Good} ELSE cands

GreenFirst(chosen, cands, seen) ==
    (\E n \in chosen : seen[n] # Good) =>
        \A n \in cands : seen[n] = Good => n \in chosen

\* Mutant of getNodeSliceIdx: the largest index itself.
getNodeSliceIdx_largest(metas, n) ==
    LET used == {1} \cup {m.idx : m \in {x \in metas : x.node = n}}
    IN CHOOSE i \in used : \A j \in used : j <= i

\* getNodeSliceIdx: one more than the largest index on the node.
getNodeSliceIdx(metas, n) ==
    LET used == {0} \cup {m.idx : m \in {x \in metas : x.node = n}}
    IN (CHOOSE i \in used : \A j \in used : j <= i) + 1

\* PullAndDec succeeds on some of the nodes: the slice is listed there, it is
\* stored, and the node finds the file on the chain.
CanPull(s, from, metas) ==
    /\ GetFileByID(F)
    /\ \E n \in from : n \in HoldersOf(metas, s) /\ s \in store[n]

-----------------------------------------------------------------------------
(***************************************************************************)
(* Writing the file, and the environment.                                  *)
(***************************************************************************)

\* The result of Engine.Write: every slice on distinct healthy nodes,
\* numbered on each node, stored there and published.
WriteFile(place) ==
    LET metas == {[id |-> s, node |-> n,
                   idx |-> Cardinality({t \in Slices : t <= s /\ n \in place[t]})] :
                  s \in Slices, n \in GetHealthNodes(health)}
        used == {m \in metas : m.node \in place[m.id]}
    IN /\ Ns \in DOMAIN ns
       /\ \A s \in Slices : /\ Cardinality(place[s]) = ns[Ns].replica
                            /\ place[s] \subseteq GetHealthNodes(health)
       /\ PublishFile(F, Ns, Name, Expiry, used)
       /\ now < Expiry
       /\ store' = [n \in Nodes |-> store[n] \cup SlicesOn(used, n)]
       /\ UNCHANGED <<health, clearTime, worker, events>>

Event == events < MaxEvents /\ events' = events + 1

HealthChange(n, h) ==
    /\ Event
    /\ health[n] # h
    /\ health' = [health EXCEPT ![n] = h]
    /\ UNCHANGED <<fileVars, store, clearTime, worker>>

-----------------------------------------------------------------------------
(***************************************************************************)
(* The migration loop and the handler of UpdateNsReplica.                  *)
(***************************************************************************)

\* A worker that has visited all slices of a phase goes on at once: slices
\* put aside as yellow are visited last, if a green node is known, and a
\* worker without a change gives up (ExpandFileSlices) or is done (migrate).
Advance(r) ==
    LET Changed(pc) == IF r.new = r.base THEN Idle ELSE [r EXCEPT !.pc = pc]
        green == \E n \in Nodes : r.seen[n] = Good
    IN IF r.todo # {} THEN r
       ELSE IF r.pc = "expand" THEN Changed("expanded")
       ELSE IF r.pc = "red" /\ r.yellow # {} /\ green
            THEN [r EXCEPT !.pc = "yellow", !.todo = r.yellow, !.yellow = {}]
       ELSE Changed("migrated")

Set(w, r) == worker' = [worker EXCEPT ![w] = r]

Go(w, r) == Set(w, Advance(r))

At(w, pc) == worker[w].pc = pc

\* A tick of migrate: the namespaces, then the healthy nodes.
MigrateTick ==
    /\ At("migrate", "idle")
    /\ Ns \in DOMAIN ns
    /\ GetHealthNodes(health) # {}
    /\ Set("migrate", [Idle EXCEPT !.pc = "list", !.replica = ns[Ns].replica,
                                   !.seen = health])
    /\ UNCHANGED <<fileVars, health, store, clearTime, events>>

\* The check of step 5.1 compares totals.
TooFew(metas, replica) ==
    Cardinality(metas) < replica * Cardinality(SliceIds(metas))

\* GetSliceNodes and the skip of ExpandFileSlices: the slices that have a
\* healthy holder, and too few of them.
Expandable(r) ==
    {s \in SliceIds(r.base) :
        LET h == HoldersOf(r.base, s) \cap GetHealthNodes(r.seen)
        IN h # {} /\ Cardinality(h) < r.replica}

\* The files of the namespace are listed and the health of F decides.
MigrateList ==
    /\ At("migrate", "list")
    /\ LET r == [worker["migrate"] EXCEPT !.base = file[F].slices,
                                          !.new = file[F].slices]
       IN Set("migrate",
              IF F \notin ListFiles(Ns) \/ GetFileHealth(r.base, r.replica) = Good
              THEN Idle
              ELSE IF TooFew(r.base, r.replica)
                   THEN Advance([r EXCEPT !.pc = "expand", !.todo = Expandable(r)])
                   ELSE [r EXCEPT !.pc = "red", !.todo = r.base])
    /\ UNCHANGED <<fileVars, health, store, clearTime, events>>

\* UpdateNsReplica on the owner's node: the namespace, the healthy nodes and
\* the files are read,
ReplicaRead(replica) ==
    /\ At("replica", "idle")
    /\ Ns \in DOMAIN ns
    /\ ns[Ns].replica < replica
    /\ replica <= Cardinality(GetHealthNodes(health))
    /\ LET r == [Idle EXCEPT !.pc = "chain", !.replica = replica, !.seen = health]
       IN Set("replica", IF F \in ListFiles(Ns)
                         THEN [r EXCEPT !.base = file[F].slices, !.new = file[F].slices]
                         ELSE r)
    /\ UNCHANGED <<fileVars, health, store, clearTime, events>>

\* then the chain is told (a lower number meanwhile is not possible, as there
\* is one handler), and the listed files are expanded.
ReplicaChain ==
    /\ At("replica", "chain")
    /\ UpdateNsReplica(Ns, worker["replica"].replica)
    /\ LET r == worker["replica"]
       IN Go("replica", [r EXCEPT !.pc = "expand", !.todo = Expandable(r)])
    /\ UNCHANGED <<health, store, clearTime, events>>

\* The slices are visited in the order of the list (here: of their ids).
IsNext(todo, s) == \A m \in todo : s <= m.id

Push(s, nodes) == store' = [n \in Nodes |-> IF n \in nodes THEN store[n] \cup {s} ELSE store[n]]

\* ReplicaExpansion of one slice: the pushes go to new nodes until there are
\* enough; a fault leaves out some of them, and may store one unanswered.
ExpandSlice(w, s) ==
    LET r     == worker[w]
        held  == HoldersOf(r.base, s) \cap GetHealthNodes(r.seen)
        cands == FindNewNodes(r.seen, held)
        need  == r.replica - Cardinality(held)
        Done(nodes) ==
            Go(w, [r EXCEPT !.todo = @ \ {s},
                            !.new = @ \cup {[id |-> s, node |-> n,
                                             idx |-> getNodeSliceIdx(r.new, n)] : n \in nodes}])
    IN /\ At(w, "expand") /\ s \in r.todo /\ \A t \in r.todo : s <= t
       /\ \/ /\ CanPull(s, held, r.base)
             /\ \E nodes \in SUBSET cands :
                   /\ \/ Cardinality(nodes) = need
                      \/ nodes = cands /\ Cardinality(cands) < need
                   /\ GreenFirst(nodes, cands, r.seen)
                   /\ Done(nodes) /\ Push(s, nodes)
             /\ UNCHANGED events
          \/ ~CanPull(s, held, r.base) /\ Done({}) /\ UNCHANGED <<store, events>>
          \/ /\ CanPull(s, held, r.base)
             /\ \E nodes \in SUBSET cands :
                   /\ Cardinality(nodes) < need
                   /\ Done(nodes)
                   /\ \E lost \in SUBSET (cands \ nodes) :
                         Cardinality(lost) <= 1 /\ Push(s, nodes \cup lost)
             /\ Event
       /\ UNCHANGED <<fileVars, health, clearTime>>

\* The challenge material of the new slices fails: nothing is written.
MaterialFails(w) ==
    /\ worker[w].pc \in {"expanded", "migrated"}
    /\ Event
    /\ Set(w, Idle)
    /\ UNCHANGED <<fileVars, health, store, clearTime>>

\* The list is written back; the migration loop then reads the file again.
ExpandWrite(w) ==
    /\ At(w, "expanded")
    /\ UpdateFilePublicSliceMeta(F, worker[w].new)
    /\ Set(w, IF w = "migrate" THEN [worker[w] EXCEPT !.pc = "reread"] ELSE Idle)
    /\ UNCHANGED <<health, store, clearTime, events>>

\* An expired file keeps the slices of the listing.
MigrateReread ==
    /\ At("migrate", "reread")
    /\ LET s == IF GetFileByID(F) THEN file[F].slices ELSE worker["migrate"].base
       IN Set("migrate", [worker["migrate"] EXCEPT !.pc = "red", !.base = s,
                                                   !.new = s, !.todo = s])
    /\ UNCHANGED <<fileVars, health, store, clearTime, events>>

\* selectedNodes: the holders that were read, and the nodes chosen since.
Selected(r, s) == HoldersOf(r.base, s) \cup HoldersOf(r.new, s)

\* migrateSliceToNewNode: the slice is pulled from a healthy node, pushed to
\* the first new node that takes it, and takes the place of the old one.
migrateSliceToNewNode(w, m, cands) ==
    LET r    == worker[w]
        left == [r EXCEPT !.todo = @ \ {m}]
        from == Selected(r, m.id) \cap GetHealthNodes(r.seen)
        Replace(n) ==
            Go(w, [left EXCEPT !.new = (@ \ {m}) \cup
                       {[id |-> m.id, node |-> n, idx |-> getNodeSliceIdx(r.new, n)]}])
    IN \/ /\ cands # {} /\ CanPull(m.id, from, r.new)
          /\ \E n \in First(cands, r.seen) : Replace(n) /\ Push(m.id, {n})
          /\ UNCHANGED events
       \/ /\ cands = {} \/ ~CanPull(m.id, from, r.new)
          /\ Go(w, left) /\ UNCHANGED <<store, events>>
       \/ /\ cands # {} /\ CanPull(m.id, from, r.new)
          /\ \/ \E n \in cands : Replace(n) /\ Push(m.id, {n})
             \/ \E lost \in SUBSET cands : /\ Cardinality(lost) <= 1
                                           /\ Go(w, left) /\ Push(m.id, lost)
          /\ Event

\* Steps 5.2: slices on red nodes; those on yellow nodes are put aside.
MigrateRed(m) ==
    LET r == worker["migrate"]
    IN /\ At("migrate", "red") /\ m \in r.todo /\ IsNext(r.todo, m.id)
       /\ \/ /\ health[m.node] = Bad
             /\ migrateSliceToNewNode("migrate", m, FindNewNodes(r.seen, Selected(r, m.id)))
          \/ /\ health[m.node] # Bad
             /\ Go("migrate", [r EXCEPT !.todo = @ \ {m},
                                !.yellow = IF health[m.node] = Medium THEN @ \cup {m} ELSE @])
             /\ UNCHANGED <<store, events>>
       /\ UNCHANGED <<fileVars, health, clearTime>>

\* Step 5.3: slices on yellow nodes go to green nodes only.
MigrateYellow(m) ==
    LET r == worker["migrate"]
    IN /\ At("migrate", "yellow") /\ m \in r.todo /\ IsNext(r.todo, m.id)
       /\ migrateSliceToNewNode("migrate", m,
             {n \in FindNewNodes(r.seen, Selected(r, m.id)) : r.seen[n] = Good})
       /\ UNCHANGED <<fileVars, health, clearTime>>

\* Mutant of MigrateWrite: only the new slices are written.
MigrateWrite_onlyNew ==
    /\ At("migrate", "migrated")
    /\ UpdateFilePublicSliceMeta(F, worker["migrate"].new \ worker["migrate"].base)
    /\ Set("migrate", Idle)
    /\ UNCHANGED <<health, store, clearTime, events>>

\* updateFileSlicesOnChain: the list computed from the listing.
MigrateWrite ==
    /\ At("migrate", "migrated")
    /\ UpdateFilePublicSliceMeta(F, worker["migrate"].new)
    /\ Set("migrate", Idle)
    /\ UNCHANGED <<health, store, clearTime, events>>

-----------------------------------------------------------------------------
(***************************************************************************)
(* The clear loop of a storage node (all nodes registered at time 0).      *)
(***************************************************************************)

\* Mutant of getEndExpireTime: slices are deleted when their file expires.
getEndExpireTime_noRetain(start) == IF now < start THEN start ELSE now

\* getEndExpireTime: what expired a retention period ago.
getEndExpireTime(start) == IF now - Retain < start THEN start ELSE now - Retain

Expired(n) ==
    UNION {e.ids : e \in ListNodesExpireSlice(n, clearTime[n], getEndExpireTime(clearTime[n]))}

\* sliceClear: if the first listed slice is missing the loop ends at once
\* (deleteContent is still false); otherwise the listed ones are deleted.
\* The end of the range is saved in both cases.
SliceClear(n) ==
    /\ 0 <= now - Retain
    /\ clearTime[n] # getEndExpireTime(clearTime[n])
    /\ \/ Expired(n) \subseteq store[n] /\ store' = [store EXCEPT ![n] = @ \ Expired(n)]
       \/ /\ ~(Expired(n) \subseteq store[n])
          /\ \/ UNCHANGED store
             \/ /\ Expired(n) \cap store[n] # {}
                /\ store' = [store EXCEPT ![n] = @ \ Expired(n)]
    /\ clearTime' = [clearTime EXCEPT ![n] = getEndExpireTime(@)]
    /\ UNCHANGED <<fileVars, health, worker, events>>

\* A slice cannot be deleted: those before it are gone, the range is kept.
SliceClearFails(n) ==
    /\ 0 <= now - Retain
    /\ clearTime[n] # getEndExpireTime(clearTime[n])
    /\ \E gone \in SUBSET (Expired(n) \cap store[n]) :
          /\ gone # Expired(n) \cap store[n]
          /\ store' = [store EXCEPT ![n] = @ \ gone]
    /\ Event
    /\ UNCHANGED <<fileVars, health, clearTime, worker>>

-----------------------------------------------------------------------------
Chain ==
    \/ AddFileNs(Ns, InitReplica) /\ UNCHANGED events
    \/ Tick /\ UNCHANGED events
    \/ \E t \in NewExpiry : UpdateFileExpireTime(F, t) /\ Event

Migrate ==
    \/ MigrateTick \/ MigrateList \/ MigrateReread
    \/ \E m \in worker["migrate"].todo : MigrateRed(m) \/ MigrateYellow(m)
    \/ MigrateWrite

Expand(w) ==
    (\E s \in Slices : ExpandSlice(w, s)) \/ ExpandWrite(w)

Next ==
    \/ Chain /\ UNCHANGED <<health, store, clearTime, worker>>
    \/ \E place \in [Slices -> SUBSET Nodes] : WriteFile(place)
    \/ \E n \in Nodes, h \in {Good, Medium, Bad} : HealthChange(n, h)
    \/ Migrate
    \/ \E replica \in 1..MaxReplica : ReplicaRead(replica)
    \/ ReplicaChain
    \/ \E w \in Workers : Expand(w) \/ MaterialFails(w)
    \/ \E n \in Nodes : SliceClear(n) \/ SliceClearFails(n)

Spec == Init /\ [][Next]_vars

-----------------------------------------------------------------------------
\* The type invariant: file records, namespace, health and stores are well formed,
\* and a namespace has at most the replicas that UpdateNsReplica was asked for.
TypeOK ==
    /\ FileTypeOK
    /\ health \in [Nodes -> {Good, Medium, Bad}]
    /\ store \in [Nodes -> SUBSET Slices]
    /\ clearTime \in [Nodes -> Times]
    /\ \A w \in Workers : /\ worker[w].base \subseteq SliceMeta
                          /\ worker[w].new \subseteq SliceMeta
    /\ events \in 0..MaxEvents

\* The expire time of F is still the one it was published with.
NotExtended == \E e \in nodeSlices : e.file = F /\ e.expire = file[F].expire

(***************************************************************************)
(* What the chain says of a file that can be read is true: every listed    *)
(* slice is on its node, whatever the migration loop, the handler and the  *)
(* clear loops did in the meantime and whichever of their steps failed.    *)
(* (An extended file is not covered: the index of expire times keeps the   *)
(* old one, so its slices are deleted before it expires.)                  *)
(***************************************************************************)
ListedIsStored ==
    F \in Published /\ GetFileByID(F) /\ NotExtended =>
        \A m \in file[F].slices : m.id \in store[m.node]

(***************************************************************************)
(* The slices of a file on one node are different slices with different    *)
(* indexes, which the pairing-based challenge needs to tell them apart:    *)
(* slices are expanded and migrated one by one, and each write replaces    *)
(* the whole list.                                                         *)
(***************************************************************************)
SlicesWellIndexed ==
    F \in Published =>
        \A m1, m2 \in file[F].slices :
            m1 # m2 /\ m1.node = m2.node => m1.id # m2.id /\ m1.idx # m2.idx

(***************************************************************************)
(* Lost updates between the loop and the handler never cost a replica that *)
(* the file was written with.                                              *)
(***************************************************************************)
ReplicasKept ==
    F \in Published =>
        \A s \in Slices : Cardinality(HoldersOf(file[F].slices, s)) >= InitReplica

Keepers(s, colours) == {n \in Nodes : s \in store[n] /\ health[n] \in colours}

(***************************************************************************)
(* What the owner is told of the health of the system holds for what the   *)
(* storage nodes really keep: while it is green, every slice of a file     *)
(* that can be read is on two healthy nodes; while it is not red, every    *)
(* slice is on a node that is not red.  (As for ListedIsStored, extended   *)
(* files are left out.)                                                    *)
(***************************************************************************)
HealthReportTrue ==
    F \in ListFiles(Ns) /\ NotExtended =>
        \A s \in Slices :
            /\ GetFileSysHealth = Good => Cardinality(Keepers(s, {Good})) > 1
            /\ GetFileSysHealth # Bad => Keepers(s, {Good, Medium}) # {}
=============================================================================
