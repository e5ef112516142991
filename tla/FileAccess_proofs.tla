------------------------- MODULE FileAccess_proofs --------------------------
(***************************************************************************)
(* Proofs about the file contract and the authorization of downloads, for  *)
(* any number of files, tasks, slices, storage nodes, applications, moves  *)
(* and faults.                                                             *)
(***************************************************************************)
EXTENDS FileAccess, SequenceTheorems, WellFoundedInduction, TLAPS

-----------------------------------------------------------------------------
(***************************************************************************)
(* The newest application: ListFileAuthApplications with a limit of one.   *)
(***************************************************************************)

\* A set of natural numbers that is not empty has a least element.
LEMMA LeastExists ==
    ASSUME NEW T \in SUBSET Nat, T # {}
    PROVE  \E x \in T : \A y \in T : x <= y
  <1> DEFINE R == OpToRel(<, Nat)
  <1>1. IsWellFoundedOn(R, Nat)
    BY NatLessThanWellFounded
  <1>2. \A x, y \in Nat : <<y, x>> \in R <=> y < x
    BY DEF OpToRel
  <1> HIDE DEF R
  <1>3. PICK x \in T : \A y \in T : ~ (<<y, x>> \in R)
    BY <1>1, WFMin
  <1>4. ASSUME NEW y \in T PROVE x <= y
    <2>1. ~ (y < x)
      BY <1>2, <1>3
    <2> QED
      BY <2>1
  <1> QED
    BY <1>4

\* A set of positions that is not empty has a greatest one.
LEMMA GreatestExists ==
    ASSUME NEW n \in Nat, NEW ids \in SUBSET (1..n), ids # {}
    PROVE  \E i \in ids : \A j \in ids : j <= i
  <1> DEFINE T == {n - i : i \in ids}
  <1>1. \A i \in ids : n - i \in Nat
    OBVIOUS
  <1>2. T \in SUBSET Nat
    BY <1>1
  <1>3. T # {}
    OBVIOUS
  <1> HIDE DEF T
  <1>4. PICK x \in T : \A y \in T : x <= y
    BY <1>2, <1>3, LeastExists
  <1>5. PICK i \in ids : x = n - i
    BY DEF T
  <1>6. ASSUME NEW j \in ids PROVE j <= i
    <2>1. n - j \in T
      BY DEF T
    <2> QED
      BY <2>1, <1>4, <1>5
  <1> QED
    BY <1>6

\* NewestOf answers None for no application, and the last one otherwise.
LEMMA NewestOfIsLast ==
    ASSUME NEW n \in Nat, NEW ids \in SUBSET (1..n)
    PROVE  /\ ids = {} => NewestOf(ids) = None
           /\ ids # {} => /\ NewestOf(ids) \in ids
                          /\ \A j \in ids : j <= NewestOf(ids)
                          /\ NewestOf(ids) # None
  <1>1. ASSUME ids = {} PROVE NewestOf(ids) = None
    BY <1>1 DEF NewestOf
  <1>2. ASSUME ids # {}
        PROVE  NewestOf(ids) \in ids /\ \A j \in ids : j <= NewestOf(ids)
    <2>1. \E i \in ids : \A j \in ids : j <= i
      BY <1>2, GreatestExists
    <2> QED
      BY <1>2, <2>1 DEF NewestOf
  <1>3. 0 \notin ids
    OBVIOUS
  <1> QED
    BY <1>1, <1>2, <1>3 DEF None

-----------------------------------------------------------------------------
(***************************************************************************)
(* Type correctness.                                                       *)
(***************************************************************************)

AuthRec == [file: Files, status: {Unapproved, Approved, Rejected},
            expire: Times, keys: SUBSET (Slices \X Nodes)]

DownloadRec == [pc: {"none", "pull", "done", "failed"}, listing: SUBSET SliceMeta,
                keys: SUBSET (Slices \X Nodes), left: SUBSET Slices]

\* The type invariant, with what the processes remember spelled out.
Typed ==
    /\ FileTypeOK
    /\ auths \in Seq(AuthRec) /\ Len(auths) <= MaxAuths
    /\ task \in [Tasks -> {"none", "confirming", "confirmed", "rejected"}]
    /\ monitor \in [task: Tasks \cup {"none"}, seen: 0..Len(auths), at: Times]
    /\ owner \in [id: 0..Len(auths), keys: SUBSET (Slices \X Nodes), expire: Times]
    /\ download \in [Tasks -> DownloadRec]
    /\ held \subseteq Files \X Slices \X Nodes
    /\ moves \subseteq Files \X Slices \X Nodes
    /\ faults \in Nat

\* PublishFile of a well-formed file (files.go) leaves a well-formed contract.
LEMMA PublishFileTyped ==
    ASSUME FileTypeOK, NEW f \in Files, NEW n \in Namespaces, NEW name \in Names,
           NEW expire \in Times, NEW metas \in SUBSET SliceMeta,
           PublishFile(f, n, name, expire, metas)
    PROVE  FileTypeOK'
  <1> USE DEF FileTypeOK, Published, PublishFile
  <1>1. Published' \subseteq Files /\ \A g \in Published' : file'[g] \in FileRec
    BY DEF FileRec
  <1>2. /\ DOMAIN nameIndex' \subseteq Namespaces \X Names
        /\ \A k \in DOMAIN nameIndex' : nameIndex'[k] \in Published'
    OBVIOUS
  <1>3. DOMAIN ns' \subseteq Namespaces /\ \A k \in DOMAIN ns' : ns'[k] \in NsRec
    BY DEF NsRec
  <1>4. \A m \in metas : [node |-> m.node, expire |-> expire, file |-> f,
                          ids |-> SlicesOn(metas, m.node)] \in IndexEntry
    BY DEF SlicesOn, IndexEntry, SliceMeta
  <1>5. nodeSlices' \subseteq IndexEntry
    BY <1>4
  <1> QED
    BY <1>1, <1>2, <1>3, <1>5

\* The other transactions of the contract keep it well formed.
LEMMA ChainTyped ==
    ASSUME FileTypeOK, Chain
    PROVE  FileTypeOK'
  <1> USE DEF FileTypeOK, Published
  <1>1. CASE AddFileNs(Ns, 1)
    <2>1. [replica |-> 1, total |-> 0] \in NsRec
      BY MaxReplicaAssumption DEF NsRec
    <2>2. DOMAIN ns' \subseteq Namespaces /\ \A n \in DOMAIN ns' : ns'[n] \in NsRec
      BY <1>1, <2>1, AccessAssumption DEF AddFileNs
    <2> QED
      BY <1>1, <2>2 DEF AddFileNs
  <1>2. CASE Tick
    BY <1>2, MaxTimeAssumption DEF Tick, Times
  <1>3. ASSUME NEW f \in Files, NEW e \in Expiries, UpdateFileExpireTime(f, e)
        PROVE  FileTypeOK'
    <2>1. e \in Times
      BY AccessAssumption
    <2>2. \A g \in Published' : file'[g] \in FileRec
      BY <1>3, <2>1 DEF UpdateFileExpireTime, FileRec
    <2> QED
      BY <1>3, <2>2 DEF UpdateFileExpireTime
  <1> QED
    BY <1>1, <1>2, <1>3 DEF Chain

\* The data of a file as Write lays it out, one replica per slice.
LEMMA WriteMetas ==
    ASSUME NEW node \in [Slices -> Nodes]
    PROVE  {[id |-> s, node |-> node[s], idx |-> 1] : s \in Slices} \in SUBSET SliceMeta
  BY DEF SliceMeta

\* Every step keeps the state well formed.
LEMMA TypingStep == Typed /\ [Next]_vars => Typed'
  <1> SUFFICES ASSUME Typed, [Next]_vars PROVE Typed'
    OBVIOUS
  <1> USE DEF Typed
  <1> USE AccessAssumption, MaxTimeAssumption
  <1>1. CASE Chain /\ UNCHANGED accessVars
    BY <1>1, ChainTyped DEF accessVars
  <1>2. ASSUME NEW f \in Files, NEW node \in [Slices -> Nodes], NEW e \in Expiries,
               Write(f, node, e)
        PROVE  Typed'
    <2> DEFINE metas == {[id |-> s, node |-> node[s], idx |-> 1] : s \in Slices}
    <2>1. metas \in SUBSET SliceMeta
      BY WriteMetas
    <2>2. PublishFile(f, Ns, Name, e, metas)
          /\ held' = held \cup {<<f, m.id, m.node>> : m \in metas}
          /\ UNCHANGED <<auths, task, monitor, owner, download, moves, faults>>
      BY <1>2 DEF Write
    <2> HIDE DEF metas
    <2>3. FileTypeOK'
      BY <2>1, <2>2, PublishFileTyped
    <2>4. held' \subseteq Files \X Slices \X Nodes
      BY <2>1, <2>2 DEF SliceMeta
    <2> QED
      BY <2>2, <2>3, <2>4
  <1>3. ASSUME NEW f \in Published, NEW node \in Nodes, NEW m \in file[f].slices,
               Move(f, m, node)
        PROVE  Typed'
    <2>1. file[f] \in FileRec /\ m \in SliceMeta /\ f \in Files
      BY DEF FileTypeOK, FileRec
    <2>2. [m EXCEPT !.node = node] \in SliceMeta
      BY <2>1 DEF SliceMeta
    <2>3. (file[f].slices \ {m}) \cup {[m EXCEPT !.node = node]} \in SUBSET SliceMeta
      BY <2>1, <2>2 DEF FileRec
    <2>4. FileTypeOK'
      BY <1>3, <2>1, <2>3 DEF Move, UpdateFilePublicSliceMeta, FileTypeOK, FileRec, Published
    <2>5. <<f, m.id, node>> \in Files \X Slices \X Nodes
      BY <2>1 DEF SliceMeta
    <2> QED
      BY <1>3, <2>4, <2>5 DEF Move
  <1>4. UNCHANGED fileVars => FileTypeOK'
    BY DEF fileVars, FileTypeOK, Published
  <1>5. ASSUME NEW t \in Tasks, PublishTask(t) PROVE Typed'
    BY <1>4, <1>5 DEF PublishTask
  <1>6. ASSUME NEW t \in Tasks, MonitorList(t) PROVE Typed'
    <2>1. Newest(TaskFile[t]) \in 0..Len(auths)
      <3> DEFINE ids == {i \in DOMAIN auths : auths[i].file = TaskFile[t]}
      <3>1. ids \in SUBSET (1..Len(auths)) /\ Len(auths) \in Nat
        OBVIOUS
      <3> HIDE DEF ids
      <3>2. NewestOf(ids) \in ids \cup {0}
        BY <3>1, NewestOfIsLast DEF None
      <3> QED
        BY <3>1, <3>2 DEF Newest, ids
    <2>2. now \in Times
      BY DEF FileTypeOK
    <2> QED
      BY <1>4, <1>6, <2>1, <2>2 DEF MonitorList
  <1>7. ASSUME NEW t \in Tasks, GetSampleFile(t) PROVE Typed'
    <2> DEFINE f == TaskFile[t]
               i == NewestApproved(f)
    <2>1. ASSUME i # None PROVE auths[i].keys \in SUBSET (Slices \X Nodes)
      <3> DEFINE ids == {j \in DOMAIN auths : auths[j].file = f /\ auths[j].status = Approved}
      <3>1. ids \in SUBSET (1..Len(auths)) /\ Len(auths) \in Nat
        OBVIOUS
      <3> HIDE DEF ids
      <3>2. NewestOf(ids) # None => NewestOf(ids) \in ids
        BY <3>1, NewestOfIsLast
      <3>3. i \in DOMAIN auths
        BY <2>1, <3>1, <3>2 DEF NewestApproved, ids
      <3>4. auths[i] \in AuthRec
        BY <3>3
      <3> QED
        BY <3>4 DEF AuthRec
    <2>2. ASSUME GetFileByID(f)
          PROVE  file[f].slices \in SUBSET SliceMeta /\ SliceIds(file[f].slices) \in SUBSET Slices
      BY <2>2 DEF GetFileByID, FileTypeOK, FileRec, SliceIds, SliceMeta
    <2>3. download' \in [Tasks -> DownloadRec]
      BY <1>7, <2>1, <2>2 DEF GetSampleFile, DownloadRec, NoDownload
    <2> QED
      BY <1>4, <1>7, <2>3 DEF GetSampleFile
  <1>8. CASE MonitorAct
    <2>1. monitor' \in [task: Tasks \cup {"none"}, seen: {0}, at: Times]
      BY <1>8 DEF MonitorAct, None, Times
    <2>2. task' \in [Tasks -> {"none", "confirming", "confirmed", "rejected"}]
      BY <1>8 DEF MonitorAct
    <2>3. /\ auths' \in Seq(AuthRec) /\ Len(auths') <= MaxAuths
          /\ Len(auths') >= Len(auths)
      <3>1. CASE UNCHANGED auths
        BY <3>1
      <3>2. CASE PublishFileAuthApplication(TaskFile[monitor.task])
        <4>1. [file |-> TaskFile[monitor.task], status |-> Unapproved, expire |-> 0,
               keys |-> {}] \in AuthRec
          BY <1>8 DEF MonitorAct, AuthRec, Times
        <4> QED
          BY <3>2, <4>1 DEF PublishFileAuthApplication
      <3> QED
        BY <1>8, <3>1, <3>2 DEF MonitorAct
    <2> QED
      BY <1>4, <1>8, <2>1, <2>2, <2>3 DEF MonitorAct
  <1>9. ASSUME NEW i \in DOMAIN auths, NEW approve, NEW expire \in Times,
               NEW keys \in SUBSET (Slices \X Nodes),
               setFileAuthConfirmStatus(i, approve, expire, keys)
        PROVE  auths' \in Seq(AuthRec) /\ Len(auths') = Len(auths)
    <2> DEFINE new == IF approve
                      THEN [auths[i] EXCEPT !.status = Approved, !.expire = expire, !.keys = keys]
                      ELSE [auths[i] EXCEPT !.status = Rejected]
    <2>1. auths[i] \in AuthRec
      OBVIOUS
    <2>2. new \in AuthRec
      BY <2>1 DEF AuthRec
    <2>3. auths' = [auths EXCEPT ![i] = new]
      BY <1>9 DEF setFileAuthConfirmStatus
    <2> HIDE DEF new
    <2> QED
      BY <2>2, <2>3, ExceptSeq
  <1>10. ASSUME NEW i \in 1..MaxAuths, RejectAuth(i) PROVE Typed'
    <2>1. auths' \in Seq(AuthRec) /\ Len(auths') = Len(auths)
      <3>1. 0 \in Times /\ {} \in SUBSET (Slices \X Nodes)
        BY DEF Times
      <3>2. i \in DOMAIN auths /\ setFileAuthConfirmStatus(i, FALSE, 0, {})
        BY <1>10 DEF RejectAuth
      <3> QED
        BY ONLY <1>9, <3>1, <3>2
    <2> QED
      BY <1>4, <1>10, <2>1 DEF RejectAuth
  <1>11. ASSUME NEW i \in 1..MaxAuths, NEW e \in Expiries, ConfirmAuth(i, e) PROVE Typed'
    <2>1. getAuthKey(auths[i].file) \in SUBSET (Slices \X Nodes)
      BY <1>11 DEF ConfirmAuth, MayGrant, GetFileByID, FileTypeOK, FileRec, SliceMeta, getAuthKey
    <2>2. i \in 0..Len(auths) /\ e \in Times
      BY <1>11 DEF ConfirmAuth
    <2> QED
      BY <1>4, <1>11, <2>1, <2>2 DEF ConfirmAuth
  <1>12. CASE ConfirmOnChain
    <2>1. owner' \in [id: {0}, keys: SUBSET (Slices \X Nodes), expire: Times]
      BY <1>12 DEF ConfirmOnChain, None, Times
    <2>2. auths' \in Seq(AuthRec) /\ Len(auths') = Len(auths)
      <3>1. CASE UNCHANGED auths
        BY <3>1
      <3>2. CASE setFileAuthConfirmStatus(owner.id, TRUE, owner.expire, owner.keys)
        <4>1. owner.id \in DOMAIN auths /\ owner.expire \in Times
              /\ owner.keys \in SUBSET (Slices \X Nodes)
          BY <1>12 DEF ConfirmOnChain, None
        <4> QED
          BY ONLY <1>9, <3>2, <4>1
      <3> QED
        BY <1>12, <3>1, <3>2 DEF ConfirmOnChain
    <2> QED
      BY <1>4, <1>12, <2>1, <2>2 DEF ConfirmOnChain
  <1>13. ASSUME NEW t \in Tasks, NEW s \in Slices, recoverSlice(t, s) \/ recoverFails(t, s)
         PROVE  Typed'
    <2>1. download' \in [Tasks -> DownloadRec]
      <3>1. download[t] \in DownloadRec
        OBVIOUS
      <3>2. [download[t] EXCEPT !.left = @ \ {s},
               !.pc = IF download[t].left = {s} THEN "done" ELSE "pull"] \in DownloadRec
        BY <3>1 DEF DownloadRec
      <3>3. [NoDownload EXCEPT !.pc = "failed"] \in DownloadRec
        BY DEF DownloadRec, NoDownload
      <3>4. CASE recoverSlice(t, s)
        BY <3>1, <3>2, <3>4 DEF recoverSlice
      <3>5. CASE recoverFails(t, s)
        BY <3>3, <3>5 DEF recoverFails
      <3> QED
        BY <1>13, <3>4, <3>5
    <2> QED
      BY <1>4, <1>13, <2>1 DEF recoverSlice, recoverFails
  <1>14. CASE UNCHANGED vars
    BY <1>4, <1>14 DEF vars, accessVars
  <1> QED
    BY <1>1, <1>2, <1>3, <1>5, <1>6, <1>7, <1>8, <1>10, <1>11, <1>12, <1>13, <1>14 DEF Next

\* Initially the state is well formed.
LEMMA TypingInit == Init => Typed
  <1> SUFFICES ASSUME Init PROVE Typed
    OBVIOUS
  <1>1. FileTypeOK
    BY MaxTimeAssumption DEF Init, FileInit, FileTypeOK, Published, Times
  <1>2. auths \in Seq(AuthRec) /\ Len(auths) = 0
    BY DEF Init
  <1>3. monitor \in [task: Tasks \cup {"none"}, seen: {0}, at: Times]
    BY MaxTimeAssumption DEF Init, None, Times
  <1>4. owner \in [id: {0}, keys: SUBSET (Slices \X Nodes), expire: Times]
    BY MaxTimeAssumption DEF Init, None, Times
  <1>5. download \in [Tasks -> DownloadRec]
    BY DEF Init, NoDownload, DownloadRec
  <1> QED
    BY <1>1, <1>2, <1>3, <1>4, <1>5, AccessAssumption DEF Init, Typed

\* Type correctness: applications, tasks, downloads and the contract's
\* records stay well formed.
THEOREM TypeCorrect == Spec => []AccessTypeOK
  <1>1. Typed => AccessTypeOK
    <2> SUFFICES ASSUME Typed PROVE AccessTypeOK
      OBVIOUS
    <2>1. owner.id \in 0..MaxAuths /\ monitor.seen \in 0..MaxAuths
      BY AccessAssumption DEF Typed
    <2> QED
      BY <2>1 DEF Typed, AccessTypeOK, AuthRec, DownloadRec
  <1> QED
    BY <1>1, TypingInit, TypingStep, PTL DEF Spec

-----------------------------------------------------------------------------
(***************************************************************************)
(* Names.  The invariant that is inductive speaks of the index: whichever  *)
(* file a name's index does not point to is past its retention period.     *)
(***************************************************************************)
NameInv ==
    \A f \in Published :
        LET k == <<file[f].ns, file[f].name>>
        IN  /\ k \in DOMAIN nameIndex
            /\ nameIndex[k] # f => file[f].expire + Retain <= now

\* The contract's types, as far as the arithmetic of expiry needs them.
LEMMA ExpireIsNat ==
    ASSUME Typed
    PROVE  /\ now \in Nat
           /\ \A f \in Published : file[f].expire \in Nat /\ file[f] \in FileRec
  BY MaxTimeAssumption DEF Typed, FileTypeOK, FileRec, Times

\* Every step keeps the name index in charge.
LEMMA NameStep == Typed /\ NameInv /\ [Next]_vars => NameInv'
  <1> SUFFICES ASSUME Typed, NameInv, [Next]_vars PROVE NameInv'
    OBVIOUS
  <1> USE RetainAssumption, ExpireIsNat
  <1>1. CASE AddFileNs(Ns, 1) /\ UNCHANGED accessVars
    BY <1>1 DEF AddFileNs, NameInv, Published
  <1>2. CASE Tick /\ UNCHANGED accessVars
    BY <1>2 DEF Tick, NameInv, Published
  <1>3. ASSUME NEW f \in Files, NEW e \in Expiries, UpdateFileExpireTime(f, e)
        PROVE  NameInv'
    <2>1. nameIndex[<<file[f].ns, file[f].name>>] = f
      BY <1>3 DEF UpdateFileExpireTime, CanExtend, NameInv
    <2>2. file' = [file EXCEPT ![f].expire = e] /\ UNCHANGED <<nameIndex, now>> /\ f \in Published
      BY <1>3 DEF UpdateFileExpireTime, CanExtend
    <2>3. /\ DOMAIN file' = DOMAIN file
          /\ \A g \in Published : file'[g].ns = file[g].ns /\ file'[g].name = file[g].name
          /\ \A g \in Published : g # f => file'[g].expire = file[g].expire
      BY <2>2 DEF Published, FileRec
    <2> QED
      BY <2>1, <2>2, <2>3 DEF NameInv, Published
  <1>4. ASSUME NEW f \in Files, NEW node \in [Slices -> Nodes], NEW e \in Expiries,
               Write(f, node, e)
        PROVE  NameInv'
    <2> DEFINE k == <<Ns, Name>>
    <2>1. PICK metas : PublishFile(f, Ns, Name, e, metas)
      BY <1>4 DEF Write
    <2>2. /\ f \notin Published /\ Published' = Published \cup {f}
          /\ file'[f].ns = Ns /\ file'[f].name = Name
          /\ \A g \in Published : file'[g] = file[g]
          /\ now' = now
      BY <2>1 DEF PublishFile, Published
    <2>3. /\ DOMAIN nameIndex' = DOMAIN nameIndex \cup {k}
          /\ nameIndex'[k] = f
          /\ \A j \in DOMAIN nameIndex : j # k => nameIndex'[j] = nameIndex[j]
      BY <2>1 DEF PublishFile
    <2>4. k \in DOMAIN nameIndex => file[nameIndex[k]].expire + Retain <= now
      BY <2>1 DEF PublishFile, NameFree
    <2> HIDE DEF k
    <2>5. ASSUME NEW g \in Published, <<file[g].ns, file[g].name>> = k
          PROVE  file[g].expire + Retain <= now
      BY <2>4, <2>5 DEF NameInv
    <2>6. <<file'[f].ns, file'[f].name>> = k
      BY <2>2 DEF k
    <2> QED
      BY <2>2, <2>3, <2>5, <2>6 DEF NameInv
  <1>5. ASSUME NEW f \in Published, NEW node \in Nodes, NEW m \in file[f].slices,
               Move(f, m, node)
        PROVE  NameInv'
    <2>1. /\ file' = [file EXCEPT ![f].slices = (file[f].slices \ {m}) \cup {[m EXCEPT !.node = node]}]
          /\ UNCHANGED <<nameIndex, now>>
      BY <1>5 DEF Move, UpdateFilePublicSliceMeta
    <2>2. /\ DOMAIN file' = DOMAIN file
          /\ \A g \in Published : /\ file'[g].ns = file[g].ns /\ file'[g].name = file[g].name
                                   /\ file'[g].expire = file[g].expire
      BY <2>1 DEF Published, FileRec
    <2> QED
      BY <2>1, <2>2 DEF NameInv, Published
  <1>6. CASE UNCHANGED fileVars
    BY <1>6 DEF NameInv, Published, fileVars
  <1> QED
    BY <1>1, <1>2, <1>3, <1>4, <1>5, <1>6
    DEF Next, Chain, vars, PublishTask, MonitorList, GetSampleFile, MonitorAct, RejectAuth,
        ConfirmAuth, ConfirmOnChain, recoverSlice, recoverFails

\* A name belongs to one file at a time, up to the end of the retention
\* period (PublishFile, UpdateFileExpireTime), whatever is published,
\* extended and migrated.
THEOREM NamesAreUnique == Spec => []OneFilePerName
  <1>1. Init => NameInv
    BY DEF Init, FileInit, NameInv, Published
  <1>2. Typed /\ NameInv => OneFilePerName
    <2> SUFFICES ASSUME Typed, NameInv,
                        NEW f \in Published, NEW g \in Published, f # g,
                        file[f].ns = file[g].ns, file[f].name = file[g].name,
                        file[f].expire + Retain > now
                 PROVE  file[g].expire + Retain <= now
      BY DEF OneFilePerName
    <2>1. file[f].expire + Retain \in Nat /\ now \in Nat
      BY ExpireIsNat, RetainAssumption
    <2>2. nameIndex[<<file[f].ns, file[f].name>>] = f
      BY <2>1 DEF NameInv
    <2> QED
      BY <2>2 DEF NameInv
  <1> QED
    BY <1>1, <1>2, TypingInit, TypingStep, NameStep, PTL DEF Spec

-----------------------------------------------------------------------------
(***************************************************************************)
(* Authorizations.  What is inductive: tasks and applications are about    *)
(* published files; the application that the monitor has read is still the *)
(* newest one for its file, because nobody else applies; only the newest   *)
(* application of a file can be open; and a confirmation under way is      *)
(* within the file's expire time.                                          *)
(***************************************************************************)
KnownFiles ==
    /\ \A t \in Tasks : task[t] # "none" => TaskFile[t] \in Published
    /\ \A i \in DOMAIN auths : auths[i].file \in Published

SeenIsNewest ==
    monitor.task # "none" =>
        /\ task[monitor.task] # "none"
        /\ monitor.seen # None => auths[monitor.seen].file = TaskFile[monitor.task]
        /\ \A i \in DOMAIN auths : auths[i].file = TaskFile[monitor.task] => i <= monitor.seen

OnlyNewestOpen ==
    \A i, j \in DOMAIN auths :
        auths[i].file = auths[j].file /\ i < j => auths[i].status # Unapproved

GrantWithinFile ==
    owner.id # None => owner.expire <= file[auths[owner.id].file].expire

AuthInv ==
    KnownFiles /\ SeenIsNewest /\ OnlyNewestOpen /\ AnswerFollowsOwner
        /\ AuthWithinFile /\ GrantWithinFile

\* Files are never removed, and their expire time is only raised
\* (UpdateFileExpireTime).
LEMMA FilesGrow ==
    ASSUME Typed, [Next]_vars
    PROVE  /\ Published \subseteq Published'
           /\ \A f \in Published : file'[f].expire \in Nat /\ file'[f].expire >= file[f].expire
  <1> USE ExpireIsNat
  <1>1. ASSUME NEW f \in Files, NEW e \in Expiries, UpdateFileExpireTime(f, e)
        PROVE  /\ Published \subseteq Published'
               /\ \A g \in Published : file'[g].expire \in Nat /\ file'[g].expire >= file[g].expire
    <2>1. e \in Nat
      BY AccessAssumption, MaxTimeAssumption DEF Times
    <2> QED
      BY <1>1, <2>1 DEF UpdateFileExpireTime, CanExtend, Published, FileRec
  <1>2. ASSUME NEW f \in Files, NEW node \in [Slices -> Nodes], NEW e \in Expiries,
               Write(f, node, e)
        PROVE  Published \subseteq Published' /\ \A g \in Published : file'[g] = file[g]
    <2>1. PICK metas : PublishFile(f, Ns, Name, e, metas)
      BY <1>2 DEF Write
    <2> QED
      BY <2>1 DEF PublishFile, Published
  <1>3. ASSUME NEW f \in Published, NEW node \in Nodes, NEW m \in file[f].slices,
               Move(f, m, node)
        PROVE  /\ Published \subseteq Published'
               /\ \A g \in Published : file'[g].expire = file[g].expire
    <2>1. file' = [file EXCEPT ![f].slices = (file[f].slices \ {m}) \cup {[m EXCEPT !.node = node]}]
      BY <1>3 DEF Move, UpdateFilePublicSliceMeta
    <2> QED
      BY <2>1 DEF Published, FileRec
  <1>4. ASSUME UNCHANGED file
        PROVE  Published \subseteq Published' /\ \A g \in Published : file'[g] = file[g]
    BY <1>4 DEF Published
  <1>5. \/ UNCHANGED file
        \/ \E f \in Files, e \in Expiries : UpdateFileExpireTime(f, e)
        \/ \E f \in Files, node \in [Slices -> Nodes], e \in Expiries : Write(f, node, e)
        \/ \E f \in Published, node \in Nodes : \E m \in file[f].slices : Move(f, m, node)
    BY DEF Next, Chain, vars, fileVars, PublishTask, MonitorList, GetSampleFile, MonitorAct,
           RejectAuth, ConfirmAuth, ConfirmOnChain, recoverSlice, recoverFails, AddFileNs, Tick
  <1> QED
    BY <1>1, <1>2, <1>3, <1>4, <1>5

\* The applications that the monitor and the owner's node hold on to exist.
LEMMA RememberedExist ==
    ASSUME Typed
    PROVE  /\ DOMAIN auths = 1..Len(auths) /\ Len(auths) \in Nat
           /\ \A i \in DOMAIN auths : auths[i] \in AuthRec
           /\ monitor.seen \in Nat
           /\ monitor.seen # None => monitor.seen \in DOMAIN auths
           /\ owner.id \in Nat
           /\ owner.id # None => owner.id \in DOMAIN auths
           /\ owner.expire \in Nat /\ owner.expire \in Times
  BY MaxTimeAssumption DEF Typed, None, Times

\* An answer of the owner (setFileAuthConfirmStatus) keeps the invariant if
\* what it grants is within the file's expire time.
LEMMA AnswerKeepsAuthInv ==
    ASSUME Typed, Typed', AuthInv, UNCHANGED fileVars, UNCHANGED <<task, monitor>>,
           NEW i \in DOMAIN auths, NEW approve \in BOOLEAN, NEW expire \in Times, NEW keys,
           setFileAuthConfirmStatus(i, approve, expire, keys),
           approve => expire <= file[auths[i].file].expire,
           owner'.id # None => owner' = owner
    PROVE  AuthInv'
  <1>1. /\ DOMAIN auths' = DOMAIN auths
        /\ \A j \in DOMAIN auths : j # i => auths'[j] = auths[j]
        /\ auths'[i].file = auths[i].file
        /\ auths[i].status = Unapproved
        /\ auths'[i].status = IF approve THEN Approved ELSE Rejected
        /\ approve => auths'[i].expire = expire
    <2>1. auths[i] \in AuthRec
      BY DEF Typed
    <2> QED
      BY <2>1 DEF setFileAuthConfirmStatus, AuthRec
  <1>2. KnownFiles'
    BY <1>1 DEF AuthInv, KnownFiles, fileVars, Published
  <1>3. SeenIsNewest'
    BY <1>1, RememberedExist DEF AuthInv, SeenIsNewest
  <1>4. OnlyNewestOpen'
    BY <1>1 DEF AuthInv, OnlyNewestOpen, Unapproved, Approved, Rejected
  <1>5. AnswerFollowsOwner'
    BY <1>1 DEF AuthInv, AnswerFollowsOwner, Unapproved, Approved, Rejected
  <1>6. AuthWithinFile'
    BY <1>1 DEF AuthInv, AuthWithinFile, fileVars, Unapproved, Approved, Rejected
  <1>7. GrantWithinFile'
    BY <1>1, RememberedExist DEF AuthInv, GrantWithinFile, fileVars
  <1> QED
    BY <1>2, <1>3, <1>4, <1>5, <1>6, <1>7 DEF AuthInv

\* Every step keeps the authorization invariant.
LEMMA AuthStep == Typed /\ Typed' /\ AuthInv /\ [Next]_vars => AuthInv'
  <1> SUFFICES ASSUME Typed, Typed', AuthInv, [Next]_vars PROVE AuthInv'
    OBVIOUS
  <1> USE RememberedExist
  <1>1. CASE UNCHANGED <<auths, task, monitor, owner>>
    <2>1. /\ Published \subseteq Published'
          /\ \A f \in Published : file'[f].expire >= file[f].expire /\ file'[f].expire \in Nat
          /\ \A f \in Published : file[f].expire \in Nat
      BY FilesGrow, ExpireIsNat
    <2>2. KnownFiles'
      BY <1>1, <2>1 DEF AuthInv, KnownFiles
    <2>3. SeenIsNewest' /\ OnlyNewestOpen' /\ AnswerFollowsOwner'
      BY <1>1 DEF AuthInv, SeenIsNewest, OnlyNewestOpen, AnswerFollowsOwner
    <2>4. AuthWithinFile'
      <3> SUFFICES ASSUME NEW i \in DOMAIN auths, auths[i].status = Approved
                   PROVE  auths[i].expire <= file'[auths[i].file].expire
        BY <1>1 DEF AuthWithinFile
      <3>1. auths[i].expire \in Nat
        BY MaxTimeAssumption DEF AuthRec, Times
      <3>2. auths[i].expire <= file[auths[i].file].expire /\ auths[i].file \in Published
        BY DEF AuthInv, AuthWithinFile, KnownFiles
      <3> QED
        BY <3>1, <3>2, <2>1
    <2>5. GrantWithinFile'
      BY <1>1, <2>1 DEF AuthInv, GrantWithinFile, KnownFiles
    <2> QED
      BY <2>2, <2>3, <2>4, <2>5 DEF AuthInv
  <1>2. ASSUME NEW t \in Tasks, PublishTask(t) PROVE AuthInv'
    <2>1. /\ TaskFile[t] \in Published /\ task[t] = "none"
          /\ task' = [task EXCEPT ![t] = "confirming"]
          /\ UNCHANGED <<file, auths, monitor, owner>>
          /\ task \in [Tasks -> {"none", "confirming", "confirmed", "rejected"}]
      BY <1>2 DEF PublishTask, fileVars, Typed
    <2>2. KnownFiles'
      BY <2>1 DEF AuthInv, KnownFiles, Published
    <2>3. SeenIsNewest'
      BY <2>1 DEF AuthInv, SeenIsNewest, Typed
    <2>4. AnswerFollowsOwner'
      BY <2>1 DEF AuthInv, AnswerFollowsOwner
    <2> QED
      BY <2>1, <2>2, <2>3, <2>4
      DEF AuthInv, OnlyNewestOpen, AuthWithinFile, GrantWithinFile
  <1>3. ASSUME NEW t \in Tasks, MonitorList(t) PROVE AuthInv'
    <2>1. /\ task[t] # "none" /\ UNCHANGED <<file, auths, task, owner>>
          /\ monitor'.task = t /\ monitor'.seen = Newest(TaskFile[t])
      BY <1>3 DEF MonitorList, fileVars
    <2> DEFINE ids == {i \in DOMAIN auths : auths[i].file = TaskFile[t]}
    <2>2. ids \in SUBSET (1..Len(auths))
      OBVIOUS
    <2> HIDE DEF ids
    <2>3. /\ NewestOf(ids) # None => NewestOf(ids) \in ids
          /\ \A i \in ids : i <= NewestOf(ids)
      BY <2>2, NewestOfIsLast
    <2>4. SeenIsNewest'
      BY <2>1, <2>3 DEF SeenIsNewest, Newest, ids
    <2> QED
      BY <2>1, <2>4
      DEF AuthInv, KnownFiles, Published, OnlyNewestOpen, AnswerFollowsOwner, AuthWithinFile,
          GrantWithinFile
  <1>4. CASE MonitorAct
    <2> DEFINE i == monitor.seen
               t == monitor.task
    <2>1. /\ t \in Tasks /\ task[t] # "none" /\ TaskFile[t] \in Published
          /\ i # None => auths[i].file = TaskFile[t]
          /\ \A j \in DOMAIN auths : auths[j].file = TaskFile[t] => j <= i
      BY <1>4 DEF MonitorAct, AuthInv, SeenIsNewest, KnownFiles, Typed
    <2>2. /\ UNCHANGED <<file, owner>> /\ monitor'.task = "none"
          /\ task \in [Tasks -> {"none", "confirming", "confirmed", "rejected"}]
      BY <1>4 DEF MonitorAct, fileVars, Typed
    <2>3. SeenIsNewest'
      BY <2>2 DEF SeenIsNewest
    <2>4. CASE MustApply(i, monitor.at) /\ PublishFileAuthApplication(TaskFile[t]) /\ UNCHANGED task
      <3> DEFINE n == Len(auths) + 1
      <3>1. /\ DOMAIN auths' = DOMAIN auths \cup {n}
            /\ \A j \in DOMAIN auths : auths'[j] = auths[j]
            /\ auths'[n].file = TaskFile[t] /\ auths'[n].status = Unapproved
            /\ n \notin DOMAIN auths /\ \A j \in DOMAIN auths : j < n /\ ~ (n < j)
            /\ ~ (n < n)
        BY <2>4 DEF PublishFileAuthApplication, Typed
      <3> HIDE DEF n
      <3>2. \A j \in DOMAIN auths : auths[j].file = TaskFile[t] => auths[j].status # Unapproved
        <4> SUFFICES ASSUME NEW j \in DOMAIN auths, auths[j].file = TaskFile[t]
                     PROVE  auths[j].status # Unapproved
          OBVIOUS
        <4>1. j <= i /\ i # None /\ i \in DOMAIN auths
          BY <2>1 DEF None
        <4>2. auths[i].status = Approved
          BY <4>1, <2>4 DEF MustApply
        <4>3. CASE j = i
          BY <4>2, <4>3 DEF Approved, Unapproved
        <4>4. CASE j < i
          BY <4>1, <4>4, <2>1 DEF AuthInv, OnlyNewestOpen
        <4> QED
          BY <4>1, <4>3, <4>4
      <3>3. OnlyNewestOpen'
        BY <3>1, <3>2 DEF AuthInv, OnlyNewestOpen
      <3>4. KnownFiles'
        BY <3>1, <2>1, <2>2, <2>4 DEF AuthInv, KnownFiles, Published
      <3>5. AnswerFollowsOwner'
        BY <3>1, <2>4 DEF AuthInv, AnswerFollowsOwner
      <3>6. AuthWithinFile'
        BY <3>1, <2>2 DEF AuthInv, AuthWithinFile, Approved, Unapproved
      <3>7. GrantWithinFile'
        BY <3>1, <2>2 DEF AuthInv, GrantWithinFile
      <3> QED
        BY <2>3, <3>3, <3>4, <3>5, <3>6, <3>7 DEF AuthInv
    <2>5. ASSUME UNCHANGED auths, NEW s \in {"confirmed", "rejected"},
                 task' = [task EXCEPT ![t] = s], i # None,
                 auths[i].status = IF s = "confirmed" THEN Approved ELSE Rejected
          PROVE  AuthInv'
      <3>1. AnswerFollowsOwner'
        BY <2>1, <2>2, <2>5 DEF AuthInv, AnswerFollowsOwner
      <3>2. KnownFiles'
        BY <2>1, <2>2, <2>5 DEF AuthInv, KnownFiles, Published
      <3> QED
        BY <2>2, <2>3, <2>5, <3>1, <3>2
        DEF AuthInv, OnlyNewestOpen, AuthWithinFile, GrantWithinFile
    <2>6. CASE UNCHANGED <<task, auths>>
      BY <2>2, <2>3, <2>6
      DEF AuthInv, KnownFiles, Published, OnlyNewestOpen, AnswerFollowsOwner, AuthWithinFile,
          GrantWithinFile
    <2> QED
      BY <1>4, <2>4, <2>5, <2>6 DEF MonitorAct, MustApply
  <1>5. ASSUME NEW i \in 1..MaxAuths, RejectAuth(i) PROVE AuthInv'
    <2>1. /\ i \in DOMAIN auths /\ setFileAuthConfirmStatus(i, FALSE, 0, {})
          /\ UNCHANGED fileVars /\ UNCHANGED <<task, monitor>> /\ owner' = owner
      BY <1>5 DEF RejectAuth
    <2>2. 0 \in Times
      BY MaxTimeAssumption DEF Times
    <2> QED
      BY <2>1, <2>2, AnswerKeepsAuthInv
  <1>6. ASSUME NEW i \in 1..MaxAuths, NEW e \in Expiries, ConfirmAuth(i, e) PROVE AuthInv'
    <2>1. /\ UNCHANGED <<file, auths, task, monitor>>
          /\ owner'.id = i /\ owner'.expire = e /\ e <= file[auths[i].file].expire
      BY <1>6 DEF ConfirmAuth, MayGrant, fileVars
    <2> QED
      BY <2>1
      DEF AuthInv, KnownFiles, Published, SeenIsNewest, OnlyNewestOpen, AnswerFollowsOwner,
          AuthWithinFile, GrantWithinFile
  <1>7. CASE ConfirmOnChain
    <2>1. UNCHANGED fileVars /\ UNCHANGED <<task, monitor>> /\ owner'.id = None /\ owner.id # None
      BY <1>7 DEF ConfirmOnChain
    <2>2. owner.expire <= file[auths[owner.id].file].expire
      BY <2>1 DEF AuthInv, GrantWithinFile
    <2>3. CASE setFileAuthConfirmStatus(owner.id, TRUE, owner.expire, owner.keys)
      BY <2>1, <2>2, <2>3, AnswerKeepsAuthInv
    <2>4. CASE UNCHANGED auths
      BY <2>1, <2>4
      DEF AuthInv, KnownFiles, Published, SeenIsNewest, OnlyNewestOpen, AnswerFollowsOwner,
          AuthWithinFile, GrantWithinFile, fileVars
    <2> QED
      BY <1>7, <2>3, <2>4 DEF ConfirmOnChain
  <1> QED
    BY <1>1, <1>2, <1>3, <1>4, <1>5, <1>6, <1>7
    DEF Next, vars, accessVars, Write, Move, GetSampleFile, recoverSlice, recoverFails

\* Initially there is nothing that could disagree.
LEMMA AuthInit == Init => AuthInv
  BY DEF Init, FileInit, AuthInv, KnownFiles, SeenIsNewest, OnlyNewestOpen, AnswerFollowsOwner,
         AuthWithinFile, GrantWithinFile, None

\* Applications and answers fit together: the executor answers a task as the
\* owner answered for its file, never applies while an application is open,
\* and no authorization outlives its file (confirmTaskByExecutionType,
\* ConfirmAuth, setFileAuthConfirmStatus).
THEOREM AuthorizationsAreSound == Spec => []AuthorizationsSound
  <1>2. Typed /\ AuthInv => AuthorizationsSound
    <2> SUFFICES ASSUME Typed, AuthInv PROVE OneOpenApplication
      BY DEF AuthorizationsSound, AuthInv
    <2>1. \A i, j \in DOMAIN auths : i < j \/ i = j \/ j < i
      BY RememberedExist
    <2> QED
      BY <2>1 DEF AuthInv, OnlyNewestOpen, OneOpenApplication
  <1> QED
    BY <1>2, AuthInit, TypingInit, TypingStep, AuthStep, PTL DEF Spec

-----------------------------------------------------------------------------
(***************************************************************************)
(* Downloads.                                                              *)
(***************************************************************************)

\* The newest approved application, if there is one, is an approved
\* application for the file.
LEMMA NewestApprovedIsApproved ==
    ASSUME Typed, NEW f
    PROVE  /\ NewestApproved(f) # None =>
                 /\ NewestApproved(f) \in DOMAIN auths
                 /\ auths[NewestApproved(f)].file = f
                 /\ auths[NewestApproved(f)].status = Approved
           /\ (\E i \in DOMAIN auths : auths[i].file = f /\ auths[i].status = Approved) =>
                 NewestApproved(f) # None
           /\ \A i \in DOMAIN auths :
                 auths[i].file = f /\ auths[i].status = Approved => i <= NewestApproved(f)
  <1> DEFINE ids == {i \in DOMAIN auths : auths[i].file = f /\ auths[i].status = Approved}
  <1>1. ids \in SUBSET (1..Len(auths)) /\ Len(auths) \in Nat
    BY RememberedExist
  <1> HIDE DEF ids
  <1>2. /\ NewestOf(ids) # None => NewestOf(ids) \in ids
        /\ ids # {} => NewestOf(ids) # None
        /\ \A j \in ids : j <= NewestOf(ids)
    BY <1>1, NewestOfIsLast
  <1> QED
    BY <1>2 DEF NewestApproved, ids

(***************************************************************************)
(* Which authorization decides.  The monitor applies again only when the   *)
(* application that it has listed is approved and has expired, and nobody  *)
(* else applies: inductively, an approved application that is not the last *)
(* one for its file has expired.                                           *)
(***************************************************************************)
OlderExpired ==
    \A i, j \in DOMAIN auths :
        /\ i < j
        /\ auths[i].file = auths[j].file
        /\ auths[i].status = Approved
        => auths[i].expire <= now

ForceInv == OlderExpired /\ monitor.at <= now

\* Every step keeps older authorizations expired.
LEMMA ForceStep == Typed /\ AuthInv /\ ForceInv /\ [Next]_vars => ForceInv'
  <1> SUFFICES ASSUME Typed, AuthInv, ForceInv, [Next]_vars PROVE ForceInv'
    OBVIOUS
  <1> USE RememberedExist
  <1>1. now \in Nat /\ now' \in Nat /\ now <= now' /\ monitor.at \in Nat
    <2>1. CASE Tick
      BY <2>1, MaxTimeAssumption DEF Tick, Typed, FileTypeOK, Times
    <2>2. CASE now' = now
      BY <2>2, MaxTimeAssumption DEF Typed, FileTypeOK, Times
    <2>3. \/ Tick
          \/ now' = now
          \/ \E f \in Files, node \in [Slices -> Nodes], e \in Expiries : Write(f, node, e)
      BY DEF Next, Chain, vars, fileVars, PublishTask, MonitorList, GetSampleFile, MonitorAct,
             RejectAuth, ConfirmAuth, ConfirmOnChain, recoverSlice, recoverFails, AddFileNs, Move,
             UpdateFileExpireTime, UpdateFilePublicSliceMeta
    <2>4. ASSUME NEW f \in Files, NEW node \in [Slices -> Nodes], NEW e \in Expiries,
                 Write(f, node, e)
          PROVE  now' = now
      BY <2>4 DEF Write, PublishFile
    <2> QED
      BY <2>1, <2>2, <2>3, <2>4
  <1>2. \A i \in DOMAIN auths : auths[i].expire \in Nat
    BY MaxTimeAssumption DEF AuthRec, Times
  <1>3. ASSUME UNCHANGED auths PROVE OlderExpired'
    BY <1>1, <1>2, <1>3 DEF ForceInv, OlderExpired
  <1>4. CASE UNCHANGED <<auths, monitor>>
    BY <1>1, <1>3, <1>4 DEF ForceInv
  <1>5. ASSUME NEW t \in Tasks, MonitorList(t) PROVE ForceInv'
    BY <1>1, <1>3, <1>5 DEF MonitorList, ForceInv, fileVars
  <1>6. CASE MonitorAct
    <2> DEFINE k == monitor.seen
               f == TaskFile[monitor.task]
               n == Len(auths) + 1
    <2>1. monitor'.at <= now'
      BY <1>1, <1>6 DEF MonitorAct
    <2>2. CASE MustApply(k, monitor.at) /\ PublishFileAuthApplication(f)
      <3>1. /\ DOMAIN auths' = DOMAIN auths \cup {n}
            /\ \A j \in DOMAIN auths : auths'[j] = auths[j]
            /\ auths'[n].file = f /\ auths'[n].status = Unapproved
            /\ \A j \in DOMAIN auths : j < n
        BY <2>2 DEF PublishFileAuthApplication, Typed
      <3> HIDE DEF n
      <3>2. ASSUME NEW i \in DOMAIN auths, auths[i].file = f, auths[i].status = Approved
            PROVE  auths[i].expire <= now
        <4>1. /\ i <= k
              /\ k # None => auths[k].file = f
          BY <1>6, <3>2 DEF MonitorAct, AuthInv, SeenIsNewest
        <4>2. k # None /\ k \in DOMAIN auths
          BY <4>1 DEF None
        <4>3. auths[k].expire <= monitor.at
          BY <2>2, <4>2 DEF MustApply
        <4>4. auths[k].expire <= now
          BY <1>1, <1>2, <4>2, <4>3 DEF ForceInv
        <4> QED
          BY <3>2, <4>1, <4>2, <4>4 DEF ForceInv, OlderExpired
      <3>3. OlderExpired'
        <4> SUFFICES ASSUME NEW i \in DOMAIN auths', NEW j \in DOMAIN auths', i < j,
                            auths'[i].file = auths'[j].file, auths'[i].status = Approved
                     PROVE  auths'[i].expire <= now'
          BY DEF OlderExpired
        <4>1. i \in DOMAIN auths /\ auths'[i] = auths[i]
          BY <3>1 DEF Approved, Unapproved
        <4>2. auths[i].expire <= now
          BY <3>1, <3>2, <4>1 DEF ForceInv, OlderExpired
        <4> QED
          BY <1>1, <1>2, <4>1, <4>2
      <3> QED
        BY <2>1, <3>3 DEF ForceInv
    <2> QED
      BY <1>3, <1>6, <2>1, <2>2 DEF MonitorAct, ForceInv
  <1>7. ASSUME NEW k \in DOMAIN auths, NEW a, NEW e, NEW ks,
               setFileAuthConfirmStatus(k, a, e, ks), UNCHANGED monitor
        PROVE  ForceInv'
    <2>1. /\ DOMAIN auths' = DOMAIN auths
          /\ \A j \in DOMAIN auths : j # k => auths'[j] = auths[j]
          /\ auths'[k].file = auths[k].file
          /\ auths[k].status = Unapproved
      BY <1>7 DEF setFileAuthConfirmStatus, AuthRec
    <2>2. OlderExpired'
      <3> SUFFICES ASSUME NEW i \in DOMAIN auths, NEW j \in DOMAIN auths, i < j,
                          auths'[i].file = auths'[j].file, auths'[i].status = Approved
                   PROVE  auths'[i].expire <= now'
        BY <2>1 DEF OlderExpired
      <3>1. auths[i].file = auths[j].file
        BY <2>1
      <3>2. i # k /\ auths'[i] = auths[i]
        BY <2>1, <3>1 DEF AuthInv, OnlyNewestOpen
      <3>3. auths[i].expire <= now
        BY <3>1, <3>2 DEF ForceInv, OlderExpired
      <3> QED
        BY <1>1, <1>2, <3>2, <3>3
    <2> QED
      BY <1>1, <1>7, <2>2 DEF ForceInv
  <1>8. \/ UNCHANGED <<auths, monitor>>
        \/ \E t \in Tasks : MonitorList(t)
        \/ MonitorAct
        \/ \E k \in DOMAIN auths : \E a, e, ks :
              setFileAuthConfirmStatus(k, a, e, ks) /\ UNCHANGED monitor
    BY DEF Next, vars, accessVars, Write, Move, PublishTask, GetSampleFile,
           recoverSlice, recoverFails, RejectAuth, ConfirmAuth, ConfirmOnChain
  <1> QED
    BY <1>4, <1>5, <1>6, <1>7, <1>8

\* While an authorization of a file is in force, storage nodes serve its slices
\* and the executor takes its keys: the application that they look at, the newest
\* approved one, is that authorization and never a later one with an earlier end
\* (confirmTaskByExecutionType, checkApplierFileAuth, GetSampleFile).
THEOREM NewestDecides == Spec => []NewestInForce
  <1>1. Init => ForceInv
    BY DEF Init, FileInit, ForceInv, OlderExpired
  <1>2. ASSUME Typed, ForceInv PROVE NewestInForce
    <2> SUFFICES ASSUME NEW f \in Files, NEW i \in DOMAIN auths, auths[i].file = f,
                        auths[i].status = Approved, auths[i].expire > now
                 PROVE  checkApplierFileAuth(f)
      BY DEF NewestInForce
    <2> DEFINE n == NewestApproved(f)
    <2>1. /\ n # None /\ n \in DOMAIN auths
          /\ auths[n].file = f /\ i <= n
      BY <1>2, NewestApprovedIsApproved
    <2>2. i \in Nat /\ n \in Nat /\ now \in Nat /\ auths[i].expire \in Nat
      BY <1>2, <2>1, RememberedExist, ExpireIsNat, MaxTimeAssumption DEF AuthRec, Times
    <2>3. ~ (i < n)
      BY <1>2, <2>1, <2>2 DEF ForceInv, OlderExpired
    <2>4. n = i
      BY <2>1, <2>2, <2>3
    <2> HIDE DEF n
    <2>5. auths[n].expire >= now
      BY <2>2, <2>4
    <2> QED
      BY <2>1, <2>5 DEF checkApplierFileAuth, n
  <1> QED
    BY <1>1, <1>2, AuthInit, TypingInit, TypingStep, AuthStep, ForceStep, PTL DEF Spec

(***************************************************************************)
(* Why downloads fail.  Storage nodes hold every slice that the contract   *)
(* says they hold, and the keys of an authorization cover every slice on   *)
(* every node of the listing, except where the slice was moved to.         *)
(***************************************************************************)
HeldAsListed ==
    \A f \in Published : \A m \in file[f].slices : <<f, m.id, m.node>> \in held

Covered(f, metas, keys) ==
    \A m \in metas : <<m.id, m.node>> \in keys \/ <<f, m.id, m.node>> \in moves

KeysComplete ==
    /\ \A i \in DOMAIN auths :
          auths[i].status = Approved =>
              Covered(auths[i].file, file[auths[i].file].slices, auths[i].keys)
    /\ owner.id # None =>
          Covered(auths[owner.id].file, file[auths[owner.id].file].slices, owner.keys)

DownloadComplete(t, d) ==
    /\ TaskFile[t] \in Published
    /\ \A m \in d.listing : <<TaskFile[t], m.id, m.node>> \in held
    /\ Covered(TaskFile[t], d.listing, d.keys)
    /\ d.left \subseteq SliceIds(d.listing)
    /\ \E i \in DOMAIN auths : auths[i].file = TaskFile[t] /\ auths[i].status = Approved

ListingComplete ==
    \A t \in Tasks : download[t].pc = "pull" => DownloadComplete(t, download[t])

DeliveryInv == HeldAsListed /\ KeysComplete /\ ListingComplete

\* Storage nodes hold what the contract lists, through publication (the data
\* is pushed first) and migration.
LEMMA HeldStep ==
    ASSUME Typed, HeldAsListed, [Next]_vars
    PROVE  HeldAsListed'
  <1> USE ExpireIsNat
  <1>1. ASSUME NEW f \in Files, NEW node \in [Slices -> Nodes], NEW e \in Expiries,
               Write(f, node, e)
        PROVE  HeldAsListed'
    <2>1. PICK metas : /\ PublishFile(f, Ns, Name, e, metas)
                       /\ held' = held \cup {<<f, m.id, m.node>> : m \in metas}
      BY <1>1 DEF Write
    <2>2. /\ Published' = Published \cup {f} /\ file'[f].slices = metas
          /\ \A g \in Published : file'[g] = file[g] /\ g # f
      BY <2>1 DEF PublishFile, Published
    <2> QED
      BY <2>1, <2>2 DEF HeldAsListed
  <1>2. ASSUME NEW f \in Published, NEW node \in Nodes, NEW m \in file[f].slices,
               Move(f, m, node)
        PROVE  HeldAsListed'
    <2> DEFINE n == [m EXCEPT !.node = node]
    <2>1. /\ file' = [file EXCEPT ![f].slices = (file[f].slices \ {m}) \cup {n}]
          /\ held' = held \cup {<<f, m.id, node>>}
      BY <1>2 DEF Move, UpdateFilePublicSliceMeta
    <2>2. m \in SliceMeta
      BY DEF FileRec
    <2>3. n.id = m.id /\ n.node = node
      BY <2>2 DEF SliceMeta
    <2>4. Published' = Published
      BY <2>1 DEF Published
    <2>5. /\ file'[f].slices = (file[f].slices \ {m}) \cup {n}
          /\ \A g \in Published : g # f => file'[g] = file[g]
      BY <2>1 DEF Published, FileRec
    <2> HIDE DEF n
    <2> QED
      BY <2>1, <2>3, <2>4, <2>5 DEF HeldAsListed
  <1>3. ASSUME NEW f \in Files, NEW e \in Expiries, UpdateFileExpireTime(f, e), UNCHANGED held
        PROVE  HeldAsListed'
    <2>1. Published' = Published /\ \A g \in Published : file'[g].slices = file[g].slices
      BY <1>3 DEF UpdateFileExpireTime, CanExtend, Published, FileRec
    <2> QED
      BY <1>3, <2>1 DEF HeldAsListed
  <1>4. CASE UNCHANGED <<file, held>>
    BY <1>4 DEF HeldAsListed, Published
  <1>5. \/ UNCHANGED <<file, held>>
        \/ \E f \in Files, e \in Expiries : UpdateFileExpireTime(f, e) /\ UNCHANGED held
        \/ \E f \in Files, node \in [Slices -> Nodes], e \in Expiries : Write(f, node, e)
        \/ \E f \in Published, node \in Nodes : \E m \in file[f].slices : Move(f, m, node)
    BY DEF Next, Chain, vars, fileVars, accessVars, PublishTask, MonitorList, GetSampleFile,
           MonitorAct, RejectAuth, ConfirmAuth, ConfirmOnChain, recoverSlice, recoverFails,
           AddFileNs, Tick
  <1> QED
    BY <1>1, <1>2, <1>3, <1>4, <1>5

\* The slices of a published file change by migration only, and what nodes
\* hold and the moves there were are not forgotten.
LEMMA SlicesMove ==
    ASSUME Typed, [Next]_vars
    PROVE  /\ held \subseteq held' /\ moves \subseteq moves'
           /\ \A f \in Published :
                 /\ f \in Published'
                 /\ \A m \in file'[f].slices :
                       m \in file[f].slices \/ <<f, m.id, m.node>> \in moves'
  <1> USE ExpireIsNat
  <1>1. \A f \in Published : f \in Published'
    BY FilesGrow
  <1>2. ASSUME NEW f \in Published, NEW node \in Nodes, NEW m \in file[f].slices,
               Move(f, m, node)
        PROVE  /\ held \subseteq held' /\ moves \subseteq moves'
               /\ \A g \in Published : \A x \in file'[g].slices :
                     x \in file[g].slices \/ <<g, x.id, x.node>> \in moves'
    <2> DEFINE n == [m EXCEPT !.node = node]
    <2>1. /\ file' = [file EXCEPT ![f].slices = (file[f].slices \ {m}) \cup {n}]
          /\ held' = held \cup {<<f, m.id, node>>} /\ moves' = moves \cup {<<f, m.id, node>>}
      BY <1>2 DEF Move, UpdateFilePublicSliceMeta
    <2>2. n.id = m.id /\ n.node = node
      BY DEF FileRec, SliceMeta
    <2>3. /\ file'[f].slices = (file[f].slices \ {m}) \cup {n}
          /\ \A g \in Published : g # f => file'[g] = file[g]
      BY <2>1 DEF Published, FileRec
    <2> HIDE DEF n
    <2> QED
      BY <2>1, <2>2, <2>3
  <1>3. ASSUME NEW f \in Files, NEW node \in [Slices -> Nodes], NEW e \in Expiries,
               Write(f, node, e)
        PROVE  /\ held \subseteq held' /\ moves' = moves
               /\ \A g \in Published : file'[g] = file[g]
    <2>1. PICK metas : PublishFile(f, Ns, Name, e, metas)
      BY <1>3 DEF Write
    <2> QED
      BY <1>3, <2>1 DEF PublishFile, Published, Write
  <1>4. ASSUME NEW f \in Files, NEW e \in Expiries, UpdateFileExpireTime(f, e)
        PROVE  \A g \in Published : file'[g].slices = file[g].slices
    BY <1>4 DEF UpdateFileExpireTime, CanExtend, Published, FileRec
  <1>5. \/ UNCHANGED <<file, held, moves>>
        \/ \E f \in Files, e \in Expiries :
              UpdateFileExpireTime(f, e) /\ UNCHANGED <<held, moves>>
        \/ \E f \in Files, node \in [Slices -> Nodes], e \in Expiries : Write(f, node, e)
        \/ \E f \in Published, node \in Nodes : \E m \in file[f].slices : Move(f, m, node)
    BY DEF Next, Chain, vars, fileVars, accessVars, PublishTask, MonitorList, GetSampleFile,
           MonitorAct, RejectAuth, ConfirmAuth, ConfirmOnChain, recoverSlice, recoverFails,
           AddFileNs, Tick
  <1> QED
    BY <1>1, <1>2, <1>3, <1>4, <1>5

\* The monitor only ever adds one open application at the end.
LEMMA MonitorAppends ==
    ASSUME Typed, MonitorAct
    PROVE  /\ \A i \in DOMAIN auths : i \in DOMAIN auths' /\ auths'[i] = auths[i]
           /\ \A i \in DOMAIN auths' : i \in DOMAIN auths \/ auths'[i].status = Unapproved
  <1>1. CASE UNCHANGED auths
    BY <1>1
  <1>2. CASE PublishFileAuthApplication(TaskFile[monitor.task])
    <2>1. auths \in Seq(AuthRec)
      BY DEF Typed
    <2> QED
      BY <1>2, <2>1 DEF PublishFileAuthApplication
  <1> QED
    BY <1>1, <1>2 DEF MonitorAct

\* What an approved application grants covers the file's slices, but for those
\* that were moved (getAuthKey, ConfirmAuth).
LEMMA KeysStep ==
    ASSUME Typed, AuthInv, [Next]_vars, KeysComplete
    PROVE  KeysComplete'
  <1>1. ASSUME NEW f \in Published, NEW keys, Covered(f, file[f].slices, keys)
        PROVE  Covered(f, file[f].slices, keys)'
    BY <1>1, SlicesMove DEF Covered
  <1>2. \A i \in DOMAIN auths : auths[i].file \in Published
    BY DEF AuthInv, KnownFiles
  <1> USE RememberedExist
  <1>3. CASE UNCHANGED <<auths, owner>>
    BY <1>1, <1>2, <1>3 DEF KeysComplete
  <1>4. CASE MonitorAct
    <2>1. /\ \A i \in DOMAIN auths : i \in DOMAIN auths' /\ auths'[i] = auths[i]
          /\ \A i \in DOMAIN auths' : i \in DOMAIN auths \/ auths'[i].status = Unapproved
          /\ UNCHANGED owner
      BY <1>4, MonitorAppends DEF MonitorAct
    <2> QED
      BY <1>1, <1>2, <2>1 DEF KeysComplete, Approved, Unapproved
  <1>5. ASSUME NEW i \in 1..MaxAuths, NEW e \in Expiries, ConfirmAuth(i, e)
        PROVE  KeysComplete'
    <2>1. /\ UNCHANGED auths /\ owner'.id = i /\ i \in DOMAIN auths
          /\ owner'.keys = getAuthKey(auths[i].file)
      BY <1>5 DEF ConfirmAuth
    <2>2. Covered(auths[i].file, file[auths[i].file].slices, owner'.keys)
      BY <2>1 DEF Covered, getAuthKey
    <2> QED
      BY <1>1, <1>2, <2>1, <2>2 DEF KeysComplete
  <1>6. ASSUME NEW i \in 1..MaxAuths, RejectAuth(i) PROVE KeysComplete'
    <2>1. /\ DOMAIN auths' = DOMAIN auths /\ UNCHANGED owner
          /\ \A j \in DOMAIN auths : auths'[j].file = auths[j].file
          /\ \A j \in DOMAIN auths : auths'[j].status = Approved => auths'[j] = auths[j]
      BY <1>6 DEF RejectAuth, setFileAuthConfirmStatus, AuthRec, Approved, Rejected
    <2> QED
      BY <1>1, <1>2, <2>1 DEF KeysComplete
  <1>7. CASE ConfirmOnChain
    <2>1. /\ owner'.id = None /\ owner.id \in DOMAIN auths
          /\ Covered(auths[owner.id].file, file[auths[owner.id].file].slices, owner.keys)
      BY <1>7 DEF ConfirmOnChain, KeysComplete
    <2>2. CASE UNCHANGED auths
      BY <1>1, <1>2, <2>1, <2>2 DEF KeysComplete
    <2>3. CASE setFileAuthConfirmStatus(owner.id, TRUE, owner.expire, owner.keys)
      <3>1. /\ DOMAIN auths' = DOMAIN auths
            /\ \A j \in DOMAIN auths : j # owner.id => auths'[j] = auths[j]
            /\ auths'[owner.id].file = auths[owner.id].file
            /\ auths'[owner.id].keys = owner.keys
        BY <2>1, <2>3 DEF setFileAuthConfirmStatus, AuthRec
      <3> QED
        BY <1>1, <1>2, <2>1, <3>1 DEF KeysComplete
    <2> QED
      BY <1>7, <2>2, <2>3 DEF ConfirmOnChain
  <1> QED
    BY <1>3, <1>4, <1>5, <1>6, <1>7
    DEF Next, vars, accessVars, Write, Move, PublishTask, MonitorList, GetSampleFile,
        recoverSlice, recoverFails

\* A download that is under way has a listing that nodes can serve and its keys,
\* but for the slices that were moved (GetSampleFile, recoverSlice).
LEMMA ListingStep ==
    ASSUME Typed, AuthInv, [Next]_vars, HeldAsListed, KeysComplete, ListingComplete
    PROVE  ListingComplete'
  <1>1. /\ held \subseteq held' /\ moves \subseteq moves'
        /\ \A f \in Published : f \in Published'
    BY SlicesMove
  <1>2. download \in [Tasks -> DownloadRec]
    BY DEF Typed
  <1>3. ASSUME NEW i \in DOMAIN auths, auths[i].status = Approved
        PROVE  i \in DOMAIN auths' /\ auths'[i].file = auths[i].file /\ auths'[i].status = Approved
    <2>1. CASE UNCHANGED auths
      BY <1>3, <2>1
    <2>2. CASE MonitorAct
      BY <1>3, <2>2, MonitorAppends
    <2>3. ASSUME NEW k \in DOMAIN auths, NEW a, NEW e, NEW ks, setFileAuthConfirmStatus(k, a, e, ks)
          PROVE  /\ i \in DOMAIN auths' /\ auths'[i].file = auths[i].file
                 /\ auths'[i].status = Approved
      BY <1>3, <2>3, RememberedExist DEF setFileAuthConfirmStatus, Approved, Unapproved
    <2>4. \/ UNCHANGED auths
          \/ MonitorAct
          \/ \E k \in DOMAIN auths : \E a, e, ks : setFileAuthConfirmStatus(k, a, e, ks)
      BY RememberedExist
      DEF Next, vars, accessVars, Write, Move, PublishTask, MonitorList, GetSampleFile,
          recoverSlice, recoverFails, RejectAuth, ConfirmAuth, ConfirmOnChain
    <2> QED
      BY <2>1, <2>2, <2>3, <2>4
  <1>4. ASSUME NEW u \in Tasks, NEW d, NEW d2, DownloadComplete(u, d), d2.listing = d.listing,
               d2.keys = d.keys, d2.left \subseteq d.left
        PROVE  DownloadComplete(u, d2)'
    BY <1>1, <1>3, <1>4 DEF DownloadComplete, Covered
  <1>5. CASE UNCHANGED download
    BY <1>4, <1>5 DEF ListingComplete
  <1>6. ASSUME NEW t \in Tasks, GetSampleFile(t) PROVE ListingComplete'
    <2> DEFINE f == TaskFile[t]
               i == NewestApproved(f)
    <2>1. ASSUME download'[t].pc = "pull" PROVE DownloadComplete(t, download[t])'
      <3>1. /\ GetFileByID(f) /\ i # None
            /\ download'[t] = [pc |-> "pull", listing |-> file[f].slices,
                               keys |-> auths[i].keys, left |-> SliceIds(file[f].slices)]
        BY <1>2, <1>6, <2>1 DEF GetSampleFile, NoDownload
      <3>2. i \in DOMAIN auths /\ auths[i].file = f /\ auths[i].status = Approved
        BY <3>1, NewestApprovedIsApproved
      <3>3. DownloadComplete(t, download'[t])
        BY <3>1, <3>2 DEF DownloadComplete, GetFileByID, KeysComplete, HeldAsListed
      <3> QED
        BY <1>4, <3>3
    <2>2. \A u \in Tasks : u # t => download'[u] = download[u]
      BY <1>2, <1>6 DEF GetSampleFile
    <2> QED
      BY <1>4, <2>1, <2>2 DEF ListingComplete
  <1>7. ASSUME NEW t \in Tasks, NEW s \in Slices, recoverSlice(t, s) \/ recoverFails(t, s)
        PROVE  ListingComplete'
    <2>1. \A u \in Tasks : u # t => download'[u] = download[u]
      BY <1>2, <1>7 DEF recoverSlice, recoverFails
    <2>2. CASE recoverFails(t, s)
      BY <1>2, <1>4, <2>1, <2>2 DEF recoverFails, NoDownload, ListingComplete
    <2>3. CASE recoverSlice(t, s)
      <3>1. /\ download[t].pc = "pull"
            /\ download'[t].listing = download[t].listing
            /\ download'[t].keys = download[t].keys
            /\ download'[t].left \subseteq download[t].left
        BY <1>2, <2>3 DEF recoverSlice, DownloadRec
      <3> QED
        BY <1>4, <2>1, <3>1 DEF ListingComplete
    <2> QED
      BY <1>7, <2>2, <2>3
  <1> QED
    BY <1>5, <1>6, <1>7
    DEF Next, vars, accessVars, Write, Move, PublishTask, MonitorList, MonitorAct, RejectAuth,
        ConfirmAuth, ConfirmOnChain

\* A download fails only because the file or its newest authorization has
\* expired, a pull failed, or the key of a slice on the node that it was moved to
\* is missing: otherwise some node of the listing serves every slice that is left.
THEOREM FailuresAreExplained == Spec => FailureExplained
  <1> DEFINE Explained == \A t \in Tasks :
                 download[t].pc = "pull" /\ download'[t].pc = "failed" =>
                    \/ ~GetFileByID(TaskFile[t])
                    \/ auths[NewestApproved(TaskFile[t])].expire < now
                    \/ faults' > faults
                    \/ \E m \in download[t].listing :
                          /\ m.id \in download[t].left
                          /\ <<TaskFile[t], m.id, m.node>> \in moves
                          /\ <<m.id, m.node>> \notin download[t].keys
  <1>1. Init => DeliveryInv
    BY DEF Init, FileInit, DeliveryInv, HeldAsListed, KeysComplete, ListingComplete, NoDownload,
           Published
  <1>2. Typed /\ AuthInv /\ DeliveryInv /\ [Next]_vars => DeliveryInv'
    BY HeldStep, KeysStep, ListingStep DEF DeliveryInv
  <1>3. ASSUME Typed, DeliveryInv, [Next]_vars PROVE [Explained]_vars
    <2> SUFFICES ASSUME NEW u \in Tasks, download[u].pc = "pull", download'[u].pc = "failed",
                        GetFileByID(TaskFile[u]), ~ (faults' > faults),
                        ~ \E m \in download[u].listing :
                             /\ m.id \in download[u].left
                             /\ <<TaskFile[u], m.id, m.node>> \in moves
                             /\ <<m.id, m.node>> \notin download[u].keys
                 PROVE  auths[NewestApproved(TaskFile[u])].expire < now
      OBVIOUS
    <2>1. /\ download \in [Tasks -> DownloadRec] /\ faults \in Nat /\ now \in Nat
          /\ DownloadComplete(u, download[u])
      BY <1>3, ExpireIsNat DEF Typed, DeliveryInv, ListingComplete
    <2>2. PICK s \in Slices : recoverFails(u, s)
      <3>1. \/ \E t \in Tasks : GetSampleFile(t)
            \/ \E t \in Tasks, s \in Slices : recoverSlice(t, s) \/ recoverFails(t, s)
        BY <1>3 DEF Next, vars, accessVars, Write, Move, PublishTask, MonitorList, MonitorAct,
                    RejectAuth, ConfirmAuth, ConfirmOnChain
      <3>2. ASSUME NEW t \in Tasks, GetSampleFile(t) PROVE FALSE
        BY <2>1, <3>2 DEF GetSampleFile
      <3>3. ASSUME NEW t \in Tasks, NEW s \in Slices, recoverSlice(t, s) PROVE FALSE
        BY <2>1, <3>3 DEF recoverSlice, DownloadRec
      <3>4. ASSUME NEW t \in Tasks, NEW s \in Slices, recoverFails(t, s) PROVE t = u
        BY <2>1, <3>4 DEF recoverFails
      <3> QED
        BY <3>1, <3>2, <3>3, <3>4
    <2>3. s \in download[u].left /\ ~CanRecover(u, s)
      BY <2>1, <2>2 DEF recoverFails
    <2>4. PICK m \in download[u].listing : m.id = s
      BY <2>1, <2>3 DEF DownloadComplete, SliceIds
    <2>5. <<s, m.node>> \in download[u].keys
      BY <2>1, <2>3, <2>4 DEF DownloadComplete, Covered
    <2>6. <<TaskFile[u], s, m.node>> \in held
      BY <2>1, <2>4 DEF DownloadComplete
    <2>7. ~checkApplierFileAuth(TaskFile[u])
      BY <2>3, <2>4, <2>5, <2>6 DEF CanRecover, Pull
    <2> DEFINE n == NewestApproved(TaskFile[u])
    <2>8. n # None /\ n \in DOMAIN auths
      BY <1>3, <2>1, NewestApprovedIsApproved DEF DownloadComplete
    <2>9. \A i \in DOMAIN auths : auths[i].expire \in Nat
      <3>1. \A i \in DOMAIN auths : auths[i] \in AuthRec
        BY <1>3, RememberedExist
      <3> QED
        BY <3>1, MaxTimeAssumption DEF AuthRec, Times
    <2>10. ~ (n # None /\ auths[n].expire >= now)
      BY <2>7 DEF checkApplierFileAuth
    <2> HIDE DEF n
    <2>11. auths[n].expire \in Nat
      BY ONLY <2>8, <2>9
    <2>12. ~ (auths[n].expire >= now) /\ now \in Nat
      BY ONLY <2>1, <2>8, <2>10
    <2>13. auths[n].expire < now
      BY ONLY <2>11, <2>12
    <2> QED
      BY <2>13 DEF n
  <1> QED
    BY <1>1, <1>2, <1>3, AuthInit, TypingInit, TypingStep, AuthStep, PTL
    DEF Spec, FailureExplained
=============================================================================
