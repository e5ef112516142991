---------------------------- MODULE FileContract ----------------------------
(***************************************************************************)
(* The file part of the storage contract of XuperDB                        *)
(* (xdb/blockchain/xchain/contract/core/files.go and the slice index of    *)
(* nodes.go): namespaces, files, the name index that guards against        *)
(* duplicated names, and the index of slices by storage node and expire    *)
(* time from which a storage node learns what it may delete.               *)
(*                                                                         *)
(* One transaction is one step and a refused invocation writes nothing.    *)
(* There is one data owner: signatures, which bind an invocation to the    *)
(* owner's key, are left out.  Time stamps in the options are the time of  *)
(* the invocation.                                                         *)
(***************************************************************************)
EXTENDS Integers, FiniteSets

CONSTANTS
    Files,        \* identifiers of files (uuids)
    Names,        \* file names
    Namespaces,   \* names of namespaces
    Nodes,        \* storage nodes
    Slices,       \* identifiers of slices
    Retain,       \* FileRetainPeriod
    MaxReplica,   \* bound: replicas of a namespace
    MaxTime       \* bound: the last instant of the model

ASSUME RetainAssumption == Retain \in Nat \ {0}

ASSUME MaxTimeAssumption == MaxTime \in Nat

ASSUME MaxReplicaAssumption == MaxReplica \in Nat \ {0}

VARIABLES
    file,         \* id -> file, for the published files
    nameIndex,    \* <<namespace, name>> -> id of the file last published so
    ns,           \* name -> namespace, for the added namespaces
    nodeSlices,   \* the index entries "index_fslice/node/expire/file"
    now           \* the clock

fileVars == <<file, nameIndex, ns, nodeSlices, now>>

Times == 0..MaxTime

\* PublicSliceMeta: a slice on a node, with its index on that node.
SliceMeta == [id: Slices, node: Nodes, idx: Nat]

FileRec == [name: Names, ns: Namespaces, publish: Times, expire: Times,
            slices: SUBSET SliceMeta]

NsRec == [replica: 1..MaxReplica, total: Nat]

IndexEntry == [node: Nodes, expire: Times, file: Files, ids: SUBSET Slices]

Published == DOMAIN file

FileInit ==
    /\ file = << >>
    /\ nameIndex = << >>
    /\ ns = << >>
    /\ nodeSlices = {}
    /\ now = 0

-----------------------------------------------------------------------------
(***************************************************************************)
(* Queries.                                                                *)
(***************************************************************************)

\* GetFileByID answers only for a file that has not expired.
GetFileByID(f) == f \in Published /\ file[f].expire >= now

\* ListFiles of a namespace leaves out the files that have expired.
ListFiles(n) == {f \in Published : file[f].ns = n /\ file[f].expire > now}

\* ListNodesExpireSlice reads the index, not the files.
ListNodesExpireSlice(node, start, end) ==
    {e \in nodeSlices : e.node = node /\ e.expire \in start..end}

SlicesOn(metas, node) == {m.id : m \in {x \in metas : x.node = node}}

HoldersOf(metas, s) == {m.node : m \in {x \in metas : x.id = s}}

SliceIds(metas) == {m.id : m \in metas}

-----------------------------------------------------------------------------
(***************************************************************************)
(* Invocations.                                                            *)
(***************************************************************************)

\* AddFileNs: a duplicated namespace is refused.
AddFileNs(n, replica) ==
    /\ n \notin DOMAIN ns
    /\ ns' = [k \in DOMAIN ns \cup {n} |->
                 IF k = n THEN [replica |-> replica, total |-> 0] ELSE ns[k]]
    /\ UNCHANGED <<file, nameIndex, nodeSlices, now>>

\* Mutant of NameFree: the retention period is forgotten.
NameFree_noRetain(n, name) ==
    <<n, name>> \in DOMAIN nameIndex => file[nameIndex[<<n, name>>]].expire <= now

\* A name is free again when its last file is past the retention period.
NameFree(n, name) ==
    <<n, name>> \in DOMAIN nameIndex =>
        file[nameIndex[<<n, name>>]].expire + Retain <= now

\* PublishFile writes the file, the name index, the counters of the
\* namespace and one index entry for every node that holds a slice.
PublishFile(f, n, name, expire, metas) ==
    /\ metas # {}
    /\ f \notin Published
    /\ n \in DOMAIN ns
    /\ NameFree(n, name)
    /\ file' = [k \in Published \cup {f} |->
                   IF k = f
                   THEN [name |-> name, ns |-> n, publish |-> now,
                         expire |-> expire, slices |-> metas]
                   ELSE file[k]]
    /\ nameIndex' = [k \in DOMAIN nameIndex \cup {<<n, name>>} |->
                        IF k = <<n, name>> THEN f ELSE nameIndex[k]]
    /\ ns' = [ns EXCEPT ![n].total = @ + 1]
    /\ nodeSlices' = nodeSlices \cup
          {[node |-> m.node, expire |-> expire, file |-> f,
            ids |-> SlicesOn(metas, m.node)] : m \in metas}
    /\ UNCHANGED now

\* UpdateNsReplica only raises the number of replicas.
UpdateNsReplica(n, replica) ==
    /\ n \in DOMAIN ns
    /\ ns[n].replica < replica
    /\ ns' = [ns EXCEPT ![n].replica = replica]
    /\ UNCHANGED <<file, nameIndex, nodeSlices, now>>

\* UpdateFilePublicSliceMeta replaces the slices of the file; the index of
\* slices by node is left alone, and an expired file is accepted.
UpdateFilePublicSliceMeta(f, metas) ==
    /\ f \in Published
    /\ file' = [file EXCEPT ![f].slices = metas]
    /\ UNCHANGED <<nameIndex, ns, nodeSlices, now>>

\* The early returns of UpdateFileExpireTime.
CanExtend(f, expire) ==
    /\ f \in Published
    /\ file[f].expire + Retain > now
    /\ expire > file[f].expire
    /\ expire > now

\* UpdateFileExpireTime: the index of slices by node keeps the old time.
UpdateFileExpireTime(f, expire) ==
    /\ CanExtend(f, expire)
    /\ file' = [file EXCEPT ![f].expire = expire]
    /\ UNCHANGED <<nameIndex, ns, nodeSlices, now>>

Tick ==
    /\ now < MaxTime
    /\ now' = now + 1
    /\ UNCHANGED <<file, nameIndex, ns, nodeSlices>>

-----------------------------------------------------------------------------
(***************************************************************************)
(* Properties of the contract.                                             *)
(***************************************************************************)

FileTypeOK ==
    /\ Published \subseteq Files
    /\ \A f \in Published : file[f] \in FileRec
    /\ DOMAIN nameIndex \subseteq Namespaces \X Names
    /\ \A k \in DOMAIN nameIndex : nameIndex[k] \in Published
    /\ DOMAIN ns \subseteq Namespaces
    /\ \A n \in DOMAIN ns : ns[n] \in NsRec
    /\ nodeSlices \subseteq IndexEntry
    /\ now \in Times

(***************************************************************************)
(* A name of a namespace belongs to one file at a time, counted up to the  *)
(* end of the retention period: PublishFile refuses a taken name, and      *)
(* UpdateFileExpireTime cannot bring back a file whose name was given on.  *)
(***************************************************************************)
OneFilePerName ==
    \A f, g \in Published :
        (/\ f # g
         /\ file[f].ns = file[g].ns
         /\ file[f].name = file[g].name
         /\ file[f].expire + Retain > now) =>
            file[g].expire + Retain <= now
=============================================================================
