----------------------------- MODULE FileAccess -----------------------------
(***************************************************************************)
(* How an executor of a computation gets at a data owner's file.  Its task *)
(* monitor (dai/executor/monitor/task.go, execution type "Proxy") applies  *)
(* for the file, the owner's node (xdb/engine/handler_file.go) approves or *)
(* rejects, the contract (core/fileauth.go) records it, and the download   *)
(* (dai/executor/handler/file.go) pulls the slices from storage nodes,     *)
(* each of which checks the authorization again (xdb/engine/handler.go).   *)
(*                                                                         *)
(* There is one owner and one executor.  The authorization key is the set  *)
(* of (slice, node) pairs whose derived keys it holds.  A storage node     *)
(* keeps a slice that has moved on (deletion is SliceMaintenance's).       *)
(***************************************************************************)
EXTENDS FileContract, Sequences

CONSTANTS
    Tasks,         \* tasks of the executor
    TaskFile,      \* task -> the file of its data set
    Ns, Name,      \* the namespace and the name of all files
    Expiries,      \* expire times of files
    MaxAuths,      \* bound: applications
    MaxMoves,      \* bound: migrated slices
    MaxFaults      \* bound: pulls that fail

ASSUME AccessAssumption ==
    /\ Ns \in Namespaces
    /\ Name \in Names
    /\ TaskFile \in [Tasks -> Files]
    /\ Expiries \subseteq Times
    /\ MaxAuths \in Nat

VARIABLES
    auths,         \* the applications, oldest first
    task,          \* what the executor answered on the chain
    monitor,       \* the visit of one task by the task monitor
    owner,         \* the confirmation the owner's node is working on
    download,      \* the download of each task's file
    held,          \* <<file, slice, node>>: what storage nodes store
    moves,         \* <<file, slice, node>>: the moves there were
    faults

accessVars == <<auths, task, monitor, owner, download, held, moves, faults>>

vars == <<fileVars, accessVars>>

Unapproved == "Unapproved"
Approved   == "Approved"
Rejected   == "Rejected"

None == 0    \* no application: they are numbered from 1

\* What the download of a file remembers.
NoDownload == [pc |-> "none", listing |-> {}, keys |-> {}, left |-> {}]

Init ==
    /\ FileInit
    /\ auths = << >>
    /\ task = [t \in Tasks |-> "none"]
    /\ monitor = [task |-> "none", seen |-> None, at |-> 0]
    /\ owner = [id |-> None, keys |-> {}, expire |-> 0]
    /\ download = [t \in Tasks |-> NoDownload]
    /\ held = {}
    /\ moves = {}
    /\ faults = 0

-----------------------------------------------------------------------------
(***************************************************************************)
(* The contract: ListFileAuthApplications lists the newest first.          *)
(***************************************************************************)

NewestOf(ids) == IF ids = {} THEN None ELSE CHOOSE i \in ids : \A j \in ids : j <= i

\* The newest application for a file, and the newest approved one (Limit 1).
Newest(f) == NewestOf({i \in DOMAIN auths : auths[i].file = f})

NewestApproved(f) ==
    NewestOf({i \in DOMAIN auths : auths[i].file = f /\ auths[i].status = Approved})

PublishFileAuthApplication(f) ==
    /\ Len(auths) < MaxAuths
    /\ auths' = Append(auths, [file |-> f, status |-> Unapproved, expire |-> 0, keys |-> {}])

\* Mutant of setFileAuthConfirmStatus: an answered application is answered again.
setFileAuthConfirmStatus_again(i, approve, expire, keys) ==
    auths' = [auths EXCEPT ![i] = IF approve
                 THEN [@ EXCEPT !.status = Approved, !.expire = expire, !.keys = keys]
                 ELSE [@ EXCEPT !.status = Rejected]]

\* setFileAuthConfirmStatus: an application is answered once.
setFileAuthConfirmStatus(i, approve, expire, keys) ==
    /\ auths[i].status = Unapproved
    /\ auths' = [auths EXCEPT ![i] = IF approve
                    THEN [@ EXCEPT !.status = Approved, !.expire = expire, !.keys = keys]
                    ELSE [@ EXCEPT !.status = Rejected]]

-----------------------------------------------------------------------------
(***************************************************************************)
(* Files: written with one replica per slice, extended, migrated.          *)
(***************************************************************************)

Write(f, node, expire) ==
    LET metas == {[id |-> s, node |-> node[s], idx |-> 1] : s \in Slices}
    IN /\ now < expire
       /\ PublishFile(f, Ns, Name, expire, metas)
       /\ held' = held \cup {<<f, m.id, m.node>> : m \in metas}
       /\ UNCHANGED <<auths, task, monitor, owner, download, moves, faults>>

Move(f, m, node) ==
    /\ Cardinality(moves \cup {<<f, m.id, node>>}) <= MaxMoves
    /\ GetFileByID(f) /\ m \in file[f].slices /\ node # m.node
    /\ UpdateFilePublicSliceMeta(f, (file[f].slices \ {m}) \cup {[m EXCEPT !.node = node]})
    /\ held' = held \cup {<<f, m.id, node>>}
    /\ moves' = moves \cup {<<f, m.id, node>>}
    /\ UNCHANGED <<auths, task, monitor, owner, download, faults>>

Chain ==
    \/ AddFileNs(Ns, 1)
    \/ Tick
    \/ \E f \in Files, e \in Expiries : UpdateFileExpireTime(f, e)

-----------------------------------------------------------------------------
(***************************************************************************)
(* The executor's task monitor.                                            *)
(***************************************************************************)

\* A requester publishes a task on a file of the chain.
PublishTask(t) ==
    /\ task[t] = "none"
    /\ TaskFile[t] \in Published
    /\ task' = [task EXCEPT ![t] = "confirming"]
    /\ UNCHANGED <<fileVars, auths, monitor, owner, download, held, moves, faults>>

\* confirmTaskByExecutionType reads the newest application,
MonitorList(t) ==
    /\ monitor.task = "none"
    /\ task[t] = "confirming"
    /\ monitor' = [task |-> t, seen |-> Newest(TaskFile[t]), at |-> now]
    /\ UNCHANGED <<fileVars, auths, task, owner, download, held, moves, faults>>

\* Mutant of MustApply: it does not look at the expire time.
MustApply_renews(i, at) == i # None => auths[i].status = Approved

\* There is no application, or the approved one has expired.
MustApply(i, at) == i # None => auths[i].status = Approved /\ auths[i].expire <= at

\* and then applies, rejects the task, confirms it or leaves it; what it has
\* read may have changed in the meantime, except for an answer, which is final.
MonitorAct ==
    LET i == monitor.seen
        t == monitor.task
    IN /\ t # "none"
       /\ \/ /\ MustApply(i, monitor.at)
             /\ PublishFileAuthApplication(TaskFile[t]) /\ UNCHANGED task
          \/ /\ ~MustApply(i, monitor.at) /\ auths[i].status = Rejected
             /\ task' = [task EXCEPT ![t] = "rejected"] /\ UNCHANGED auths
          \/ /\ ~MustApply(i, monitor.at) /\ auths[i].status = Approved
             /\ task' = [task EXCEPT ![t] = "confirmed"] /\ UNCHANGED auths
          \/ /\ ~MustApply(i, monitor.at) /\ auths[i].status = Unapproved
             /\ UNCHANGED <<task, auths>>
       /\ monitor' = [task |-> "none", seen |-> None, at |-> 0]
       /\ UNCHANGED <<fileVars, owner, download, held, moves, faults>>

-----------------------------------------------------------------------------
(***************************************************************************)
(* The owner's node.                                                       *)
(***************************************************************************)

\* Mutant of getAuthKey: the keys of one slice only.
getAuthKey_one(f) ==
    {<<m.id, m.node>> : m \in {x \in file[f].slices : \A y \in file[f].slices : x.id <= y.id}}

\* getAuthKey: the keys of every slice on every node that holds it.
getAuthKey(f) == {<<m.id, m.node>> : m \in file[f].slices}

\* An authorization may not outlive the file.
MayGrant(f, expire) == GetFileByID(f) /\ expire <= file[f].expire

\* ConfirmAuth reads the application and the file,
ConfirmAuth(i, expire) ==
    /\ owner.id = None
    /\ i \in DOMAIN auths
    /\ MayGrant(auths[i].file, expire)
    /\ owner' = [id |-> i, keys |-> getAuthKey(auths[i].file), expire |-> expire]
    /\ UNCHANGED <<fileVars, auths, task, monitor, download, held, moves, faults>>

\* then signs and invokes the contract, which may refuse.
ConfirmOnChain ==
    /\ owner.id # None
    /\ \/ setFileAuthConfirmStatus(owner.id, TRUE, owner.expire, owner.keys)
       \/ auths[owner.id].status # Unapproved /\ UNCHANGED auths
    /\ owner' = [id |-> None, keys |-> {}, expire |-> 0]
    /\ UNCHANGED <<fileVars, task, monitor, download, held, moves, faults>>

RejectAuth(i) ==
    /\ i \in DOMAIN auths
    /\ setFileAuthConfirmStatus(i, FALSE, 0, {})
    /\ UNCHANGED <<fileVars, task, monitor, owner, download, held, moves, faults>>

-----------------------------------------------------------------------------
(***************************************************************************)
(* The download of a confirmed task's file.                                *)
(***************************************************************************)

\* GetSampleFile: the file, the newest approved application, its keys.
GetSampleFile(t) ==
    LET f == TaskFile[t]
        i == NewestApproved(f)
    IN /\ task[t] = "confirmed" /\ download[t].pc = "none"
       /\ download' = [download EXCEPT ![t] =
             IF GetFileByID(f) /\ i # None
             THEN [pc |-> "pull", listing |-> file[f].slices,
                   keys |-> auths[i].keys, left |-> SliceIds(file[f].slices)]
             ELSE [NoDownload EXCEPT !.pc = "failed"]]
       /\ UNCHANGED <<fileVars, auths, task, monitor, owner, held, moves, faults>>

\* checkApplierFileAuth: the newest approved application has not expired.
checkApplierFileAuth(f) ==
    NewestApproved(f) # None /\ auths[NewestApproved(f)].expire >= now

\* Engine.Pull on a storage node.
Pull(f, s, node) == GetFileByID(f) /\ checkApplierFileAuth(f) /\ <<f, s, node>> \in held

\* Some node of the listing serves the slice, and its key is there.
CanRecover(t, s) ==
    \E m \in download[t].listing :
        /\ m.id = s
        /\ Pull(TaskFile[t], s, m.node)
        /\ <<s, m.node>> \in download[t].keys

recoverSlice(t, s) ==
    /\ download[t].pc = "pull" /\ s \in download[t].left
    /\ CanRecover(t, s)
    /\ download' = [download EXCEPT
          ![t].left = @ \ {s},
          ![t].pc = IF download[t].left = {s} THEN "done" ELSE "pull"]
    /\ UNCHANGED <<fileVars, auths, task, monitor, owner, held, moves, faults>>

\* One slice that no node serves, or that cannot be decrypted, ends it.
recoverFails(t, s) ==
    /\ download[t].pc = "pull" /\ s \in download[t].left
    /\ \/ ~CanRecover(t, s) /\ UNCHANGED faults
       \/ faults < MaxFaults /\ faults' = faults + 1
    /\ download' = [download EXCEPT ![t] = [NoDownload EXCEPT !.pc = "failed"]]
    /\ UNCHANGED <<fileVars, auths, task, monitor, owner, held, moves>>

-----------------------------------------------------------------------------
Next ==
    \/ Chain /\ UNCHANGED accessVars
    \/ \E f \in Files, node \in [Slices -> Nodes], e \in Expiries : Write(f, node, e)
    \/ \E f \in Published, node \in Nodes : \E m \in file[f].slices : Move(f, m, node)
    \/ \E t \in Tasks : PublishTask(t) \/ MonitorList(t) \/ GetSampleFile(t)
    \/ MonitorAct
    \/ \E i \in 1..MaxAuths : RejectAuth(i) \/ \E e \in Expiries : ConfirmAuth(i, e)
    \/ ConfirmOnChain
    \/ \E t \in Tasks, s \in Slices : recoverSlice(t, s) \/ recoverFails(t, s)

Spec == Init /\ [][Next]_vars

-----------------------------------------------------------------------------
\* The type invariant: applications, tasks, downloads and what nodes hold are well
\* formed; an application has one of the three states of fileauth.go.
AccessTypeOK ==
    /\ FileTypeOK
    /\ auths \in Seq([file: Files, status: {Unapproved, Approved, Rejected},
                      expire: Times, keys: SUBSET (Slices \X Nodes)])
    /\ task \in [Tasks -> {"none", "confirming", "confirmed", "rejected"}]
    /\ owner.id \in 0..MaxAuths
    /\ monitor.seen \in 0..MaxAuths
    /\ \A t \in Tasks : download[t].pc \in {"none", "pull", "done", "failed"}
    /\ held \subseteq Files \X Slices \X Nodes

(***************************************************************************)
(* What the executor answers for a task is what the owner answered for the *)
(* file, although the monitor acts on an application it has read earlier   *)
(* and the owner's node on an application that may be answered meanwhile.  *)
(***************************************************************************)
AnswerFollowsOwner ==
    \A t \in Tasks :
        LET Was(s) == \E i \in DOMAIN auths : auths[i].file = TaskFile[t] /\ auths[i].status = s
        IN /\ task[t] = "confirmed" => Was(Approved)
           /\ task[t] = "rejected" => Was(Rejected)

(***************************************************************************)
(* The monitor applies once and waits: a file never has two applications   *)
(* of the executor that the owner has not answered.                        *)
(***************************************************************************)
OneOpenApplication ==
    \A i, j \in DOMAIN auths :
        auths[i].file = auths[j].file /\ auths[i].status = Unapproved
            /\ auths[j].status = Unapproved => i = j

(***************************************************************************)
(* An authorization never outlives the file it was granted for: it is      *)
(* bounded by the expire time that ConfirmAuth has read, and               *)
(* UpdateFileExpireTime can only raise that one.                           *)
(***************************************************************************)
AuthWithinFile ==
    \A i \in DOMAIN auths :
        auths[i].status = Approved => auths[i].expire <= file[auths[i].file].expire

\* Applications and their answers fit together, whatever the monitor and the
\* owner's node have read too early (confirmTaskByExecutionType, ConfirmAuth).
AuthorizationsSound == AnswerFollowsOwner /\ OneOpenApplication /\ AuthWithinFile

\* As long as an authorization of a file is in force, the newest one is, which
\* is the only one that storage nodes look at (checkApplierFileAuth) and whose keys
\* the executor takes (GetSampleFile): the monitor, which acts on what it has listed
\* earlier, never has a second one granted, with an earlier end, too soon.
NewestInForce ==
    \A f \in Files :
        (\E i \in DOMAIN auths : auths[i].file = f /\ auths[i].status = Approved
                                 /\ auths[i].expire > now)
        => checkApplierFileAuth(f)

\* A download fails only for a reason: the file or its newest authorization has
\* expired, a pull has failed, or one of its slices was moved to the node that
\* it is listed on after the owner's node had made the keys, which lack the one of
\* this node (getAuthKey, recoverFile).
FailureExplained ==
    [][\A t \in Tasks : download[t].pc = "pull" /\ download'[t].pc = "failed" =>
          \/ ~GetFileByID(TaskFile[t])
          \/ auths[NewestApproved(TaskFile[t])].expire < now
          \/ faults' > faults
          \/ \E m \in download[t].listing :
                /\ m.id \in download[t].left
                /\ <<TaskFile[t], m.id, m.node>> \in moves
                /\ <<m.id, m.node>> \notin download[t].keys]_vars
=============================================================================
