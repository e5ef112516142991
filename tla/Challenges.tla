----------------------------- MODULE Challenges -----------------------------
(***************************************************************************)
(* Proofs of replica holding in XuperDB: the request loop of the data      *)
(* owner and the answer loop of the storage nodes                          *)
(* (xdb/engine/monitor/challenging), the challenge contract that judges    *)
(* the answers, the proof material that the owner prepares                 *)
(* (xdb/engine/common/challenge.go, xdb/engine/challenger), and the        *)
(* registration, heartbeats and health of the storage nodes.               *)
(*                                                                         *)
(* The module follows one file.  The content of a copy is what the owner   *)
(* has pushed ("whole"), changed ("bad") or deleted ("lost") since, or was *)
(* never there ("none").  Time counts challenge intervals; within one of   *)
(* them the request loop ticks once and each running node sends one       *)
(* heartbeat.                                                              *)
(* The steps of a migration are those of SliceMaintenance; here only what  *)
(* it reads, and what it leaves, matters.                                  *)
(***************************************************************************)
EXTENDS Integers, Sequences, FiniteSets

CONSTANTS
    Nodes, Slices,
    Placed,            \* copies published with the file
    Joining,           \* nodes that register after it
    Expiry,            \* expire time of the file
    NewExpiry,         \* expire times of extensions
    Retain,            \* FileRetainPeriod
    MaxIndexNum,       \* maxIndexNum of the pairing challenger
    PerDay,            \* intervals of a day
    HealthDays,        \* NodeHealthTimeDur: 7 in the code
    MaxTime,           \* bound: last time
    MaxChallenges,     \* bound: challenges
    MaxMoves,          \* bound: migrations
    MaxFaults          \* bound: damages, lost calls and stops of nodes

Copies == Slices \X Nodes
Times  == 0..MaxTime
Ids    == 1..MaxChallenges

\* pairingChallSegmentSize: so many rounds are made by one goroutine.  Of more
\* rounds, several goroutines append to the content of one slice without a lock
\* (CalculateSigmaI), so that sigmas may be wrong; this is left out.
SegmentSize == 100

ASSUME ChallengeAssumption ==
    /\ IsFiniteSet(Slices)
    /\ {MaxTime, MaxChallenges} \subseteq Nat
    /\ Placed \subseteq Copies
    /\ Joining \subseteq Nodes
    /\ \A c \in Placed : c[2] \notin Joining
    /\ Expiry \in Times
    /\ NewExpiry \subseteq Times
    /\ \A e \in NewExpiry \cup {Expiry} : e < SegmentSize
    /\ Retain \in Nat
    /\ {MaxIndexNum, PerDay, HealthDays} \subseteq Nat \ {0}

VARIABLES
    alg,               \* challenge algorithm of the owner's configuration
    now,
    expiry, listed,    \* the file on the chain
    content,           \* what the nodes store
    ranges,            \* merkle: the owner's batches of range hashes
    sigmas,            \* pairing: each node's sigmas, by round
    chals,             \* challenges on the chain
    requested,         \* the request loop has ticked in this interval
    up, todo,          \* nodes that run, challenges each answer loop listed
    node, beats,       \* nodes on the chain, the intervals of their heartbeats
    extend, migrate,   \* UpdateFileExpireTime and the migration loop
    missed,            \* copies that got no material for all of their time
    faults

ownerVars == <<expiry, listed, ranges, requested, extend, migrate, missed>>
storeVars == <<content, sigmas>>
nodeVars  == <<up, todo, node, beats>>
vars == <<alg, now, chals, faults, ownerVars, storeVars, nodeVars>>

None == [at |-> MaxTime + 1, online |-> FALSE]

Rounds(from, to, x, old) ==
    [r \in Times |-> IF r \in from..to THEN x ELSE old[r]]

\* Setup: a batch has the root of some random ranges of x for every round.
Setup(x, from, to) == [left |-> to - from, of |-> x]

NoSigmas == [r \in Times |-> "none"]

Idle(k) == [pc |-> "idle", expiry |-> 0, listed |-> {}, out |-> {}, in |-> {}, moves |-> k]

Init ==
    /\ alg \in {"merkle", "pairing"}
    /\ now = 0
    /\ expiry = Expiry
    /\ listed = Placed
    /\ content = [c \in Copies |-> IF c \in Placed THEN "whole" ELSE "none"]
    /\ ranges = [c \in Copies |-> IF c \in Placed /\ alg = "merkle"
                                  THEN <<Setup("whole", 0, Expiry)>> ELSE <<>>]
    /\ sigmas = [c \in Copies |-> IF c \in Placed /\ alg = "pairing"
                                  THEN Rounds(0, Expiry, "whole", NoSigmas)
                                  ELSE NoSigmas]
    /\ chals = <<>>
    /\ requested = FALSE
    /\ up = Nodes \ Joining
    /\ todo = [n \in Nodes |-> {}]
    /\ node = [n \in Nodes |-> IF n \in Joining THEN None
                               ELSE [at |-> 0, online |-> TRUE]]
    /\ beats = [n \in Nodes |-> {}]
    /\ extend = [pc |-> "idle", from |-> 0, listed |-> {}]
    /\ migrate = Idle(0)
    /\ missed = {}
    /\ faults = 0

Fault == faults < MaxFaults /\ faults' = faults + 1
NoFault == UNCHANGED faults

-----------------------------------------------------------------------------
(***************************************************************************)
(* Health of nodes.                                                        *)
(***************************************************************************)

\* Midnight of the day.
TodayBeginning(t) == t - (t % PerDay)

\* The last whole days, from midnight to the midnight yesterday began with; or
\* the time since the registration, when it is shorter.
GetHeartBeatStats(regTime) ==
    LET end   == TodayBeginning(now) - PerDay
        start == end - (HealthDays - 1) * PerDay
    IN IF start < regTime THEN [start |-> regTime, end |-> now]
       ELSE [start |-> start, end |-> end]

\* The heartbeats of the days from the one of start to the one of end.
GetHeartBeatTotalNumByTime(n, w) ==
    Cardinality({t \in beats[n] : /\ TodayBeginning(w.start) <= t
                                  /\ t < TodayBeginning(w.end) + PerDay})

GetHeartbeatMaxNum(w, regTime) ==
    IF w.start = regTime THEN w.end - w.start ELSE HealthDays * PerDay

\* Mutant of GetChallengeNum: the filter of the target node is left out.
GetChallengeNum_anyNode(n, w, statuses) ==
    Cardinality({i \in DOMAIN chals : /\ w.start <= chals[i].round /\ chals[i].round <= w.end
                                      /\ chals[i].status \in statuses})

\* GetChallengeNum: the challenges to the node in the period w.
GetChallengeNum(n, w, statuses) ==
    Cardinality({i \in DOMAIN chals : /\ chals[i].node = n
                                      /\ w.start <= chals[i].round /\ chals[i].round <= w.end
                                      /\ chals[i].status \in statuses})

\* GetNodeHealth weighs the proved challenges (0.7) and the heartbeats (0.3)
\* of the period, each 0.85 while there is nothing to count.
GetNodeHealth(n) ==
    LET w   == GetHeartBeatStats(node[n].at)
        all == GetChallengeNum(n, w, {"ToProve", "Proved", "Failed"})
        max == GetHeartbeatMaxNum(w, node[n].at)
        a   == IF all = 0 THEN 1 ELSE all
        m   == IF max = 0 THEN 1 ELSE max
        score == (IF all = 0 THEN 595 ELSE 700 * GetChallengeNum(n, w, {"Proved"})) * m
               + (IF max = 0 THEN 255 ELSE 300 * GetHeartBeatTotalNumByTime(n, w)) * a
    IN IF score >= 850 * a * m THEN "Green"
       ELSE IF score < 600 * a * m THEN "Red" ELSE "Yellow"

\* GetHealthNodes leaves out nodes that are offline on the chain or red.
HealthOf(n) == IF node[n].online THEN GetNodeHealth(n) ELSE "Red"

-----------------------------------------------------------------------------
(***************************************************************************)
(* Storage nodes: start, stop, crash, heartbeat.                           *)
(***************************************************************************)

\* Monitor.Start: autoRegister adds the node or brings it back online.
Start(n) ==
    /\ n \notin up
    /\ up' = up \cup {n}
    /\ node' = [node EXCEPT ![n] = IF node[n] = None THEN [at |-> now, online |-> TRUE]
                                   ELSE [node[n] EXCEPT !.online = TRUE]]
    /\ NoFault
    /\ UNCHANGED <<alg, now, chals, ownerVars, storeVars, todo, beats>>

\* A node stops or crashes.  Its record on the chain stays as it is: the answer
\* loop tries to take the node offline when it ends, but signs another form of
\* the node's id than the contract verifies, and is refused.
Stop(n) ==
    /\ n \in up
    /\ Fault
    /\ up' = up \ {n}
    /\ todo' = [todo EXCEPT ![n] = {}]
    /\ UNCHANGED <<alg, now, chals, ownerVars, storeVars, beats, node>>

\* NodeOffline, for the operator of a node that runs.
NodeOffline(n) ==
    /\ n \in up /\ node[n].online
    /\ Fault
    /\ node' = [node EXCEPT ![n].online = FALSE]
    /\ UNCHANGED <<alg, now, chals, ownerVars, storeVars, beats, todo, up>>

\* heartbeat: one more of each node that runs, in this interval.
Heartbeat == [n \in Nodes |-> IF n \in up THEN beats[n] \cup {now} ELSE beats[n]]

\* A stored copy changes or disappears.
Damage(c) ==
    /\ content[c] = "whole"
    /\ Fault
    /\ \E x \in {"bad", "lost"} : content' = [content EXCEPT ![c] = x]
    /\ UNCHANGED <<alg, now, chals, ownerVars, sigmas, nodeVars>>

\* An interval ends; the running nodes have sent their heartbeats.
Tick ==
    /\ now < MaxTime
    /\ now' = now + 1
    /\ requested' = FALSE
    /\ beats' = Heartbeat
    /\ NoFault
    /\ UNCHANGED <<alg, chals, expiry, listed, ranges, extend, migrate, missed,
                   storeVars, up, todo, node>>

-----------------------------------------------------------------------------
(***************************************************************************)
(* The request loop of the data owner.                                     *)
(***************************************************************************)

\* ChallengeRequest: a new id, to be proved.
ChallengeRequest(n, slices, of) ==
    chals' = Append(chals, [node |-> n, slices |-> slices, round |-> now, of |-> of,
                            status |-> "ToProve"])

\* loopRequest looks at files that have not expired.
LoopRequest ==
    /\ ~requested
    /\ expiry > now
    /\ Len(chals) < MaxChallenges
    /\ requested' = TRUE

\* GenerateChallenge selects floor(sqrt(n - 1)) + 1 of n slices.
SelectNum(n) ==
    LET k == CHOOSE r \in 0..n : r * r <= n - 1 /\ (r + 1) * (r + 1) > n - 1
    IN IF k + 1 > MaxIndexNum THEN MaxIndexNum ELSE k + 1

\* doPairingChallengeRequest: some slices of one node; the call may fail.
PairingRequest(n) ==
    LET held == {s \in Slices : <<s, n>> \in listed}
    IN /\ alg = "pairing"
       /\ held # {}
       /\ LoopRequest
       /\ \/ \E sel \in SUBSET held :
                /\ Cardinality(sel) = SelectNum(Cardinality(held))
                /\ ChallengeRequest(n, sel, "whole")
             /\ NoFault
          \/ Fault /\ UNCHANGED chals
       /\ UNCHANGED <<alg, now, expiry, listed, ranges, extend, migrate, missed,
                      storeVars, nodeVars>>

\* Take: a batch with an unused range.  The keys of NewIterator share one
\* buffer, so either all of them are the newest key, or each is its own.
Take(c) ==
    LET unused == {k \in DOMAIN ranges[c] : ranges[c][k].left > 0}
    IN {k \in unused : k = Len(ranges[c]) \/ \A j \in unused : k <= j}

\* Mutant of MerkleRequest: the range is marked as used only after the
\* request was published, for all ranges of the batch.
MerkleRequest_takesAll(c) ==
    /\ alg = "merkle"
    /\ c \in listed
    /\ LoopRequest
    /\ \E k \in Take(c) :
          /\ ranges' = [ranges EXCEPT ![c][k].left = 0]
          /\ NoFault /\ ChallengeRequest(c[2], {c[1]}, ranges[c][k].of)
    /\ UNCHANGED <<alg, now, expiry, listed, extend, migrate, missed, storeVars, nodeVars>>

\* doMerkleChallengeRequest: the range is used up before the request is
\* sent, and stays so when the request fails; without a range, nothing.
MerkleRequest(c) ==
    /\ alg = "merkle"
    /\ c \in listed
    /\ LoopRequest
    /\ \/ Take(c) = {} /\ NoFault /\ UNCHANGED <<ranges, chals>>
       \/ \E k \in Take(c) :
             /\ ranges' = [ranges EXCEPT ![c][k].left = @ - 1]
             /\ \/ NoFault /\ ChallengeRequest(c[2], {c[1]}, ranges[c][k].of)
                \/ Fault /\ UNCHANGED chals
    /\ UNCHANGED <<alg, now, expiry, listed, extend, migrate, missed, storeVars, nodeVars>>

-----------------------------------------------------------------------------
(***************************************************************************)
(* The answer loop of a storage node, and the contract's judgement.        *)
(***************************************************************************)

\* ListChallengeRequests of the node that are to be proved.
AnswerList(n) ==
    /\ n \in up
    /\ todo[n] = {}
    /\ \E i \in DOMAIN chals : chals[i].node = n /\ chals[i].status = "ToProve"
    /\ todo' = [todo EXCEPT ![n] = {i \in DOMAIN chals :
                                      chals[i].node = n /\ chals[i].status = "ToProve"}]
    /\ NoFault
    /\ UNCHANGED <<alg, now, chals, ownerVars, storeVars, up, node, beats>>

\* doPairingCalculateProof needs each slice and its sigma of the round;
\* doMerkleCalculation needs the slice, and all ranges to lie in it.
CanProve(q) ==
    \A s \in q.slices :
        /\ content[<<s, q.node>>] \in {"whole", "bad"}
        /\ alg = "pairing" => sigmas[<<s, q.node>>][q.round] # "none"

\* Mutant of Verify: one slice that matches is enough.
Verify_any(q) ==
    IF \E s \in q.slices :
          content[<<s, q.node>>] = IF alg = "pairing"
                                   THEN sigmas[<<s, q.node>>][q.round] ELSE q.of
    THEN {"Proved"} ELSE {"Failed"}

\* The outcomes of the verification.  A pairing proof combines all of each
\* slice with its sigma; a merkle proof hashes some ranges of the slice,
\* which may or may not show that the copy has changed.
Verify(q) ==
    LET same == \A s \in q.slices :
                   content[<<s, q.node>>] = IF alg = "pairing"
                                            THEN sigmas[<<s, q.node>>][q.round] ELSE q.of
    IN IF same THEN {"Proved"}
       ELSE IF alg = "pairing" THEN {"Failed"} ELSE {"Failed", "Proved"}

\* ChallengeAnswer: an answered challenge is not judged again.
ChallengeAnswer(i) ==
    IF chals[i].status # "ToProve" THEN UNCHANGED chals
    ELSE \E v \in Verify(chals[i]) : chals' = [chals EXCEPT ![i].status = v]

\* Mutant of AnswerOne: the loop is left at the first error.
AnswerOne_returns(n, i) ==
    /\ i \in todo[n]
    /\ \/ ~CanProve(chals[i]) /\ NoFault /\ UNCHANGED <<chals, todo>>
       \/ /\ CanProve(chals[i]) /\ NoFault /\ ChallengeAnswer(i)
          /\ todo' = [todo EXCEPT ![n] = @ \ {i}]
    /\ UNCHANGED <<alg, now, ownerVars, storeVars, up, node, beats>>

\* One listed challenge: left open if there is no proof.  A call may fail
\* before the contract is reached.
AnswerOne(n, i) ==
    /\ i \in todo[n]
    /\ todo' = [todo EXCEPT ![n] = @ \ {i}]
    /\ \/ CanProve(chals[i]) /\ NoFault /\ ChallengeAnswer(i)
       \/ CanProve(chals[i]) /\ Fault /\ UNCHANGED chals
       \/ ~CanProve(chals[i]) /\ NoFault /\ UNCHANGED chals
       \* a merkle range may lie beyond the end of a copy that was cut
       \/ /\ alg = "merkle" /\ NoFault /\ UNCHANGED chals
          /\ \E s \in chals[i].slices : content[<<s, n>>] = "bad"
    /\ UNCHANGED <<alg, now, ownerVars, storeVars, up, node, beats>>

AnswerLoop(n) == AnswerList(n) \/ \E i \in Ids : AnswerOne(n, i)

-----------------------------------------------------------------------------
(***************************************************************************)
(* Extension of the expire time.                                           *)
(***************************************************************************)

\* UpdateFileExpireTime changes the chain first; new material starts at the
\* old expire time, or now if that has passed, for the slices of the file as
\* the chain returned it.  One extension at a time.
ExtendChain(e) ==
    /\ extend.pc = "idle"
    /\ e > now /\ e > expiry
    /\ expiry + Retain > now
    /\ expiry' = e
    /\ extend' = [pc |-> "material", from |-> IF expiry <= now THEN now ELSE expiry,
                  listed |-> listed]
    /\ NoFault
    /\ UNCHANGED <<alg, now, chals, listed, ranges, requested, migrate, missed,
                   storeVars, nodeVars>>

\* AddFileNewMerkleChallenge reads the copy from its node, without comparing
\* its hash, or makes it from a copy that another healthy node holds.
MerkleSource(s, n) ==
    IF n \in up /\ HealthOf(n) # "Red" /\ content[<<s, n>>] \in {"whole", "bad"}
    THEN {content[<<s, n>>]}
    ELSE IF \E m \in up : /\ <<s, m>> \in extend.listed
                          /\ HealthOf(m) # "Red"
                          /\ content[<<s, m>>] = "whole"
         THEN {"whole"} ELSE {}

\* Ranges for every copy, or for none.
ExtendMerkle ==
    /\ extend.pc = "material" /\ alg = "merkle"
    /\ extend' = [extend EXCEPT !.pc = "idle", !.listed = {}]
    /\ IF \A c \in extend.listed : MerkleSource(c[1], c[2]) # {}
       THEN /\ ranges' = [c \in Copies |->
                  IF c \notin extend.listed THEN ranges[c]
                  ELSE Append(ranges[c], Setup(CHOOSE x \in MerkleSource(c[1], c[2]) : TRUE,
                                                 extend.from, expiry))]
            /\ UNCHANGED missed
       ELSE missed' = missed \cup extend.listed /\ UNCHANGED ranges
    /\ NoFault
    /\ UNCHANGED <<alg, now, chals, expiry, listed, requested, migrate, storeVars, nodeVars>>

\* Mutant of ExtendPairing: the sigmas of all rounds are made anew.
ExtendPairing_anew ==
    LET covered == {c \in extend.listed : /\ c[2] \in up
                                   /\ content[c] \in {"whole", "bad"}}
    IN /\ extend.pc = "material" /\ alg = "pairing"
       /\ extend' = [extend EXCEPT !.pc = "idle", !.listed = {}]
       /\ sigmas' = [c \in Copies |->
                       IF c \in covered THEN Rounds(0, expiry, content[c], sigmas[c])
                       ELSE sigmas[c]]
       /\ missed' = missed \cup (extend.listed \ covered)
       /\ NoFault
       /\ UNCHANGED <<alg, now, chals, expiry, listed, ranges, requested, migrate,
                      content, nodeVars>>

\* AddFilePairingChallenges: for each copy that can be read with its sigmas,
\* sigmas of the new rounds are added; the others are left without.
ExtendPairing ==
    LET covered == {c \in extend.listed : /\ c[2] \in up
                                   /\ content[c] \in {"whole", "bad"}
                                   /\ sigmas[c] # NoSigmas}
    IN /\ extend.pc = "material" /\ alg = "pairing"
       /\ extend' = [extend EXCEPT !.pc = "idle", !.listed = {}]
       /\ sigmas' = [c \in Copies |->
                       IF c \in covered THEN Rounds(extend.from, expiry, content[c], sigmas[c])
                       ELSE sigmas[c]]
       /\ missed' = missed \cup (extend.listed \ covered)
       /\ NoFault
       /\ UNCHANGED <<alg, now, chals, expiry, listed, ranges, requested, migrate,
                      content, nodeVars>>

-----------------------------------------------------------------------------
(***************************************************************************)
(* Migration.                                                              *)
(***************************************************************************)

\* The migration loop reads the health of the nodes and the file, and finds
\* a slice to move: from a red node to one that is not, or from a yellow node
\* to a green one.
MigrateList(s, from, to) ==
    /\ migrate.pc = "idle" /\ migrate.moves < MaxMoves
    /\ expiry > now
    /\ <<s, from>> \in listed /\ <<s, to>> \notin listed
    /\ \/ HealthOf(from) = "Red" /\ HealthOf(to) # "Red"
       \/ HealthOf(from) = "Yellow" /\ HealthOf(to) = "Green"
    /\ migrate' = [pc |-> "listed", expiry |-> expiry, listed |-> listed,
                   out |-> {<<s, from>>}, in |-> {<<s, to>>},
                   moves |-> migrate.moves + 1]
    /\ NoFault
    /\ UNCHANGED <<alg, now, chals, expiry, listed, ranges, requested, extend, missed,
                   storeVars, nodeVars>>

\* The slice is made for the new node from a copy that can be decrypted and
\* is pushed there, where a slice that is already stored is kept.  Its
\* material covers the time up to the expire time that was listed.
MigrateSlice(c) ==
    /\ migrate.pc = "listed"
    /\ c \in migrate.in
    /\ c[2] \in up
    /\ \E m \in up : <<c[1], m>> \in migrate.listed /\ content[<<c[1], m>>] = "whole"
    /\ migrate.expiry >= now
    /\ content' = [content EXCEPT ![c] = IF @ \in {"none", "lost"} THEN "whole" ELSE @]
    /\ IF alg = "pairing"
       THEN /\ sigmas' = [sigmas EXCEPT ![c] = Rounds(now, migrate.expiry, "whole", NoSigmas)]
            /\ UNCHANGED ranges
       ELSE /\ ranges' = [ranges EXCEPT ![c] =
                            Append(@, Setup("whole", now, migrate.expiry))]
            /\ UNCHANGED sigmas
    /\ listed' = (migrate.listed \ migrate.out) \cup {c}
    /\ missed' = IF migrate.expiry # expiry THEN missed \cup {c} ELSE missed \ {c}
    /\ migrate' = Idle(migrate.moves)
    /\ NoFault
    /\ UNCHANGED <<alg, now, chals, expiry, requested, extend, nodeVars>>

\* No copy to start from, or the push or the material failed.
MigrateFails ==
    /\ migrate.pc = "listed"
    /\ migrate' = Idle(migrate.moves)
    /\ NoFault
    /\ UNCHANGED <<alg, now, chals, expiry, listed, ranges, requested, extend, missed,
                   storeVars, nodeVars>>

-----------------------------------------------------------------------------
Next ==
    \/ \E n \in Nodes : Start(n) \/ Stop(n) \/ NodeOffline(n) \/ AnswerLoop(n)
                        \/ PairingRequest(n)
    \/ \E c \in Copies : Damage(c) \/ MerkleRequest(c) \/ MigrateSlice(c)
    \/ \E e \in NewExpiry : ExtendChain(e)
    \/ ExtendMerkle \/ ExtendPairing
    \/ \E s \in Slices, from, to \in Nodes : MigrateList(s, from, to)
    \/ MigrateFails
    \/ Tick

\* The answer loops run as long as their node does.
Spec == Init /\ [][Next]_vars /\ \A n \in Nodes : WF_vars(AnswerLoop(n))

-----------------------------------------------------------------------------
(***************************************************************************)
(* Properties.                                                             *)
(***************************************************************************)

\* Types; and a challenge that is listed by an answer loop is on the chain
\* for that node.
ChallengeTypeOK ==
    /\ now \in Times /\ expiry \in Times
    /\ listed \subseteq Copies /\ missed \subseteq Copies
    /\ content \in [Copies -> {"none", "whole", "bad", "lost"}]
    /\ sigmas \in [Copies -> [Times -> {"none", "whole", "bad"}]]
    /\ \A c \in Copies : ranges[c] \in Seq([left : Times, of : {"whole", "bad"}])
    /\ \A i \in DOMAIN chals :
          /\ chals[i].slices \subseteq Slices /\ chals[i].slices # {}
          /\ chals[i].status \in {"ToProve", "Proved", "Failed"}
    /\ \A n \in Nodes : \A i \in todo[n] : i \in DOMAIN chals /\ chals[i].node = n
    /\ up \subseteq Nodes

Asked(i) == IF i \in DOMAIN chals THEN chals[i].slices \X {chals[i].node} ELSE {}

\* Copies with material that was made from damaged content.
MadeFromBad ==
    {c \in Copies : \/ \E r \in Times : sigmas[c][r] = "bad"
                    \/ \E k \in DOMAIN ranges[c] : ranges[c][k].of = "bad"}

Abstract == INSTANCE StorageProof WITH
    sampled <- alg = "merkle",
    damaged <- {c \in Copies : content[c] \in {"bad", "lost"}},
    renewed <- MadeFromBad,
    asked   <- [i \in Ids |-> Asked(i)],
    verdict <- [i \in Ids |-> IF i \in DOMAIN chals THEN chals[i].status ELSE "none"]

\* The loops, the contract and the material implement StorageProof: every
\* challenge is judged at most once, a node whose copies are as the owner
\* pushed them never fails, and a pairing challenge on a damaged copy never
\* passes unless the owner made new sigmas from the damaged copy.
ImplementsStorageProof == Abstract!Spec

Total(c) ==
    LET sum[k \in 0..Len(ranges[c])] ==
            IF k = 0 THEN 0 ELSE sum[k - 1] + ranges[c][k].left
    IN sum[Len(ranges[c])]

CoveredTo == IF extend.pc = "material" THEN extend.from ELSE expiry

\* Every listed copy can be challenged until the file expires: the owner has
\* a range for each tick that is left, or the node a sigma for each round.
\* The exceptions are copies for which an extension could not make material
\* and copies that were migrated across an extension.
MaterialLasts ==
    \A c \in listed \ missed :
        IF alg = "merkle"
        THEN Total(c) + now + (IF requested THEN 1 ELSE 0) >= CoveredTo
        ELSE \A r \in Times : (now <= r /\ r < CoveredTo) => sigmas[c][r] # "none"

\* An extension does not weaken what is covered already: a sigma made from
\* the distributed slice for a round before the expire time is never
\* replaced by one made from a damaged copy.
CoveredStays ==
    [][\A c \in Copies, r \in Times :
          r < CoveredTo /\ sigmas[c][r] = "whole" => sigmas'[c][r] # "bad"]_vars

\* The challenges that the health of a node is taken from.
Counted(n) ==
    LET w == GetHeartBeatStats(node[n].at)
    IN {i \in DOMAIN chals : /\ chals[i].node = n
                             /\ w.start <= chals[i].round /\ chals[i].round <= w.end}

\* A node that has kept all of its copies and has answered what it was asked in
\* the period of the health is not taken for a bad one, however many challenges
\* it missed before; if it was asked at all in this period, or has sent a
\* heartbeat in one of sixty intervals: 0.7 * 0.85 + 0.3 / 60 is the limit of red.
HonestNotRed ==
    \A n \in Nodes :
        (/\ node[n] # None
         /\ LET w == GetHeartBeatStats(node[n].at)
            IN \/ 60 * GetHeartBeatTotalNumByTime(n, w) >= GetHeartbeatMaxNum(w, node[n].at)
               \/ Counted(n) # {}
         /\ \A s \in Slices : content[<<s, n>>] \in {"none", "whole"} /\ <<s, n>> \notin MadeFromBad
         /\ \A i \in Counted(n) : chals[i].status # "ToProve")
        => GetNodeHealth(n) # "Red"

Answerable(i) ==
    /\ i \in DOMAIN chals
    /\ chals[i].status = "ToProve"
    /\ CanProve(chals[i])
    /\ \A s \in chals[i].slices : content[<<s, chals[i].node>>] = "whole"

\* A challenge on undamaged copies with material is judged, unless the node
\* stops or a copy is damaged.
AnswerableIsJudged ==
    \A i \in Ids : Answerable(i) ~> \/ ~Answerable(i)
                                    \/ chals[i].node \notin up

=============================================================================
