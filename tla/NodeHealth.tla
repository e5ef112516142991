----------------------------- MODULE NodeHealth -----------------------------
(***************************************************************************)
(* A storage node on the chain: its registration, its heartbeats and the   *)
(* rate of them from which its health follows (the node part of the        *)
(* storage contract, nodes.go; nodemaintainer; handler_node.go; the        *)
(* calendar of common/nodes.go).                                           *)
(*                                                                         *)
(* The unit of time is the interval between heartbeats, and the clock may  *)
(* be read while the heartbeat of the instant is on its way.  All days     *)
(* have the same length, PerDay.  The contract keeps the node twice: by    *)
(* its id, for the node itself, and in a list, for the data owners.  One   *)
(* transaction is one step, and a refused one writes nothing.              *)
(***************************************************************************)
EXTENDS Integers, FiniteSets, Sequences

CONSTANTS
    PerDay,        \* HeartBeatPerDay: 1440 in the code
    HealthDays,    \* NodeHealthTimeDur: 7 in the code
    MaxClock,      \* bound: the last instant
    MaxRequests,   \* bound: requests of the operator
    MaxBreaks      \* bound: stops, failed or slow calls, repeated deliveries

ASSUME NodeHealthAssumption ==
    /\ {PerDay, HealthDays} \subseteq Nat \ {0}
    /\ {MaxClock, MaxRequests, MaxBreaks} \subseteq Nat

VARIABLES
    clock,
    record,       \* the node by its id, or Unregistered
    listRecord,   \* the node in the list
    beats,        \* beats[d]: the heartbeats kept for the day that begins at d
    nonces,       \* nonces used by the operator's requests
    process,      \* "down", "starting", "up"
    sending,      \* time stamps of the heartbeat that is on its way, if any
    ticked,       \* the ticker has fired while a heartbeat was on its way
    requests,     \* requests signed by the operator
    applied,      \* the requests that were carried out
    keptBeats,    \* all heartbeats that were accepted
    steadySince,  \* since when the node has run without a break
    operated,     \* a request was carried out since the node was started
    breaks        \* counts the breaks

nodeHealthVars == <<clock, record, listRecord, beats, nonces, process, sending, ticked,
                    requests, applied, keptBeats, steadySince, operated, breaks>>
chainVars == <<record, listRecord, beats, nonces>>

Clock == 0..MaxClock
Unregistered == [regTime |-> MaxClock + 1, online |-> FALSE]

NodeInit(clocks) ==
    /\ clock \in clocks
    /\ record = Unregistered /\ listRecord = Unregistered
    /\ beats = [d \in {t \in Clock : t % PerDay = 0} |-> {}]
    /\ nonces = {} /\ requests = {} /\ applied = <<>>
    /\ process = "down" /\ sending = {} /\ ticked = FALSE
    /\ keptBeats = {} /\ steadySince = clock /\ operated = FALSE
    /\ breaks = 0

Break == breaks < MaxBreaks /\ breaks' = breaks + 1

-----------------------------------------------------------------------------
(* The calendar and the health (common/nodes.go, xchain/nodes.go). *)

\* Midnight of the day.
TodayBeginning(t) == t - (t % PerDay)

\* The last whole days, from midnight to the midnight yesterday began with; or
\* the time since the registration, when it is shorter.
GetHeartBeatStats(now, regTime) ==
    LET end   == TodayBeginning(now) - PerDay
        start == end - (HealthDays - 1) * PerDay
    IN IF start < regTime THEN [start |-> regTime, end |-> now] ELSE [start |-> start, end |-> end]

\* GetHeartbeatNum of the contract.
GetHeartbeatNum(day) == IF day \in DOMAIN beats THEN Cardinality(beats[day]) ELSE 0

\* The heartbeats of the days from the one of start to the one of end.
GetHeartBeatTotalNumByTime(start, end) ==
    LET upTo[t \in Int] == IF t > end THEN 0
                           ELSE GetHeartbeatNum(TodayBeginning(t)) + upTo[TodayBeginning(t) + PerDay]
    IN upTo[start]

GetHeartbeatMaxNum(start, end, regTime) ==
    IF start = regTime THEN end - start ELSE HealthDays * PerDay

\* GetNodeHealth in thousandths: 700 for the proved challenges (rate p of q) and
\* 300 for the heartbeats, each at 0.85 when there is nothing to count.
HealthOfNode(p, q) ==
    LET w   == GetHeartBeatStats(clock, record.regTime)
        max == GetHeartbeatMaxNum(w.start, w.end, record.regTime)
        m   == IF max = 0 THEN 1 ELSE max
        score == 700 * p * m
                 + (IF max = 0 THEN 255 ELSE 300 * GetHeartBeatTotalNumByTime(w.start, w.end)) * q
    IN IF score >= 850 * q * m THEN "Green"
       ELSE IF score < 600 * q * m THEN "Red" ELSE "Yellow"

-----------------------------------------------------------------------------
(* Registration. *)

\* main starts the engine, which begins with autoRegister: it reads the node.
StartNode ==
    /\ process = "down"
    /\ process' = "starting"
    /\ operated' = FALSE /\ steadySince' = clock
    /\ UNCHANGED <<clock, chainVars, sending, ticked, requests, applied, keptBeats, breaks>>

\* AddNode, with the time of the registration.
AddNode ==
    /\ record = Unregistered
    /\ record' = [regTime |-> clock, online |-> TRUE]
    /\ listRecord' = record'

\* NodeOnline and NodeOffline; nothing is written when the status is that already.
setNodeOnlineStatus(online) ==
    /\ record # Unregistered
    /\ record' = [record EXCEPT !.online = online]
    /\ listRecord' = IF record.online # online THEN record' ELSE listRecord

\* Mutant of autoRegister: a node that is known is left as it is.
autoRegister_known ==
    \/ record = Unregistered /\ AddNode
    \/ record # Unregistered /\ UNCHANGED <<record, listRecord>>

\* What autoRegister does about what it has read.
autoRegister ==
    \/ record = Unregistered /\ AddNode
    \/ record # Unregistered /\ ~record.online /\ setNodeOnlineStatus(TRUE)
    \/ record # Unregistered /\ record.online /\ UNCHANGED <<record, listRecord>>

\* The node is registered; or the chain has failed it, or its answer got lost,
\* and it exits.
Registers ==
    /\ process = "starting"
    /\ \/ autoRegister /\ process' = "up" /\ UNCHANGED breaks
       \/ autoRegister /\ process' = "down" /\ Break
       \/ UNCHANGED <<record, listRecord>> /\ process' = "down" /\ Break
    /\ steadySince' = clock
    /\ UNCHANGED <<clock, beats, nonces, sending, ticked, requests, applied, keptBeats, operated>>

\* The node stops or crashes; a heartbeat on its way may still arrive.  Its record
\* stays, for the offline transaction of the answer loop is refused.
StopNode ==
    /\ process = "up"
    /\ Break
    /\ process' = "down" /\ ticked' = FALSE
    /\ UNCHANGED <<clock, chainVars, sending, requests, applied, keptBeats, steadySince, operated>>

-----------------------------------------------------------------------------
(* Heartbeats. *)

\* Time goes on; the ticker of a node that runs makes a heartbeat.  One that is
\* still on its way holds the loop up, with one tick waiting.
Tick ==
    /\ clock < MaxClock
    /\ clock' = clock + 1
    /\ process # "starting"
    /\ IF sending # {}
       THEN Break /\ ticked' = (process = "up") /\ steadySince' = clock + 1 /\ UNCHANGED sending
       ELSE /\ sending' = IF process = "up" THEN {clock + 1} ELSE {}
            /\ UNCHANGED <<ticked, steadySince, breaks>>
    /\ UNCHANGED <<chainVars, process, requests, applied, keptBeats, operated>>

\* The next heartbeat, if the ticker has fired meanwhile.
NextBeat == /\ sending' = IF ticked THEN {clock} ELSE {}
            /\ ticked' = FALSE

\* Mutant of DayOf: the day on which the heartbeat arrives.
DayOf_arrival(t) == TodayBeginning(clock)

\* A heartbeat is kept for the day of its time stamp.
DayOf(t) == TodayBeginning(t)

\* Heartbeat: a time stamp that was there already, or a node that is not
\* registered, is refused.
Heartbeat ==
    \E t \in sending :
        /\ record # Unregistered /\ t \notin beats[DayOf(t)]
        /\ beats' = [beats EXCEPT ![DayOf(t)] = @ \cup {t}]
        /\ keptBeats' = keptBeats \cup {t}
        /\ NextBeat
        /\ UNCHANGED <<clock, record, listRecord, nonces, process, requests, applied,
                       steadySince, operated, breaks>>

\* The transaction fails; the loop goes on with the next tick.
HeartbeatFails ==
    /\ sending # {}
    /\ Break
    /\ NextBeat
    /\ steadySince' = clock
    /\ UNCHANGED <<clock, chainVars, process, requests, applied, keptBeats, operated>>

-----------------------------------------------------------------------------
(* The operator. *)

\* The client signs a request, with the time as its nonce.
SignRequest(online) ==
    /\ Cardinality(requests) < MaxRequests
    /\ requests' = requests \cup {[nonce |-> Cardinality(requests) + 1, online |-> online]}
    /\ UNCHANGED <<clock, chainVars, process, sending, ticked, applied, keptBeats,
                   steadySince, operated, breaks>>

checkAndSetNonce(nonce) == nonce \notin nonces /\ nonces' = nonces \cup {nonce}

\* storageNodeOperate, whenever the request gets to the node; it may get there
\* more than once and in any order.
storageNodeOperate(r) ==
    /\ process = "up"
    /\ r \in requests
    /\ checkAndSetNonce(r.nonce)
    /\ setNodeOnlineStatus(r.online)
    /\ applied' = Append(applied, r)
    /\ operated' = TRUE
    /\ IF \E i \in DOMAIN applied : applied[i] = r THEN Break ELSE UNCHANGED breaks
    /\ UNCHANGED <<clock, beats, process, sending, ticked, requests, keptBeats, steadySince>>

-----------------------------------------------------------------------------
NodeHealthNext ==
    \/ StartNode \/ Registers \/ StopNode
    \/ Tick \/ Heartbeat \/ HeartbeatFails
    \/ \E online \in BOOLEAN : SignRequest(online)
    \/ \E r \in requests : storageNodeOperate(r)

-----------------------------------------------------------------------------
(* Properties. *)

\* The data owners, who choose nodes from the list, see the node as it sees itself.
CopiesAgree == record = listRecord

\* A request of the operator is carried out once, however often it is delivered:
\* what is signed does not say whether the node goes online or offline.
RequestsOnce == \A i, j \in DOMAIN applied : applied[i].nonce = applied[j].nonce => i = j

\* A node that was started is online until the operator says otherwise, whatever
\* became of earlier starts and of the answers to their transactions.
UpIsOnline == process = "up" /\ ~operated => record # Unregistered /\ record.online

\* The health counts every heartbeat of the period once, those accepted after
\* midnight or after a restart included, and never finds more than there can be.
\* (A registration exactly at midnight is the exception: see the hazards.)
BeatsCounted ==
    record # Unregistered =>
        LET w     == GetHeartBeatStats(clock, record.regTime)
            total == GetHeartBeatTotalNumByTime(w.start, w.end)
        IN /\ total = Cardinality({t \in keptBeats : w.start <= t /\ t < TodayBeginning(w.end) + PerDay})
           /\ record.regTime # TodayBeginning(record.regTime) =>
                total <= GetHeartbeatMaxNum(w.start, w.end, record.regTime)

\* A node that has run without a break for the period its health is taken from is
\* green, as long as it proves its challenges or gets none, and the heartbeat on
\* its way does not weigh 15 % of them.
SteadyIsGreen ==
    process = "up" =>
        LET w   == GetHeartBeatStats(clock, record.regTime)
            max == GetHeartbeatMaxNum(w.start, w.end, record.regTime)
        IN steadySince <= w.start /\ 85 * max <= 100 * (max - 1) =>
              HealthOfNode(17, 20) = "Green" /\ HealthOfNode(1, 1) = "Green"

\* What the chain says of a node is so: by id and in the list, after crashes
\* between registration and going online, and with requests that are repeated.
NodeStatusTrue == CopiesAgree /\ RequestsOnce /\ UpIsOnline

\* The health of a node is the one its heartbeats have earned.
HealthEarned == BeatsCounted /\ SteadyIsGreen
=============================================================================
