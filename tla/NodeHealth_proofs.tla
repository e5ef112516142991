-------------------------- MODULE NodeHealth_proofs --------------------------
(***************************************************************************)
(* Proofs about a storage node on the chain, for any length of days, any   *)
(* number of requests and any breaks.                                      *)
(***************************************************************************)
EXTENDS NodeHealth, FiniteSetTheorems, TLAPS

\* A storage node that is looked at from any instant on.
NodeHealthSpec == NodeInit(Clock) /\ [][NodeHealthNext]_nodeHealthVars

-----------------------------------------------------------------------------
(***************************************************************************)
(* What the chain says of the node.                                        *)
(***************************************************************************)

Registered == [regTime : Clock, online : BOOLEAN]

StatusTyped ==
    /\ clock \in Clock
    /\ record \in Registered \cup {Unregistered}
    /\ applied \in Seq([nonce : Nat, online : BOOLEAN])
    /\ requests \in SUBSET [nonce : Nat, online : BOOLEAN]
    /\ IsFiniteSet(requests)

\* What was carried out has left its nonce.
StatusInv ==
    /\ StatusTyped
    /\ \A i \in DOMAIN applied : applied[i].nonce \in nonces
    /\ NodeStatusTrue

LEMMA UnregisteredIsNot == Unregistered \notin Registered /\ \A r \in Registered : r # Unregistered
  BY NodeHealthAssumption DEF Unregistered, Registered, Clock

LEMMA AddNodeMoves ==
    ASSUME StatusTyped, AddNode
    PROVE  record' \in Registered /\ listRecord' = record' /\ record'.online = TRUE
  BY DEF StatusTyped, AddNode, Registered

LEMMA SetOnlineMoves ==
    ASSUME StatusTyped, CopiesAgree, NEW online \in BOOLEAN, setNodeOnlineStatus(online)
    PROVE  record' \in Registered /\ listRecord' = record' /\ record'.online = online
  <1>1. record \in Registered /\ record' = [record EXCEPT !.online = online]
    BY DEF StatusTyped, setNodeOnlineStatus
  <1>2. record' \in Registered /\ record'.online = online
    BY <1>1 DEF Registered
  <1>3. record.online = online => record' = record
    BY <1>1 DEF Registered
  <1> QED
    BY <1>2, <1>3 DEF setNodeOnlineStatus, CopiesAgree

LEMMA StatusStart == NodeInit(Clock) => StatusInv
  <1> SUFFICES ASSUME NodeInit(Clock) PROVE StatusInv
    OBVIOUS
  <1>1. StatusTyped
    BY FS_EmptySet DEF NodeInit, StatusTyped
  <1>2. NodeStatusTrue
    BY DEF NodeInit, NodeStatusTrue, CopiesAgree, RequestsOnce, UpIsOnline
  <1> QED
    BY <1>1, <1>2 DEF StatusInv, NodeInit

LEMMA StatusStep == StatusInv /\ [NodeHealthNext]_nodeHealthVars => StatusInv'
  <1> SUFFICES ASSUME StatusInv, [NodeHealthNext]_nodeHealthVars PROVE StatusInv'
    OBVIOUS
  <1> USE DEF chainVars
  <1>1. ASSUME UNCHANGED <<record, listRecord, applied, nonces>>, clock' \in Clock,
               requests' \in SUBSET [nonce : Nat, online : BOOLEAN], IsFiniteSet(requests'),
               process' = "up" => process = "up" /\ operated' = operated
        PROVE  StatusInv'
    BY <1>1 DEF StatusInv, StatusTyped, NodeStatusTrue, CopiesAgree, RequestsOnce, UpIsOnline
  <1>a. /\ clock \in Clock /\ requests \in SUBSET [nonce : Nat, online : BOOLEAN] /\ IsFiniteSet(requests)
    BY DEF StatusInv, StatusTyped
  <1>2. ASSUME UNCHANGED nodeHealthVars PROVE StatusInv'
    BY <1>1, <1>2, <1>a DEF nodeHealthVars
  <1>3. ASSUME StartNode PROVE StatusInv'
    <2>1. process' = "starting"
      BY <1>3 DEF StartNode
    <2> QED
      BY <1>1, <1>3, <1>a, <2>1 DEF StartNode
  <1>4. ASSUME Registers PROVE StatusInv'
    <2>1. UNCHANGED <<clock, applied, requests, nonces, operated>>
      BY <1>4 DEF Registers
    <2>2. CASE UNCHANGED <<record, listRecord>> /\ process' = "down"
      BY <1>1, <1>a, <2>1, <2>2
    <2>3. CASE autoRegister
      <3>1. record' \in Registered \cup {Unregistered} /\ record' = listRecord'
            /\ record' # Unregistered /\ record'.online
        <4>1. CASE AddNode
          BY <4>1, AddNodeMoves, UnregisteredIsNot DEF StatusInv
        <4>2. CASE setNodeOnlineStatus(TRUE)
          BY <4>2, SetOnlineMoves, UnregisteredIsNot DEF StatusInv, NodeStatusTrue
        <4>3. CASE record # Unregistered /\ record.online /\ UNCHANGED <<record, listRecord>>
          BY <4>3 DEF StatusInv, StatusTyped, NodeStatusTrue, CopiesAgree
        <4> QED
          BY <2>3, <4>1, <4>2, <4>3 DEF autoRegister
      <3> QED
        BY <2>1, <3>1 DEF StatusInv, StatusTyped, NodeStatusTrue, CopiesAgree, RequestsOnce, UpIsOnline
    <2> QED
      BY <1>4, <2>2, <2>3 DEF Registers
  <1>5. ASSUME StopNode PROVE StatusInv'
    <2>1. process' = "down"
      BY <1>5 DEF StopNode
    <2> QED
      BY <1>1, <1>5, <1>a, <2>1 DEF StopNode
  <1>6. ASSUME Tick PROVE StatusInv'
    <2>1. clock' \in Clock
      BY <1>6, <1>a, NodeHealthAssumption DEF Tick, Clock
    <2> QED
      BY <1>1, <1>6, <1>a, <2>1 DEF Tick
  <1>7. ASSUME Heartbeat PROVE StatusInv'
    BY <1>1, <1>7, <1>a DEF Heartbeat
  <1>8. ASSUME HeartbeatFails PROVE StatusInv'
    BY <1>1, <1>8, <1>a DEF HeartbeatFails
  <1>9. ASSUME NEW online \in BOOLEAN, SignRequest(online) PROVE StatusInv'
    <2>1. PICK r : r = [nonce |-> Cardinality(requests) + 1, online |-> online]
      OBVIOUS
    <2>2. requests' = requests \cup {r}
      BY <1>9, <2>1 DEF SignRequest
    <2>3. r \in [nonce : Nat, online : BOOLEAN]
      BY <1>a, <2>1, FS_CardinalityType
    <2>4. IsFiniteSet(requests')
      BY <1>a, <2>2, FS_AddElement
    <2> QED
      BY <1>1, <1>9, <1>a, <2>2, <2>3, <2>4 DEF SignRequest
  <1>10. ASSUME NEW r \in requests, storageNodeOperate(r) PROVE StatusInv'
    <2>1. r \in [nonce : Nat, online : BOOLEAN] /\ UNCHANGED <<clock, requests>> /\ operated' = TRUE
      BY <1>10, <1>a DEF storageNodeOperate
    <2>2. record' \in Registered /\ listRecord' = record' /\ setNodeOnlineStatus(r.online)
      BY <1>10, <2>1, SetOnlineMoves DEF StatusInv, NodeStatusTrue, storageNodeOperate
    <2>3. r.nonce \notin nonces /\ nonces' = nonces \cup {r.nonce} /\ applied' = Append(applied, r)
      BY <1>10 DEF storageNodeOperate, checkAndSetNonce
    <2>4. applied \in Seq([nonce : Nat, online : BOOLEAN])
      BY DEF StatusInv, StatusTyped
    <2>5. /\ applied' \in Seq([nonce : Nat, online : BOOLEAN])
          /\ DOMAIN applied' = DOMAIN applied \cup {Len(applied) + 1}
          /\ applied'[Len(applied) + 1] = r
          /\ \A i \in DOMAIN applied : applied'[i] = applied[i]
      BY <2>1, <2>3, <2>4
    <2>6. \A i \in DOMAIN applied' : applied'[i].nonce \in nonces'
      BY <2>3, <2>5 DEF StatusInv
    <2>7. RequestsOnce'
      <3> SUFFICES ASSUME NEW i \in DOMAIN applied', NEW j \in DOMAIN applied',
                          applied'[i].nonce = applied'[j].nonce
                   PROVE  i = j
        BY DEF RequestsOnce
      <3>1. \A k \in DOMAIN applied : applied[k].nonce # r.nonce
        BY <2>3 DEF StatusInv
      <3>2. CASE i \in DOMAIN applied /\ j \in DOMAIN applied
        BY <2>5, <3>2 DEF StatusInv, NodeStatusTrue, RequestsOnce
      <3> QED
        BY <2>5, <3>1, <3>2
    <2>8. StatusTyped'
      BY <1>a, <2>1, <2>2, <2>5 DEF StatusTyped
    <2> QED
      BY <2>1, <2>2, <2>6, <2>7, <2>8 DEF StatusInv, NodeStatusTrue, CopiesAgree, UpIsOnline
  <1> QED
    BY <1>2, <1>3, <1>4, <1>5, <1>6, <1>7, <1>8, <1>9, <1>10 DEF NodeHealthNext

\* The record of a node by its id and the one in the list agree, a request of the
\* operator takes effect once however often it is delivered, and a node that was
\* started is online until the operator says otherwise: after any crashes between
\* reading, registering and being answered, and for any number of requests.
THEOREM StatusIsTrue == NodeHealthSpec => []NodeStatusTrue
  <1>1. StatusInv => NodeStatusTrue
    BY DEF StatusInv
  <1> QED
    BY <1>1, StatusStart, StatusStep, PTL DEF NodeHealthSpec
==============================================================================
