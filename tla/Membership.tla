----------------------------- MODULE Membership -----------------------------
(***************************************************************************)
(* coordination's membership: the ClusterState one node keeps of its peers *)
(* as the servicer, the heartbeat checker and the gossip round change it.  *)
(*                                                                         *)
(* Peers tell the node about themselves by RPCs (JoinCluster, Heartbeat,   *)
(* LeaveCluster) and by pings on the gossip channel.  Heartbeats and pings *)
(* may be late: one sent before its sender left or crashed may be handled  *)
(* afterwards.  Time is counted in ticks.                                  *)
(***************************************************************************)
EXTENDS Integers, FiniteSets

CONSTANTS
    Peers,
    CheckEvery,         \* ticks between two checks of the timeouts
    Timeout,          \* ticks without a heartbeat until SUSPECT; twice: DEAD
    Fanout,           \* peers probed in a gossip round
    HeartbeatEvery,   \* the node hears of a running peer this often
    MemberScenarios   \* sets of disruptions; a behaviour meets those of one

(***************************************************************************)
(* "crash": peers crash; "publish": publishing a ping fails; "return": a   *)
(* peer that crashed or left comes back under its id without JoinCluster;  *)
(* "no_client": gossip was constructed without a Redis client, as main()   *)
(* does.                                                                   *)
(***************************************************************************)
MemberDisruptions == {"crash", "publish", "return", "no_client"}

ASSUME MembershipAssumption ==
    /\ IsFiniteSet(Peers)
    /\ {CheckEvery, Timeout, Fanout, HeartbeatEvery} \subseteq Nat \ {0}
    /\ MemberScenarios \subseteq SUBSET MemberDisruptions

VARIABLES
    status,      \* ClusterState: each peer's status, "unknown" if not in _nodes
    silent,      \* ticks since last_heartbeat, no more than Oldest
    version,     \* _cluster_version, modulo VersionModulus
    sinceCheck,  \* ticks since the last _check_timeouts
    targets,     \* peers the gossip round under way has yet to probe
    up,          \* peers that are running
    mail,        \* heartbeats and pings sent and not yet handled
    memberFaults \* what this environment may do; fixed

viewVars == <<status, silent, version>>
memberDataVars == <<viewVars, sinceCheck, targets, up, mail>>
memberVars == <<memberDataVars, memberFaults>>

Statuses == {"unknown", "alive", "suspect", "dead", "leaving"}
Gone     == {"dead", "leaving"}
Mail     == Peers \X {"heartbeat", "ping"}
Oldest   == 2 * Timeout + 1

\* A step marks each peer at most once, so this tells how often it counted.
VersionModulus == Cardinality(Peers) + 1

MemberTypeOK ==
    /\ status \in [Peers -> Statuses]
    /\ silent \in [Peers -> 0..Oldest]
    /\ version \in 0..(VersionModulus - 1)
    /\ sinceCheck \in 0..CheckEvery
    /\ targets \subseteq {p \in Peers : status[p] # "unknown"}
    /\ up \subseteq Peers
    /\ mail \subseteq Mail
    /\ memberFaults \in MemberScenarios

MemberInit ==
    /\ status = [p \in Peers |-> "unknown"]
    /\ silent = [p \in Peers |-> 0]
    /\ version = 0
    /\ sinceCheck = CheckEvery
    /\ targets = {}
    /\ up = {}
    /\ mail = {}
    /\ memberFaults \in MemberScenarios

-----------------------------------------------------------------------------
(***************************************************************************)
(* The operations of ClusterState.                                         *)
(***************************************************************************)
Count(n) == version' = (version + n) % VersionModulus

\* add_node: the entry is replaced, with a fresh last_heartbeat.
AddNode(p) ==
    /\ status' = [status EXCEPT ![p] = "alive"]
    /\ silent' = [silent EXCEPT ![p] = 0]
    /\ Count(1)

\* Fault: a peer under suspicion is not cleared.
UpdateHeartbeat_keepsStatus(p) ==
    /\ status' = status
    /\ silent' = [silent EXCEPT ![p] = 0]
    /\ version' = version

\* update_node_heartbeat, of a known peer: DEAD and LEAVING stay, and the
\* version is not counted.
UpdateHeartbeat(p) ==
    /\ status' = [status EXCEPT ![p] = IF @ = "suspect" THEN "alive" ELSE @]
    /\ silent' = [silent EXCEPT ![p] = 0]
    /\ version' = version

\* Fault: the status is not looked at.
MarkSuspect_unguarded(ps) ==
    /\ status' = [p \in Peers |-> IF p \in ps THEN "suspect" ELSE status[p]]
    /\ Count(Cardinality(ps))
    /\ silent' = silent

\* mark_suspect, of each of the peers ps.
MarkSuspect(ps) ==
    LET marked == {p \in ps : status[p] \notin Gone}
    IN  /\ status' = [p \in Peers |-> IF p \in marked THEN "suspect" ELSE status[p]]
        /\ Count(Cardinality(marked))
        /\ silent' = silent

-----------------------------------------------------------------------------
(***************************************************************************)
(* The RPCs and the ping listener.                                         *)
(***************************************************************************)
JoinCluster(p) ==
    /\ AddNode(p)
    /\ up' = up \union {p}
    /\ UNCHANGED <<sinceCheck, targets, mail>>

LeaveCluster(p) ==
    /\ p \in up
    /\ status[p] # "unknown"
    /\ status' = [status EXCEPT ![p] = "leaving"]
    /\ Count(1)
    /\ up' = up \ {p}
    /\ UNCHANGED <<silent, sinceCheck, targets, mail>>

Heartbeat(p) ==
    /\ <<p, "heartbeat">> \in mail
    /\ IF status[p] = "unknown" THEN AddNode(p) ELSE UpdateHeartbeat(p)
    /\ mail' = mail \ {<<p, "heartbeat">>}
    /\ UNCHANGED <<sinceCheck, targets, up>>

\* handle_ping, if gossip was given a Redis client to listen with.
HandlePing(p) ==
    /\ <<p, "ping">> \in mail
    /\ IF status[p] = "unknown" THEN UNCHANGED viewVars ELSE UpdateHeartbeat(p)
    /\ mail' = mail \ {<<p, "ping">>}
    /\ UNCHANGED <<sinceCheck, targets, up>>

-----------------------------------------------------------------------------
(***************************************************************************)
(* _check_timeouts: every peer that is not gone, without an await.         *)
(***************************************************************************)
Watched == {p \in Peers : status[p] \in {"alive", "suspect"}}

\* Fault: the first threshold already means DEAD.
Expired_tooEarly == {p \in Watched : silent[p] > Timeout}

Expired == {p \in Watched : silent[p] > 2 * Timeout}

Overdue == {p \in Watched \ Expired : silent[p] > Timeout /\ status[p] # "suspect"}

CheckTimeouts ==
    /\ sinceCheck = CheckEvery
    /\ sinceCheck' = 0
    /\ status' = [p \in Peers |-> IF p \in Expired THEN "dead"
                                  ELSE IF p \in Overdue THEN "suspect"
                                  ELSE status[p]]
    /\ Count(Cardinality(Expired \union Overdue))
    /\ UNCHANGED <<silent, targets, up, mail>>

-----------------------------------------------------------------------------
(***************************************************************************)
(* _gossip_round: peers that are ALIVE now, probed one after the other.    *)
(* Each publish is awaited, so anything may happen to a peer before its    *)
(* turn.  Without a client a probe fails at once and the round is one step.*)
(***************************************************************************)
AlivePeers == {p \in Peers : status[p] = "alive"}

Chosen(ts) ==
    /\ ts # {}
    /\ \/ Cardinality(ts) = Fanout
       \/ Cardinality(ts) < Fanout /\ ts = AlivePeers

StartRound ==
    /\ "no_client" \notin memberFaults /\ targets = {}
    /\ \E ts \in SUBSET AlivePeers : Chosen(ts) /\ targets' = ts
    /\ UNCHANGED <<viewVars, sinceCheck, up, mail>>

PingSent(p) ==
    /\ p \in targets
    /\ targets' = targets \ {p}
    /\ UNCHANGED <<viewVars, sinceCheck, up, mail>>

PingFails(p) ==
    /\ "publish" \in memberFaults
    /\ p \in targets
    /\ MarkSuspect({p})
    /\ targets' = targets \ {p}
    /\ UNCHANGED <<sinceCheck, up, mail>>

BlindRound ==
    /\ "no_client" \in memberFaults
    /\ \E ts \in SUBSET AlivePeers : Chosen(ts) /\ MarkSuspect(ts)
    /\ UNCHANGED <<sinceCheck, targets, up, mail>>

-----------------------------------------------------------------------------
(***************************************************************************)
(* The peers and the clock.                                                *)
(***************************************************************************)
\* A peer starts and will make itself known by heartbeats.
PeerStarts(p) ==
    /\ p \notin up
    /\ status[p] = "unknown" \/ "return" \in memberFaults
    /\ up' = up \union {p}
    /\ UNCHANGED <<viewVars, sinceCheck, targets, mail>>

SendHeartbeat(p) ==
    /\ p \in up /\ <<p, "heartbeat">> \notin mail
    /\ mail' = mail \union {<<p, "heartbeat">>}
    /\ UNCHANGED <<viewVars, sinceCheck, targets, up>>

SendPing(p) ==
    /\ p \in up /\ "no_client" \notin memberFaults /\ <<p, "ping">> \notin mail
    /\ mail' = mail \union {<<p, "ping">>}
    /\ UNCHANGED <<viewVars, sinceCheck, targets, up>>

PeerCrashes(p) ==
    /\ "crash" \in memberFaults
    /\ p \in up
    /\ up' = up \ {p}
    /\ UNCHANGED <<viewVars, sinceCheck, targets, mail>>

TimePasses ==
    /\ sinceCheck < CheckEvery
    /\ sinceCheck' = sinceCheck + 1
    /\ \A p \in up : status[p] # "unknown" => silent[p] < HeartbeatEvery
    /\ silent' = [p \in Peers |-> IF status[p] = "unknown" \/ silent[p] = Oldest
                                     THEN silent[p] ELSE silent[p] + 1]
    /\ UNCHANGED <<status, version, targets, up, mail>>

-----------------------------------------------------------------------------
MemberStep ==
    \/ \E p \in Peers :
          \/ JoinCluster(p) \/ LeaveCluster(p) \/ Heartbeat(p) \/ HandlePing(p)
          \/ PingSent(p) \/ PingFails(p)
          \/ PeerStarts(p) \/ SendHeartbeat(p) \/ SendPing(p) \/ PeerCrashes(p)
    \/ CheckTimeouts \/ StartRound \/ BlindRound \/ TimePasses

MemberNext == MemberStep /\ UNCHANGED memberFaults

MemberSpec == MemberInit /\ [][MemberNext]_memberVars

(***************************************************************************)
(* Fairness: time passes, however often peers crash and come back (a       *)
(* strong condition, as the clock waits for the heartbeats that are due),  *)
(* and the checks run; a running peer goes on sending heartbeats, and what *)
(* was sent is handled.                                                    *)
(***************************************************************************)
NodeFairness == SF_memberDataVars(TimePasses) /\ WF_memberDataVars(CheckTimeouts)

PeerFairness ==
    \A p \in Peers :
        WF_memberDataVars(SendHeartbeat(p)) /\ WF_memberDataVars(Heartbeat(p))

-----------------------------------------------------------------------------
(***************************************************************************)
(* A peer that left or was declared dead is back only by JoinCluster: not  *)
(* by a late heartbeat or ping, nor by a gossip round that had chosen it.  *)
(***************************************************************************)
GoneStaysGone ==
    [][\A p \in Peers :
          status[p] \in Gone =>
              status'[p] = status[p] \/ JoinCluster(p) \/ LeaveCluster(p)]_memberVars

(***************************************************************************)
(* A running peer that is heard of in time is never taken for dead,        *)
(* whatever the gossip rounds make of it and however often it rejoins;     *)
(* unless it comes back without joining, since heartbeats revive nobody.   *)
(***************************************************************************)
NoFalseDeath ==
    "return" \notin memberFaults => \A p \in up : status[p] # "dead"

(***************************************************************************)
(* Nobody is declared dead who was ALIVE until then: the checker's two     *)
(* thresholds come one after the other for every peer.                     *)
(***************************************************************************)
SuspectedFirst ==
    [][\A p \in Peers : status[p] = "alive" => status'[p] # "dead"]_memberVars

\* No status is left or reached by a way around.
StatusMovesAreLegal == GoneStaysGone /\ SuspectedFirst

(***************************************************************************)
(* A peer that stays down is found out for good, whatever was under way    *)
(* when it went down: a late heartbeat or ping, a gossip round, a check.   *)
(***************************************************************************)
EventuallyDetected ==
    \A p \in Peers :
        <>[](p \notin up) => <>[](status[p] \in Gone \union {"unknown"})

(***************************************************************************)
(* A suspicion does not last: a peer that joined and goes on sending       *)
(* heartbeats is ALIVE again and again, although every gossip round        *)
(* without a client puts it under suspicion.                               *)
(***************************************************************************)
BeatingIsAlive ==
    "return" \notin memberFaults =>
        \A p \in Peers : <>[](p \in up) => []<>(status[p] = "alive")

\* The failure detector is complete, and it is accurate in the end.
DetectionIsRight == EventuallyDetected /\ BeatingIsAlive

=============================================================================
