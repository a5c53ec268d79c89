----------------------------- MODULE ConfigSync -----------------------------
(***************************************************************************)
(* coordination's replicated configuration, for one key: a writer bumps    *)
(* the version in Redis, stores the value, updates its own cache and       *)
(* publishes the change; the other nodes apply what the channel brings if  *)
(* it is newer.  A starting node reads value and version from Redis and    *)
(* subscribes afterwards.                                                  *)
(*                                                                         *)
(* INCR gives every write a version of its own, so a value is named by the *)
(* version of the write it belongs to; 0 is "no value".  Redis Pub/Sub     *)
(* keeps the order of publication and delivers to whoever is subscribed.   *)
(***************************************************************************)
EXTENDS Integers, Sequences

CONSTANTS
    Replicas,
    Calls,         \* concurrent calls of set_config
    MaxWrites,     \* bound of the model: how often set_config is called
    ConfigScenarios  \* sets of disruptions; a behaviour meets those of one

(***************************************************************************)
(* "overlap": calls of set_config overlap (they are coroutines of a gRPC   *)
(* server, or of two nodes that both believe they lead); "start": nodes    *)
(* start while writes go on; "failure": a Redis command of a writer or of  *)
(* the initial sync raises; "disconnect": the subscription breaks.         *)
(***************************************************************************)
ConfigDisruptions == {"overlap", "start", "failure", "disconnect"}

ASSUME ConfigAssumption ==
    /\ MaxWrites \in Nat
    /\ ConfigScenarios \subseteq SUBSET ConfigDisruptions

Versions == 0..MaxWrites
Pair     == [value : Versions, version : Versions]
NoEntry  == [value |-> 0, version |-> 0]

VARIABLES
    counter,   \* Redis: CONFIG_PREFIX + "version:" + key
    stored,    \* Redis: CONFIG_PREFIX + key
    cache,     \* each node's _local_config entry
    inbox,     \* messages published to each node and not yet handled
    sync,      \* where each node's run_sync_loop is
    fetched,   \* value sync_from_leader has read, its version not yet
    call,      \* set_config: where each call is, on which node, its version
    configFaults  \* what may happen besides one write after the other

redisVars == <<counter, stored>>
syncVars  == <<inbox, sync, fetched>>
configDataVars == <<redisVars, cache, syncVars, call>>
configVars == <<configDataVars, configFaults>>

SyncPhases == {"get", "version", "subscribe", "listening", "dead"}
CallPhases == {"idle", "set", "reply", "publish"}
NoCall     == [pc |-> "idle", node |-> CHOOSE n \in Replicas : TRUE, version |-> 0]

ConfigTypeOK ==
    /\ counter \in Versions
    /\ stored \in 0..counter
    /\ cache \in [Replicas -> Pair]
    /\ inbox \in [Replicas -> Seq(Pair)]
    /\ sync \in [Replicas -> SyncPhases]
    /\ fetched \in [Replicas -> Versions]
    /\ call \in [Calls -> [pc : CallPhases, node : Replicas, version : Versions]]
    /\ \A n \in Replicas : cache[n].version <= counter /\ cache[n].value <= counter
    /\ configFaults \in ConfigScenarios

ConfigInit ==
    /\ counter = 0
    /\ stored = 0
    /\ cache = [n \in Replicas |-> NoEntry]
    /\ inbox = [n \in Replicas |-> <<>>]
    /\ configFaults \in ConfigScenarios
    /\ sync \in [Replicas -> {"get", "listening"}]
    /\ "start" \notin configFaults => sync = [n \in Replicas |-> "listening"]
    /\ fetched = [n \in Replicas |-> 0]
    /\ call = [c \in Calls |-> NoCall]

-----------------------------------------------------------------------------
(***************************************************************************)
(* set_config: INCR; SET; the local cache; PUBLISH.                        *)
(***************************************************************************)
CallTo(c, phase) == call' = [call EXCEPT ![c].pc = phase]
EndCall(c) == call' = [call EXCEPT ![c] = NoCall]

BumpVersion == counter' = counter + 1

StartWrite(c, n) ==
    /\ call[c].pc = "idle"
    /\ "overlap" \in configFaults \/ \A d \in Calls : call[d].pc = "idle"
    /\ counter < MaxWrites
    /\ BumpVersion
    /\ call' = [call EXCEPT ![c] = [pc |-> "set", node |-> n, version |-> counter']]
    /\ UNCHANGED <<stored, cache, syncVars>>

\* Fault: SET NX, the value is stored only where there is none.
StoreValue_nx(c) ==
    /\ call[c].pc = "set"
    /\ stored' = IF stored = 0 THEN call[c].version ELSE stored
    /\ CallTo(c, "reply")
    /\ UNCHANGED <<counter, cache, syncVars>>

StoreValue(c) ==
    /\ call[c].pc = "set"
    /\ stored' = call[c].version
    /\ CallTo(c, "reply")
    /\ UNCHANGED <<counter, cache, syncVars>>

\* The writer's own cache, whatever it has taken in since the INCR.
CacheOwnWrite(c) ==
    LET v == call[c].version
    IN  /\ call[c].pc = "reply"
        /\ cache' = [cache EXCEPT ![call[c].node] = [value |-> v, version |-> v]]
        /\ CallTo(c, "publish")
        /\ UNCHANGED <<redisVars, syncVars>>

PublishWrite(c) ==
    LET v == call[c].version
    IN  /\ call[c].pc = "publish"
        /\ inbox' = [n \in Replicas |->
                        IF sync[n] = "listening"
                           THEN Append(inbox[n], [value |-> v, version |-> v])
                           ELSE inbox[n]]
        /\ EndCall(c)
        /\ UNCHANGED <<redisVars, cache, sync, fetched>>

\* A command raises; what set_config has done so far stays done.
WriteFails(c) ==
    /\ "failure" \in configFaults
    /\ call[c].pc \in {"set", "reply", "publish"}
    /\ EndCall(c)
    /\ UNCHANGED <<redisVars, cache, syncVars>>

-----------------------------------------------------------------------------
(***************************************************************************)
(* run_sync_loop: sync_from_leader, then subscribe, then the messages.     *)
(***************************************************************************)
SyncTo(n, phase) == sync' = [sync EXCEPT ![n] = phase]

FetchValue(n) ==
    /\ sync[n] = "get"
    /\ fetched' = [fetched EXCEPT ![n] = stored]
    /\ SyncTo(n, IF stored = 0 THEN "subscribe" ELSE "version")
    /\ UNCHANGED <<redisVars, cache, inbox, call>>

FetchVersion(n) ==
    /\ sync[n] = "version"
    /\ cache' = [cache EXCEPT ![n] = [value |-> fetched[n], version |-> counter]]
    /\ fetched' = [fetched EXCEPT ![n] = 0]
    /\ SyncTo(n, "subscribe")
    /\ UNCHANGED <<redisVars, inbox, call>>

\* "initial_config_sync_failed" is logged, and the loop goes on to subscribe.
InitialSyncFails(n) ==
    /\ "failure" \in configFaults
    /\ sync[n] \in {"get", "version"}
    /\ fetched' = [fetched EXCEPT ![n] = 0]
    /\ SyncTo(n, "subscribe")
    /\ UNCHANGED <<redisVars, cache, inbox, call>>

Subscribe(n) ==
    /\ sync[n] = "subscribe"
    /\ SyncTo(n, "listening")
    /\ UNCHANGED <<redisVars, cache, inbox, fetched, call>>

\* set_local, in the sync loop and in the SyncConfig RPC.
SetLocal(n, entry) == cache' = [cache EXCEPT ![n] = entry]

\* Fault: an entry is applied whatever its version.
Newer_always(n, entry) == entry.version > 0

Newer(n, entry) == entry.version > cache[n].version

HandleMessage(n) ==
    /\ sync[n] = "listening" /\ inbox[n] # <<>>
    /\ IF Newer(n, Head(inbox[n])) THEN SetLocal(n, Head(inbox[n]))
                                   ELSE cache' = cache
    /\ inbox' = [inbox EXCEPT ![n] = Tail(@)]
    /\ UNCHANGED <<redisVars, sync, fetched, call>>

\* get_message raises; the loop ends, and nothing starts it again.
LoopDies(n) ==
    /\ "disconnect" \in configFaults
    /\ sync[n] \in {"subscribe", "listening"}
    /\ SyncTo(n, "dead")
    /\ inbox' = [inbox EXCEPT ![n] = <<>>]
    /\ UNCHANGED <<redisVars, cache, fetched, call>>

\* The SyncConfig RPC of node n is sent the entry that node m has.
ExchangeEntry(m, n) ==
    /\ Newer(n, cache[m])
    /\ SetLocal(n, cache[m])
    /\ UNCHANGED <<redisVars, syncVars, call>>

\* Nothing is under way and nothing more will be written.
Quiet ==
    /\ counter = MaxWrites
    /\ \A c \in Calls : call[c].pc = "idle"
    /\ \A n \in Replicas : sync[n] \in {"listening", "dead"} /\ inbox[n] = <<>>

Rest == Quiet /\ UNCHANGED configDataVars

-----------------------------------------------------------------------------
CallStep(c) == StoreValue(c) \/ CacheOwnWrite(c) \/ PublishWrite(c)

SyncStep(n) ==
    FetchValue(n) \/ FetchVersion(n) \/ Subscribe(n) \/ HandleMessage(n)

ConfigStep ==
    \/ \E c \in Calls :
          (\E n \in Replicas : StartWrite(c, n)) \/ CallStep(c) \/ WriteFails(c)
    \/ \E n \in Replicas : SyncStep(n) \/ InitialSyncFails(n) \/ LoopDies(n)
    \/ \E m, n \in Replicas : ExchangeEntry(m, n)
    \/ Rest

ConfigNext == ConfigStep /\ UNCHANGED configFaults

ConfigSpec == ConfigInit /\ [][ConfigNext]_configVars

(***************************************************************************)
(* Fairness: coroutines that have started are run to their end.  Nobody    *)
(* has to call set_config, and nobody has to exchange entries.             *)
(***************************************************************************)
ConfigFairness ==
    /\ \A c \in Calls : WF_configDataVars(CallStep(c) \/ WriteFails(c))
    /\ \A n \in Replicas : WF_configDataVars(SyncStep(n) \/ InitialSyncFails(n))

-----------------------------------------------------------------------------
(***************************************************************************)
(* A cached value carries the version it was written with, so that "newer" *)
(* in run_sync_loop and SyncConfig compares what it means to compare.      *)
(***************************************************************************)
EntriesAreGenuine == \A n \in Replicas : cache[n].value = cache[n].version

(***************************************************************************)
(* This holds of messages, RPCs and own writes, overlapping ones included; *)
(* the initial sync breaks it.                                             *)
(***************************************************************************)
RunningEntriesAreGenuine == "start" \notin configFaults => EntriesAreGenuine

(***************************************************************************)
(* No node's cache goes back to an older version, whichever way entries    *)
(* reach it: own writes, messages, the initial sync or the RPC ("Only      *)
(* apply if the incoming version is newer").  Where writes overlap, the    *)
(* unconditional assignment to the writer's own cache may take it back.    *)
(***************************************************************************)
CachesNeverGoBack ==
    [][\A n \in Replicas :
          "overlap" \notin configFaults =>
              cache'[n].version >= cache[n].version]_configVars

\* A cache holds what was written, and never goes back.
CachesAreSound == []RunningEntriesAreGenuine /\ CachesNeverGoBack

(***************************************************************************)
(* Without failures, once nobody writes every node and Redis, the "source  *)
(* of truth", have the last value written.                                 *)
(***************************************************************************)
Converged ==
    stored = counter /\ \A n \in Replicas : cache[n].value = stored

EventuallyConverged ==
    configFaults = {} => \A v \in Versions : <>[](counter = v) => <>[]Converged

=============================================================================
