------------------------------ MODULE OTARollout ------------------------------
(***************************************************************************)
(* OTACoordinator: rolling and canary rollouts of firmware over the nodes  *)
(* of the cluster.  A rollout is a coroutine: it leaves the target version *)
(* of a node in Redis, polls the cluster state until the node is alive or  *)
(* the time is up, and goes on to the next one.  What the membership       *)
(* modules make of heartbeats is here only whether a node is seen ALIVE.   *)
(***************************************************************************)
EXTENDS Naturals, Sequences

CONSTANTS
    NodeOrder,     \* the cluster's nodes in the order of the dict they are in
    Rollouts,      \* calls of the coordinator; each brings its own version
    NoVersion,     \* a node without target version
    MaxPolls,      \* polls of a node before its health check times out
    MaxChanges,    \* bound of the model: changes of what the cluster sees
    OtaScenarios   \* sets of disruptions; a behaviour meets those of one

\* "overlap": a rollout begins before another one has ended; "redis": a command
\* to Redis raises; "crash": the coordinator stops in the middle.
OtaDisruptions == {"overlap", "redis", "crash"}

OtaNodes == {NodeOrder[i] : i \in DOMAIN NodeOrder}

ASSUME OtaAssumption ==
    /\ NodeOrder \in Seq(OtaNodes)
    /\ MaxPolls \in Nat
    /\ MaxChanges \in Nat
    /\ NoVersion \notin Rollouts
    /\ OtaScenarios \subseteq SUBSET OtaDisruptions

VARIABLES
    target,      \* node:{id}:target_version in Redis, per node
    pending,     \* metadata["pending_firmware"] of the node in memory
    alive,       \* nodes whose status is ALIVE in the cluster state
    changes,     \* how often that changed
    rollout,     \* each rollout: strategy, place, nodes left, results, events
    otaFaults

otaVars == <<target, pending, alive, changes, rollout, otaFaults>>

\* `todo` are the nodes that are left, the one in hand among them; `results` is
\* what the caller gets; `watched` once the canary was found healthy after the
\* watch period.
Unstarted == [kind |-> "none", at |-> "idle", todo |-> {}, polls |-> 0,
              results |-> [n \in OtaNodes |-> "none"], watched |-> FALSE, events |-> <<>>]

OtaInit ==
    /\ target = [n \in OtaNodes |-> NoVersion]
    /\ pending = [n \in OtaNodes |-> NoVersion]
    /\ alive = OtaNodes
    /\ changes = 0
    /\ rollout = [r \in Rollouts |-> Unstarted]
    /\ otaFaults \in OtaScenarios

RolloutEnded(r) == rollout[r].at \in {"done", "raised", "lost"}
IsCanary(r)     == rollout[r].kind = "canary"

\* The node of a set that the loop over the nodes comes to first.
First(nodes) ==
    NodeOrder[CHOOSE i \in DOMAIN NodeOrder :
                  /\ NodeOrder[i] \in nodes
                  /\ \A j \in DOMAIN NodeOrder : NodeOrder[j] \in nodes => i <= j]
InHand(r) == First(rollout[r].todo)

Onward(nodes) == IF nodes = {} THEN "complete" ELSE "update"

\* RPUSH of an event; when it raises so does the rollout.
Record(r, event, next) ==
    \/ rollout' = [rollout EXCEPT ![r] = [next EXCEPT !.events = Append(next.events, event)]]
    \/ "redis" \in otaFaults /\ rollout' = [rollout EXCEPT ![r].at = "raised"]

\* Nodes as given, or all that are alive when none are.  A rolling update of
\* nothing starts and completes; a canary of nothing returns.
StartRolling(r) ==
    /\ rollout[r].at = "idle"
    /\ \/ "overlap" \in otaFaults
       \/ \A q \in Rollouts : rollout[q].at = "idle" \/ RolloutEnded(q)
    /\ \E nodes \in {OtaNodes, alive} :
          Record(r, "started", [Unstarted EXCEPT
                     !.kind = "rolling", !.todo = nodes, !.at = Onward(nodes)])
    /\ UNCHANGED <<target, pending, alive, changes, otaFaults>>

StartCanary(r) ==
    /\ rollout[r].at = "idle"
    /\ \/ "overlap" \in otaFaults
       \/ \A q \in Rollouts : rollout[q].at = "idle" \/ RolloutEnded(q)
    /\ IF alive = {}
       THEN rollout' = [rollout EXCEPT ![r].at = "done", ![r].kind = "canary"]
       ELSE Record(r, "started", [Unstarted EXCEPT
                       !.kind = "canary", !.todo = alive, !.at = "update"])
    /\ UNCHANGED <<target, pending, alive, changes, otaFaults>>

\* _update_node: the metadata, then Redis.
UpdateNode(r) ==
    /\ rollout[r].at = "update"
    /\ pending' = [pending EXCEPT ![InHand(r)] = r]
    /\ \/ /\ target' = [target EXCEPT ![InHand(r)] = r]
          /\ rollout' = [rollout EXCEPT ![r].at = "health", ![r].polls = 0]
       \/ /\ "redis" \in otaFaults
          /\ rollout' = [rollout EXCEPT ![r].at = "raised"]
          /\ UNCHANGED target
    /\ UNCHANGED <<alive, changes, otaFaults>>

(***************************************************************************)
(* _wait_for_health, and what the caller does with its answer.             *)
(***************************************************************************)
\* Fault: the canary is not watched after its first health check.
Healthy_unwatched(r) ==
    LET left == rollout[r].todo \ {InHand(r)} IN
    [rollout[r] EXCEPT !.results[InHand(r)] = "updated", !.at = Onward(left), !.todo = left]

\* The canary is watched before the next node is touched; only the second
\* finding of its health lets the rollout go on.
Healthy(r) ==
    LET it     == rollout[r]
        left   == it.todo \ {InHand(r)}
        canary == IsCanary(r) /\ ~ it.watched
        passed == [it EXCEPT !.results[InHand(r)] = "updated"]
    IN  IF canary /\ it.results[InHand(r)] = "none" THEN [passed EXCEPT !.at = "watch"]
        ELSE [passed EXCEPT !.at = Onward(left), !.todo = left, !.watched = it.watched \/ canary]

\* Fault: the deadline of the health check is not compared.
PollHealth_forever(r) ==
    /\ rollout[r].at = "health"
    /\ rollout' = [rollout EXCEPT ![r] = IF InHand(r) \in alive THEN Healthy(r) ELSE @]
    /\ UNCHANGED <<target, pending, alive, changes, otaFaults>>

\* With no time left the status is not looked at.
PollHealth(r) ==
    /\ rollout[r].at = "health"
    /\ LET it == rollout[r] IN
       rollout' = [rollout EXCEPT ![r] =
           IF it.polls = MaxPolls THEN [it EXCEPT !.at = "rollback"]
           ELSE IF InHand(r) \in alive THEN Healthy(r)
           ELSE [it EXCEPT !.polls = it.polls + 1]]
    /\ UNCHANGED <<target, pending, alive, changes, otaFaults>>

EndWatch(r) ==
    /\ rollout[r].at = "watch"
    /\ rollout' = [rollout EXCEPT ![r].at = "health", ![r].polls = 0]
    /\ UNCHANGED <<target, pending, alive, changes, otaFaults>>

\* Whatever version the key holds by now.  A failed canary leaves no event.
Rollback(r) ==
    /\ rollout[r].at = "rollback"
    /\ pending' = [pending EXCEPT ![InHand(r)] = NoVersion]
    /\ \/ /\ target' = [target EXCEPT ![InHand(r)] = NoVersion]
          /\ rollout' = [rollout EXCEPT
                 ![r].at = IF IsCanary(r) THEN "raised" ELSE "report",
                 ![r].results[InHand(r)] = "rollback"]
       \/ /\ "redis" \in otaFaults
          /\ rollout' = [rollout EXCEPT ![r].at = "raised"]
          /\ UNCHANGED target
    /\ UNCHANGED <<alive, changes, otaFaults>>

RecordFailure(r) ==
    /\ rollout[r].at = "report"
    /\ Record(r, "failed", [rollout[r] EXCEPT !.at = "raised"])
    /\ UNCHANGED <<target, pending, alive, changes, otaFaults>>

RecordCompletion(r) ==
    /\ rollout[r].at = "complete"
    /\ Record(r, "completed", [rollout[r] EXCEPT !.at = "done"])
    /\ UNCHANGED <<target, pending, alive, changes, otaFaults>>

(***************************************************************************)
(* The cluster, and the end of the coordinator: nothing resumes a rollout. *)
(***************************************************************************)
StatusChanges ==
    /\ changes < MaxChanges
    /\ changes' = changes + 1
    /\ \E n \in OtaNodes : alive' = IF n \in alive THEN alive \ {n} ELSE alive \cup {n}
    /\ UNCHANGED <<target, pending, rollout, otaFaults>>

CrashCoordinator ==
    /\ "crash" \in otaFaults
    /\ pending' = [n \in OtaNodes |-> NoVersion]
    /\ rollout' = [r \in Rollouts |->
           IF rollout[r].at = "idle" \/ RolloutEnded(r) THEN rollout[r]
           ELSE [rollout[r] EXCEPT !.at = "lost"]]
    /\ UNCHANGED <<target, alive, changes, otaFaults>>

OtaStep(r) ==
    \/ UpdateNode(r)
    \/ PollHealth(r)
    \/ EndWatch(r)
    \/ Rollback(r)
    \/ RecordFailure(r)
    \/ RecordCompletion(r)

OtaNext ==
    \/ \E r \in Rollouts : StartRolling(r) \/ StartCanary(r) \/ OtaStep(r)
    \/ StatusChanges
    \/ CrashCoordinator

\* A coroutine that was started runs on; nothing makes anyone start one.
OtaFairness == \A r \in Rollouts : WF_otaVars(OtaStep(r))
OtaSpec == OtaInit /\ [][OtaNext]_otaVars /\ OtaFairness

-----------------------------------------------------------------------------
(***************************************************************************)
(* What it must do.                                                        *)
(***************************************************************************)
CarriesUnproven(r, n) == target[n] = r /\ rollout[r].results[n] # "updated"

\* "update one node at a time, verify health, continue": at any moment, and
\* whatever fails, at most one node carries a version that was not found
\* healthy under it; and a canary that was not found healthy twice is alone.
OneUnprovenNode ==
    \A r \in Rollouts :
        /\ \A n, m \in OtaNodes : CarriesUnproven(r, n) /\ CarriesUnproven(r, m) => n = m
        /\ IsCanary(r) /\ ~ rollout[r].watched =>
               \A n, m \in OtaNodes : target[n] = r /\ target[m] = r => n = m

\* A rollout that ended leaves its version on nodes it found healthy only,
\* unless Redis failed it or the coordinator stopped; one that completed has
\* left it on all of its nodes, unless another one came in between; and its
\* log says completed then and only then.
EndedRolloutsAreClean ==
    \A r \in Rollouts : RolloutEnded(r) =>
        LET done == rollout[r].at = "done" IN
        /\ otaFaults \cap {"redis", "crash"} = {} =>
               \A n \in OtaNodes : ~ CarriesUnproven(r, n)
        /\ done /\ otaFaults = {} =>
               \A n \in OtaNodes : rollout[r].results[n] = "updated" =>
                   target[n] = r \/ \E q \in Rollouts \ {r} : rollout[q].at # "idle"
        /\ \A i \in DOMAIN rollout[r].events : rollout[r].events[i] = "completed" => done

\* Every rollout ends: its health checks have a time limit.
RolloutsEnd == \A r \in Rollouts : rollout[r].at # "idle" ~> RolloutEnded(r)

\* A rollout is safe while it goes on and when it is over.
RolloutsAreSafe == OneUnprovenNode /\ EndedRolloutsAreClean

=============================================================================
