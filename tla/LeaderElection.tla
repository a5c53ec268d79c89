--------------------------- MODULE LeaderElection ---------------------------
(***************************************************************************)
(* coordination's leader election: a Redis key with a time to live, taken  *)
(* with SET NX EX, renewed by whoever finds its own name in it and deleted *)
(* by a leader that shuts down.                                            *)
(*                                                                         *)
(* An action is a command as the server performs it, or the arrival of a   *)
(* reply at the node.  Time is discrete and a Tick passes for everybody;   *)
(* it waits for whatever is due, so MaxDelay bounds how long a command or  *)
(* a reply is under way.  The code sets no such bound: the runs and the    *)
(* theorems say which values of the constants they are about.              *)
(***************************************************************************)
EXTENDS Integers, FiniteSets

CONSTANTS
    Nodes,         \* processes: a restarted one draws a new node id
    Free,          \* what GET returns when the key is absent, not a node
    Ttl,           \* leader_lock_ttl_seconds
    Interval,      \* heartbeat_interval_seconds, the pause of the loop
    MaxDelay,      \* bound on a command or a reply under way
    MaxFailures,   \* bound on consecutive attempts ending in an exception
    ElectScenarios      \* sets of disruptions; a behaviour meets those of one

ElectDisruptions == {"failure", "shutdown", "crash"}

ASSUME ElectionAssumption ==
    /\ Free \notin Nodes
    /\ Ttl \in Nat \ {0}
    /\ Interval \in Nat \ {0}
    /\ MaxDelay \in Nat \ {0}
    /\ MaxFailures \in Nat
    /\ ElectScenarios \subseteq SUBSET ElectDisruptions

VARIABLES
    owner,        \* the value of LOCK_KEY, Free when the key is absent
    left,         \* its remaining time to live
    loop,         \* where run_election_loop is
    since,        \* for how long it has been there
    failures,     \* attempts in a row that ended in an exception
    is_leader,    \* LeaderElection._is_leader
    stop,         \* where the shutdown sequence is
    stopSince,    \* for how long it has been there
    electFaults        \* what this environment may do besides working; fixed

lockVars == <<owner, left>>
loopVars == <<loop, since, failures>>
stopVars == <<stop, stopSince>>
electDataVars == <<lockVars, loopVars, is_leader, stopVars>>
electVars == <<electDataVars, electFaults>>

(***************************************************************************)
(* loop: "wait"   in the pause, or the SET NX after it is under way;       *)
(*       "get"    SET NX found the key there, GET is under way;            *)
(*       "renew"  GET returned this node, SET EX is under way;             *)
(*       "won"    the lock is set, "lost" it is another's: reply under way *)
(* stop: "get", "del"  release()'s commands are under way;                 *)
(*       "reply"       the last of them is answered                        *)
(***************************************************************************)
LoopPhases == {"wait", "get", "renew", "won", "lost", "ended"}
StopPhases == {"no", "get", "del", "reply", "done", "crashed"}

Running(n) == stop[n] \notin {"done", "crashed"}

ElectTypeOK ==
    /\ owner \in Nodes \cup {Free}
    /\ left \in 0..Ttl
    /\ owner = Free <=> left = 0
    /\ loop \in [Nodes -> LoopPhases]
    /\ since \in [Nodes -> 0 .. Interval + MaxDelay]
    /\ failures \in [Nodes -> 0..MaxFailures]
    /\ is_leader \in [Nodes -> BOOLEAN]
    /\ stop \in [Nodes -> StopPhases]
    /\ stopSince \in [Nodes -> 0..MaxDelay]
    /\ electFaults \in ElectScenarios

\* The first attempt is made at once.
ElectInit ==
    /\ owner = Free
    /\ left = 0
    /\ loop = [n \in Nodes |-> "wait"]
    /\ since = [n \in Nodes |-> Interval]
    /\ failures = [n \in Nodes |-> 0]
    /\ is_leader = [n \in Nodes |-> FALSE]
    /\ stop = [n \in Nodes |-> "no"]
    /\ stopSince = [n \in Nodes |-> 0]
    /\ electFaults \in ElectScenarios

SetLock(n) == owner' = n /\ left' = Ttl

LoopTo(n, phase) ==
    /\ loop' = [loop EXCEPT ![n] = phase]
    /\ since' = [since EXCEPT ![n] = 0]

\* An attempt is over: the loop pauses, or ends if shutdown_event is set.
AttemptEnds(n) == LoopTo(n, IF stop[n] = "no" THEN "wait" ELSE "ended")

-----------------------------------------------------------------------------
(***************************************************************************)
(* try_acquire.                                                            *)
(***************************************************************************)
TrySet(n) ==
    /\ loop[n] = "wait" /\ since[n] >= Interval
    /\ \/ owner = Free /\ SetLock(n) /\ LoopTo(n, "won")
       \/ owner # Free /\ UNCHANGED lockVars /\ LoopTo(n, "get")
    /\ UNCHANGED <<failures, is_leader, stopVars>>

\* Fault: the value of the key is not compared with the node's id.
GetLock_anyOwner(n) ==
    /\ loop[n] = "get"
    /\ LoopTo(n, IF owner # Free THEN "renew" ELSE "lost")
    /\ UNCHANGED <<lockVars, failures, is_leader, stopVars>>

GetLock(n) ==
    /\ loop[n] = "get"
    /\ LoopTo(n, IF owner = n THEN "renew" ELSE "lost")
    /\ UNCHANGED <<lockVars, failures, is_leader, stopVars>>

\* Fault: the renewal does not pass the time to live of the lock.
Renew_keepsTtl(n) ==
    /\ loop[n] = "renew"
    /\ owner' = n /\ left' = IF left = 0 THEN Ttl ELSE left
    /\ LoopTo(n, "won")
    /\ UNCHANGED <<failures, is_leader, stopVars>>

\* SET EX without NX: whatever the key holds by now.
Renew(n) ==
    /\ loop[n] = "renew"
    /\ SetLock(n)
    /\ LoopTo(n, "won")
    /\ UNCHANGED <<failures, is_leader, stopVars>>

AttemptSucceeds(n) ==
    /\ loop[n] \in {"won", "lost"}
    /\ is_leader' = [is_leader EXCEPT ![n] = loop[n] = "won"]
    /\ failures' = [failures EXCEPT ![n] = 0]
    /\ AttemptEnds(n)
    /\ UNCHANGED <<lockVars, stopVars>>

\* Fault: the exception is not caught and ends the election task.
AttemptFails_uncaught(n) ==
    /\ "failure" \in electFaults
    /\ failures[n] < MaxFailures
    /\ loop[n] # "ended" /\ (loop[n] = "wait" => since[n] >= Interval)
    /\ failures' = [failures EXCEPT ![n] = @ + 1]
    /\ LoopTo(n, "ended")
    /\ UNCHANGED <<lockVars, is_leader, stopVars>>

(***************************************************************************)
(* A command fails, or its reply is lost after it took effect: the loop    *)
(* logs the exception, and is_leader stays what it was.                    *)
(***************************************************************************)
AttemptFails(n) ==
    /\ "failure" \in electFaults
    /\ failures[n] < MaxFailures
    /\ loop[n] # "ended" /\ (loop[n] = "wait" => since[n] >= Interval)
    /\ failures' = [failures EXCEPT ![n] = @ + 1]
    /\ AttemptEnds(n)
    /\ UNCHANGED <<lockVars, is_leader, stopVars>>

-----------------------------------------------------------------------------
(***************************************************************************)
(* Shutdown.  main() wakes up and calls release() while the election loop  *)
(* is still running; a loop in its pause ends, an attempt under way goes   *)
(* on until release() has returned and the task is cancelled.              *)
(***************************************************************************)
StopTo(n, phase) ==
    /\ stop' = [stop EXCEPT ![n] = phase]
    /\ stopSince' = [stopSince EXCEPT ![n] = 0]

Exit(n, how) ==
    /\ StopTo(n, how)
    /\ LoopTo(n, "ended")
    /\ failures' = [failures EXCEPT ![n] = 0]
    /\ is_leader' = [is_leader EXCEPT ![n] = FALSE]

Shutdown(n) ==
    /\ "shutdown" \in electFaults
    /\ stop[n] = "no"
    /\ UNCHANGED lockVars
    /\ \/ ~is_leader[n] /\ Exit(n, "done")
       \/ /\ is_leader[n]
          /\ StopTo(n, "get")
          /\ IF loop[n] = "wait" /\ since[n] < Interval
                THEN LoopTo(n, "ended")
                ELSE UNCHANGED <<loop, since>>
          /\ UNCHANGED <<failures, is_leader>>

ReleaseGet(n) ==
    /\ stop[n] = "get"
    /\ StopTo(n, IF owner = n THEN "del" ELSE "reply")
    /\ UNCHANGED <<lockVars, loopVars, is_leader>>

\* DELETE: whatever the key holds by now.
ReleaseDelete(n) ==
    /\ stop[n] = "del"
    /\ owner' = Free /\ left' = 0
    /\ StopTo(n, "reply")
    /\ UNCHANGED <<loopVars, is_leader>>

\* release() returns and main() cancels the loop before it awaits again.
ReleaseReturns(n) ==
    /\ stop[n] = "reply"
    /\ Exit(n, "done")
    /\ UNCHANGED lockVars

\* An exception in release() leaves main(): the process ends all the same.
ReleaseFails(n) ==
    /\ "failure" \in electFaults
    /\ stop[n] \in {"get", "del", "reply"}
    /\ Exit(n, "crashed")
    /\ UNCHANGED lockVars

Crash(n) ==
    /\ "crash" \in electFaults
    /\ Running(n)
    /\ Exit(n, "crashed")
    /\ UNCHANGED lockVars

-----------------------------------------------------------------------------
LoopDeadline(n) == IF loop[n] = "wait" THEN Interval + MaxDelay ELSE MaxDelay

NothingIsDue ==
    \A n \in Nodes :
        /\ loop[n] # "ended" => since[n] < LoopDeadline(n)
        /\ stop[n] \in {"get", "del", "reply"} => stopSince[n] < MaxDelay

\* A second passes; a lock that is out of time is gone.
Tick ==
    /\ NothingIsDue
    /\ left' = IF left = 0 THEN 0 ELSE left - 1
    /\ owner' = IF left <= 1 THEN Free ELSE owner
    /\ since' = [n \in Nodes |-> IF loop[n] = "ended" THEN 0 ELSE since[n] + 1]
    /\ stopSince' = [n \in Nodes |->
                        IF stop[n] \in {"get", "del", "reply"}
                           THEN stopSince[n] + 1 ELSE 0]
    /\ UNCHANGED <<loop, failures, is_leader, stop>>

LoopStep(n) == TrySet(n) \/ GetLock(n) \/ Renew(n) \/ AttemptSucceeds(n)
StopStep(n) == ReleaseGet(n) \/ ReleaseDelete(n) \/ ReleaseReturns(n)

ElectStep ==
    \/ Tick
    \/ \E n \in Nodes :
          \/ LoopStep(n) \/ AttemptFails(n)
          \/ Shutdown(n) \/ StopStep(n) \/ ReleaseFails(n)
          \/ Crash(n)

ElectNext == ElectStep /\ UNCHANGED electFaults

ElectSpec == ElectInit /\ [][ElectNext]_electVars

(***************************************************************************)
(* Fairness: time passes, and event loop and server do what is due before  *)
(* it does.  AttemptFails needs no strong fairness against it: MaxFailures *)
(* bounds how often in a row it happens.                                   *)
(***************************************************************************)
LoopProgress(n) == LoopStep(n) \/ AttemptFails(n)
StopProgress(n) == StopStep(n) \/ ReleaseFails(n)

ElectFairSpec ==
    /\ ElectSpec
    /\ WF_electDataVars(Tick)
    /\ \A n \in Nodes : /\ WF_electDataVars(LoopProgress(n))
                        /\ WF_electDataVars(StopProgress(n))

(***************************************************************************)
(* The longest time from one renewal of a lock to the next, in a loop some *)
(* of whose attempts fail: the reply, the pause and three commands.        *)
(***************************************************************************)
Period == Interval + 4 * MaxDelay
Timely == (MaxFailures + 1) * Period < Ttl

-----------------------------------------------------------------------------
(***************************************************************************)
(* The lock passes from one node to another only by being free in between: *)
(* it is taken by SET NX, and SET EX renews a lock the node already holds  *)
(* ("If we already hold the lock the TTL is renewed").  Where nodes shut   *)
(* down in an orderly way this does not hold: see StoppedHoldsNothing.     *)
(***************************************************************************)
NeverSteals ==
    [][owner # Free /\ owner' # Free /\ "shutdown" \notin electFaults =>
           owner' = owner]_electVars

(***************************************************************************)
(* A node that believes it leads holds the lock.                           *)
(***************************************************************************)
LeaderHoldsLock == \A n \in Nodes : is_leader[n] => owner = n

(***************************************************************************)
(* No two nodes act as leader at once, a node shutting down not counted.   *)
(***************************************************************************)
Leads(n) == is_leader[n] /\ stop[n] = "no"

OneLeader == \A m, n \in Nodes : Leads(m) /\ Leads(n) => m = n

(***************************************************************************)
(* A node that has shut down in an orderly way does not hold the lock.     *)
(***************************************************************************)
StoppedHoldsNothing == \A n \in Nodes : stop[n] = "done" => owner # n

(***************************************************************************)
(* "if a leader crashes, the TTL ensures the lock expires and another node *)
(* can take over": while a node stays up, there is a leader again and      *)
(* again.                                                                  *)
(***************************************************************************)
AnotherTakesOver ==
    \A n \in Nodes :
        stop[n] = "no" ~> (stop[n] # "no" \/ \E m \in Nodes : Leads(m))

=============================================================================
