------------------------------ MODULE Dashboard ------------------------------
(***************************************************************************)
(* The web dashboard (dashboard/app.py and its page): the live feed of the *)
(* telemetry stream over a WebSocket, and the buttons that start, stop and *)
(* restart the stack through docker.  The alert feed is the same code with *)
(* another stream.                                                         *)
(*                                                                         *)
(* subprocess.run blocks the one event loop, so that nothing else of the   *)
(* dashboard happens while a stack command runs.  docker is external.      *)
(***************************************************************************)
EXTENDS RedisStream, Sequences, FiniteSets

CONSTANTS
    FeedCount,            \* 50: how many entries XREVRANGE is asked for
    Commands,             \* the requests that press a button
    MaxConnections,       \* bound of the model: connections of the page's feed
    DashboardScenarios    \* sets of disruptions, one of which a behaviour has

DashboardDisruptions ==
    {"redis",    \* a read fails, which ends the connection
     "page",     \* the page goes away
     "docker"}   \* a docker command fails or times out

ASSUME DashboardAssumption ==
    /\ {FeedCount, MaxConnections} \subseteq Nat \ {0}
    /\ \A s \in DashboardScenarios : s \subseteq DashboardDisruptions

VARIABLES
    feed,        \* the connection: see Opened
    shown,       \* the entries its page has shown, in their order
    connections, \* how often the page has connected
    command,     \* command[q]: what it is, the docker steps left, its result
    stack,       \* whether composed services and monitors are up
    dashboardFaults

dashboardOwn  == <<feed, shown, connections, command, stack, dashboardFaults>>
dashboardVars == <<streamVars, dashboardOwn>>

Can(disruption) == disruption \in dashboardFaults

Idle == [at |-> "none", kind |-> "none", left |-> <<>>, ok |-> FALSE]

\* Fault: the commands run in threads.
LoopIsFree_threads == TRUE

LoopIsFree == \A q \in Commands : command[q].at # "running"

-----------------------------------------------------------------------------
(***************************************************************************)
(* The page connects, and does so again three seconds after every close.   *)
(***************************************************************************)
Opened == [at |-> "tick", cursor |-> 0, batch |-> <<>>]

Open ==
    /\ LoopIsFree
    /\ feed.at = "closed"
    /\ connections < MaxConnections
    /\ connections' = connections + 1
    /\ feed' = Opened
    /\ shown' = <<>>
    /\ UNCHANGED <<streamVars, command, stack, dashboardFaults>>

(***************************************************************************)
(* ws_live, the read: the newest FeedCount entries, those after the cursor *)
(* oldest first; the cursor then is the newest.                            *)
(***************************************************************************)
Greatest(a, b) == IF a < b THEN b ELSE a
Oldest(n)      == Greatest(trimmed, n - FeedCount) + 1

\* Fault: the cursor is the last element of a list that is newest first.
CursorAfter_lastRead(cursor) == IF added > trimmed THEN Oldest(added) ELSE cursor

CursorAfter(cursor) == IF added > trimmed THEN added ELSE cursor

ReadFeed ==
    LET first == Greatest(Oldest(added), feed.cursor + 1) IN
    /\ LoopIsFree
    /\ feed.at = "tick"
    /\ \/ feed' = [at |-> "send", cursor |-> CursorAfter(feed.cursor),
                   batch |-> [i \in 1..Greatest(0, added - first + 1) |-> first + i - 1]]
       \/ Can("redis") /\ feed' = [feed EXCEPT !.at = "closed"]
    /\ UNCHANGED <<streamVars, shown, connections, command, stack, dashboardFaults>>

\* The reads of lengths and of the rate, and send_json, come after it.
SendFeed ==
    /\ LoopIsFree
    /\ feed.at = "send"
    /\ \/ /\ feed' = [feed EXCEPT !.at = "tick", !.batch = <<>>]
          /\ shown' = shown \o feed.batch
       \/ /\ Can("redis") \/ Can("page")
          /\ feed' = [feed EXCEPT !.at = "closed", !.batch = <<>>]
          /\ UNCHANGED shown
    /\ UNCHANGED <<streamVars, connections, command, stack, dashboardFaults>>

-----------------------------------------------------------------------------
(***************************************************************************)
(* stack_up, stack_down and stack_restart: their docker commands one after *)
(* the other, whatever became of the one before.  The answer is that of    *)
(* the last compose command.                                               *)
(***************************************************************************)
Do(what, to) == [what |-> what, to |-> to]

StepsOf(kind) ==
    CASE kind = "up"      -> <<Do("composed", "up"), Do("monitors", "up")>>
      [] kind = "down"    -> <<Do("monitors", "down"), Do("composed", "down")>>
      [] kind = "restart" -> <<Do("monitors", "down"), Do("composed", "down"),
                               Do("composed", "up"), Do("monitors", "up")>>

Press(q) ==
    /\ LoopIsFree
    /\ command[q].at = "none"
    /\ \E kind \in {"up", "down", "restart"} :
          command' = [command EXCEPT ![q] =
              [at |-> "running", kind |-> kind, left |-> StepsOf(kind), ok |-> FALSE]]
    /\ UNCHANGED <<streamVars, feed, shown, connections, stack, dashboardFaults>>

RunStep(q) ==
    LET step == Head(command[q].left)
        After(ok) == [command[q] EXCEPT
                         !.left = Tail(@),
                         !.at = IF Len(command[q].left) = 1 THEN "done" ELSE @,
                         !.ok = IF step.what = "composed" THEN ok ELSE @]
    IN /\ command[q].at = "running"
       /\ \/ /\ stack' = [stack EXCEPT ![step.what] = step.to]
             /\ command' = [command EXCEPT ![q] = After(TRUE)]
          \/ /\ Can("docker")
             /\ \E s \in {stack[step.what], step.to, "partly"} :
                   stack' = [stack EXCEPT ![step.what] = s]
             /\ command' = [command EXCEPT ![q] = After(FALSE)]
       /\ UNCHANGED <<streamVars, feed, shown, connections, dashboardFaults>>

-----------------------------------------------------------------------------
DashboardInit ==
    /\ feed = [Opened EXCEPT !.at = "closed"]
    /\ shown = <<>>
    /\ connections = 0
    /\ command = [q \in Commands |-> Idle]
    /\ stack = [composed |-> "down", monitors |-> "down"]
    /\ dashboardFaults \in DashboardScenarios

FeedStep == Open \/ ReadFeed \/ SendFeed

DashboardNext ==
    \/ FeedStep
    \/ \E q \in Commands : Press(q) \/ RunStep(q)

\* Every docker command has a timeout, every tick follows the last.
DashboardProgress == FeedStep \/ \E q \in Commands : RunStep(q)

-----------------------------------------------------------------------------
DashboardTypeOK ==
    /\ feed.at \in {"closed", "tick", "send"}
    /\ feed.cursor \in 0..added
    /\ \A q \in Commands : command[q].at \in {"none", "running", "done"}
    /\ stack \in [{"composed", "monitors"} -> {"up", "down", "partly"}]

(***************************************************************************)
(* A connection shows each entry at most once and in the stream's order,   *)
(* while entries are added and trimmed between its reads; an entry that a  *)
(* read passes over had been trimmed, or FeedCount newer ones were there.  *)
(***************************************************************************)
ShownOnce == \A i, j \in 1..Len(shown) : i < j => shown[i] < shown[j]

Skipped(i) == i > trimmed /\ i > added - FeedCount /\ \A j \in DOMAIN feed'.batch : feed'.batch[j] # i

FeedIsFaithful ==
    [][ShownOnce' /\ \A i \in feed.cursor + 1..feed'.cursor : ~Skipped(i)]_dashboardVars

(***************************************************************************)
(* When a stack command ends with success, the services are as it asked,   *)
(* whoever else has pressed a button in between.                           *)
(***************************************************************************)
StackAnswersAreTrue ==
    [][\A q \in Commands :
           command[q].at = "running" /\ command'[q].at = "done" /\ command'[q].ok
           => stack'.composed = IF command[q].kind = "down" THEN "down" ELSE "up"]_dashboardVars

(***************************************************************************)
(* Once nothing is added any more and the page stays, its feed shows the   *)
(* last entry.                                                             *)
(***************************************************************************)
FeedCatchesUp ==
    dashboardFaults = {} =>
        []<>(added > trimmed => Len(shown) > 0 /\ shown[Len(shown)] = added)

=============================================================================
