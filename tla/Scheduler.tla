------------------------------ MODULE Scheduler ------------------------------
(***************************************************************************)
(* scheduler: edge nodes report their load, tasks are placed on one of     *)
(* them or in the cloud by the policy that scores highest, in the request  *)
(* or from a queue drained by a loop; and the adaptive policy, which feeds *)
(* on the latencies of the edge and which the engine is not given.         *)
(*                                                                         *)
(* Scores are in units of 1/10000; the latencies and limits a model gives  *)
(* make their quotients exact.                                             *)
(***************************************************************************)
EXTENDS Integers, FiniteSetsExt

CONSTANTS
    EdgeNodes,      \* nodes that report
    Nobody,         \* a requesting_node_id that names no reporting node
    Loads,          \* reports: [cpu, memory, latency]
    Tasks,          \* task ids, which clients may choose, and use again
    Requests,       \* what a task may ask: [from, large, limit]
    Asked,          \* what the tasks submitted in the model ask
    StaleAfter,     \* ticks after which a report is out of date
    NoPlacement     \* of an id that was never placed

ASSUME SchedulerAssumption ==
    /\ Loads \subseteq [cpu : Nat, memory : Nat, latency : Nat]
    /\ Requests \subseteq [from : EdgeNodes \cup {Nobody}, large : BOOLEAN, limit : Nat \ {0}]
    /\ Asked \subseteq Requests
    /\ StaleAfter \in Nat
    /\ Nobody \notin EdgeNodes /\ "cloud" \notin EdgeNodes

VARIABLES
    report,      \* last report of each node and its age; none yet: age -1
    queue,       \* _task_queue: what each id in it asks, the last time if twice
    placement,   \* _results: of each id the last placement
    trend,       \* the adaptive policy: class of the moving average
    threshold    \* ... and its CPU threshold

engineVars   == <<report, queue, placement>>
adaptiveVars == <<trend, threshold>>
schedulerVars == <<engineVars, adaptiveVars>>

Classes == 1..4     \* average / SLA: < 0.5, <= 0.9, <= 1, > 1; 0: no observation

NothingQueued == [t \in {} |-> NoPlacement]
Queued == DOMAIN queue

SchedulerInit ==
    /\ report = [n \in EdgeNodes |-> [load |-> CHOOSE load \in Loads : TRUE, age |-> -1]]
    /\ queue = NothingQueued
    /\ placement = [t \in Tasks |-> NoPlacement]
    /\ trend = 0
    /\ threshold = 80

(***************************************************************************)
(* ResourceMonitor                                                         *)
(***************************************************************************)
ReportLoad(n, load) ==
    /\ report' = [report EXCEPT ![n] = [load |-> load, age |-> 0]]
    /\ UNCHANGED <<queue, placement, adaptiveVars>>

TimePasses ==
    /\ \E n \in EdgeNodes : report[n].age \in 0..StaleAfter
    /\ report' = [n \in EdgeNodes |->
           IF report[n].age \in 0..StaleAfter THEN [report[n] EXCEPT !.age = @ + 1]
           ELSE report[n]]
    /\ UNCHANGED <<queue, placement, adaptiveVars>>

\* Fault: reports are used however old they are.
ResourceMap_all == {n \in EdgeNodes : report[n].age >= 0}
ResourceMap == {n \in EdgeNodes : report[n].age \in 0..StaleAfter}

(***************************************************************************)
(* Policies.  Each gives a set: nodes of equal load come in the order in   *)
(* which they first reported, which the model leaves open.                 *)
(***************************************************************************)
Load(n)    == report[n].load
HasRoom(n) == Load(n).cpu <= 85 /\ Load(n).memory <= 90
RoomyNodes == {n \in ResourceMap : HasRoom(n)}

LeastLoaded(nodes) == {n \in nodes : \A m \in nodes : Load(n).cpu <= Load(m).cpu}
NearestOf(nodes, from) == IF from \in nodes THEN {from} ELSE LeastLoaded(nodes)

Cloud(score) == [on |-> "cloud", score |-> score]

LatencyFirst(q) ==
    CASE ResourceMap = {} -> {Cloud(3000)}
      [] RoomyNodes = {}  -> {Cloud(3500)}
      [] OTHER -> {[on |-> n, score |-> IF n = q.from THEN 9000 ELSE 8000] :
                       n \in NearestOf(RoomyNodes, q.from)}

CostAware(q) ==
    IF ~ q.large /\ RoomyNodes # {}
    THEN {[on |-> n, score |-> IF n = q.from THEN 8500 ELSE 7500] :
              n \in NearestOf(RoomyNodes, q.from)}
    ELSE {Cloud(IF ResourceMap = {} THEN 6000 ELSE 5500)}

\* latency_weight 0.6 and cost_weight 0.4.
LatencyScore(latency, limit) ==
    IF latency >= limit THEN 0 ELSE (6000 * (limit - latency)) \div limit
EdgeScore(n, q) ==
    LatencyScore(IF Load(n).latency > 0 THEN Load(n).latency ELSE 10, q.limit)
        + IF q.large THEN 2000 ELSE 3600
CloudScore(q) == LatencyScore(50, q.limit) + IF q.large THEN 2800 ELSE 1200

Balanced(q) ==
    LET best == Max({-1} \cup {EdgeScore(n, q) : n \in RoomyNodes})
    IN  IF best >= CloudScore(q)
        THEN {[on |-> n, score |-> best] : n \in {m \in RoomyNodes : EdgeScore(m, q) = best}}
        ELSE {Cloud(CloudScore(q))}

\* The highest score; of equal ones that of the policy named first.
Placements(q) ==
    UNION {IF l.score >= c.score /\ l.score >= b.score THEN {l}
           ELSE IF c.score >= b.score THEN {c} ELSE {b} :
               l \in LatencyFirst(q), c \in CostAware(q), b \in Balanced(q)}

(***************************************************************************)
(* SchedulerEngine: POST /tasks, the queue, and the loop that drains it,   *)
(* which between two tasks does not yield to anyone: of entries with one   *)
(* id nobody sees a placement but that of the last.  An id that has been   *)
(* placed or queued before may come again and is placed anew.              *)
(***************************************************************************)
SubmitTask(t, q) ==
    /\ \E p \in Placements(q) : placement' = [placement EXCEPT ![t] = p]
    /\ UNCHANGED <<report, queue, adaptiveVars>>

EnqueueTask(t, q) ==
    /\ queue' = [u \in Queued \cup {t} |-> IF u = t THEN q ELSE queue[u]]
    /\ UNCHANGED <<report, placement, adaptiveVars>>

DrainQueue ==
    /\ Queued # {}
    /\ queue' = NothingQueued
    /\ \E placed \in [Queued -> UNION {Placements(queue[t]) : t \in Queued}] :
           /\ \A t \in Queued : placed[t] \in Placements(queue[t])
           /\ placement' = [t \in Tasks |-> IF t \in Queued THEN placed[t] ELSE placement[t]]
    /\ UNCHANGED <<report, adaptiveVars>>

(***************************************************************************)
(* AdaptiveScheduler.  A new average lies between the old one and the      *)
(* observation; its class is all that the policy looks at.                 *)
(***************************************************************************)
RecordLatency(seen) ==
    /\ \E average \in Classes :
          /\ IF trend = 0 THEN average = seen
             ELSE average \in Min({trend, seen})..Max({trend, seen})
          /\ trend' = average
          /\ threshold' = CASE average = 1 -> Min({90, threshold + 1})
                            [] average > 2 -> Max({60, threshold - 2})
                            [] OTHER       -> threshold
    /\ UNCHANGED engineVars

Spare(n) == Load(n).cpu <= threshold /\ Load(n).memory <= 90
AdaptivePlacement(from) ==
    LET spare == {n \in ResourceMap : Spare(n)}
    IN  IF spare = {} \/ trend = 4 THEN {"cloud"} ELSE NearestOf(spare, from)

\* Only an inference on the edge has a latency to record.
ServeAdaptively ==
    /\ \E from \in EdgeNodes, n \in EdgeNodes : n \in AdaptivePlacement(from)
    /\ \E seen \in Classes : RecordLatency(seen)

EngineNext ==
    \/ \E n \in EdgeNodes, load \in Loads : ReportLoad(n, load)
    \/ TimePasses
    \/ \E t \in Tasks, q \in Asked : SubmitTask(t, q) \/ EnqueueTask(t, q)
    \/ DrainQueue

SchedulerNext == EngineNext \/ ServeAdaptively

\* The loop drains the queue at a fixed interval.
SchedulerFairness == WF_schedulerVars(DrainQueue)
SchedulerSpec == SchedulerInit /\ [][SchedulerNext]_schedulerVars /\ SchedulerFairness

\* The adaptive policy as its module means it to be used: reports keep coming
\* and whatever is placed on the edge reports its latency.
AdaptiveNext == ServeAdaptively \/ \E n \in EdgeNodes, load \in Loads : ReportLoad(n, load)
AdaptiveSpec ==
    /\ SchedulerInit
    /\ [][AdaptiveNext]_schedulerVars
    /\ WF_schedulerVars(ServeAdaptively)
    /\ \A n \in EdgeNodes : WF_schedulerVars(\E load \in Loads : ReportLoad(n, load))

-----------------------------------------------------------------------------
(***************************************************************************)
(* What it must do.                                                        *)
(***************************************************************************)

\* LatencyFirstPolicy: "falls back to cloud only when every known edge node is
\* overloaded".  Of three policies together that is true of every small task,
\* and of a large one as long as the node that asks has room itself.
CloudOnlyWhenItMust ==
    \A q \in Requests : \A p \in Placements(q) :
        p.on = "cloud" => RoomyNodes = {} \/ (q.large /\ q.from \notin RoomyNodes)

\* Whenever an id gets another placement or leaves the queue: it goes to a node
\* that has room by a report that is not out of date, at the moment the task is
\* placed and not when it was queued, however often the id has been used.
PlacementsHaveRoom ==
    [][\A t \in Tasks : placement'[t] # placement[t] \/ t \in Queued \ Queued' =>
           \/ placement'[t].on = "cloud"
           \/ /\ report[placement'[t].on].age \in 0..StaleAfter
              /\ HasRoom(placement'[t].on)]_schedulerVars

\* A queued task leaves the queue placed, whatever the nodes report or do not.
QueuedTasksArePlaced ==
    \A t \in Tasks : t \in Queued ~> t \notin Queued /\ placement[t] # NoPlacement

\* AdaptiveScheduler: it shifts "new tasks to the cloud until conditions
\* improve": an average above the SLA does not last for ever.
ShiftsBack == trend = 4 ~> trend # 4

\* A task is where the policies say, and where there was room for it.
PlacementsAreJustified == []CloudOnlyWhenItMust /\ PlacementsHaveRoom

=============================================================================
