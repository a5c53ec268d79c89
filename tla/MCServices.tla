------------------------------ MODULE MCServices ------------------------------
(***************************************************************************)
(* The services beside the stream in one run: the two job engines, the     *)
(* telemetry of cloud-api and its model registry, firmware rollouts and    *)
(* task placement.  They share nothing, so the order of one's steps        *)
(* against another's matters to no property: a behaviour takes the         *)
(* requests of one of them while the others are idle.                      *)
(***************************************************************************)
EXTENDS BatchJobs, TrainingJobs, CloudStore, OTARollout, Scheduler

VARIABLE service    \* the one that gets the requests; fixed

\* Readings are numbers and were taken in their order; the batches do not
\* arrive in it.
ThreeReadings == 1..3
Taken         == [r \in ThreeReadings |-> r]
TwoSenders    == <<<<{2}>>, <<{3}, {1}>>>>
AnyFailure    == {CloudDisruptions, CloudDisruptions \ {"ties"}, {}}

CONSTANTS n1, n2
TwoNodes      == <<n1, n2>>
AnyOtaFailure == {{"redis", "crash"}, {"overlap"}, {}}

\* An idle node, one at the limits, one above that of its CPU, one above that
\* of its memory.  A limit is below, between and above the latencies.
SomeLoads    == {[cpu |-> 20, memory |-> 50, latency |-> 0],
                 [cpu |-> 85, memory |-> 90, latency |-> 60],
                 [cpu |-> 86, memory |-> 50, latency |-> 0],
                 [cpu |-> 20, memory |-> 91, latency |-> 0]}
SomeRequests == [from : {n1, Nobody}, large : BOOLEAN, limit : {20, 100, 1000}]
AskedInRun   == {[from |-> n1, large |-> FALSE, limit |-> 1000],
                 [from |-> Nobody, large |-> TRUE, limit |-> 100]}

Services == {"batch", "training", "telemetry", "registry", "rollout", "placement"}

allVars == <<batchVars, training, cloudVars, otaVars, schedulerVars, service>>

\* A service that is idle starts in one state only.
Init ==
    /\ service \in Services
    /\ BatchInit
    /\ TrainInit
    /\ service = "training" \/ \A t \in Trainings : training[t].asked = 0
    /\ CloudInit
    /\ service \in {"telemetry", "registry"} \/ cloudFaults = {}
    /\ OtaInit
    /\ service = "rollout" \/ otaFaults = {}
    /\ SchedulerInit

OnlyBatch     == UNCHANGED <<training, cloudVars, otaVars, schedulerVars>>
OnlyTraining  == UNCHANGED <<batchVars, cloudVars, otaVars, schedulerVars>>
OnlyCloud     == UNCHANGED <<batchVars, training, otaVars, schedulerVars>>
OnlyRollout   == UNCHANGED <<batchVars, training, cloudVars, schedulerVars>>
OnlyPlacement == UNCHANGED <<batchVars, training, cloudVars, otaVars>>

Next ==
    /\ UNCHANGED service
    /\ \/ service = "batch" /\ BatchNext /\ OnlyBatch
       \/ service = "training" /\ TrainNext /\ OnlyTraining
       \/ service = "telemetry" /\ TelemetryNext /\ OnlyCloud
       \/ service = "registry" /\ RegistryNext /\ OnlyCloud
       \/ service = "rollout" /\ OtaNext /\ OnlyRollout
       \/ service = "placement" /\ EngineNext /\ OnlyPlacement

Spec ==
    /\ Init
    /\ [][Next]_allVars
    /\ BatchFairness
    /\ TrainFairness
    /\ OtaFairness
    /\ SchedulerFairness

(***************************************************************************)
(* Jobs, trainings, rollouts and queued tasks come to an end.              *)
(***************************************************************************)
EverythingEnds ==
    JobsReachAVerdict /\ TrainingsEnd /\ RolloutsEnd /\ QueuedTasksArePlaced

=============================================================================
