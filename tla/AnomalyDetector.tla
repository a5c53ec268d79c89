--------------------------- MODULE AnomalyDetector ---------------------------
(***************************************************************************)
(* ml-inference's stream consumers: each reads raw_telemetry as a member   *)
(* of the ml_inference group, scores a whole batch with the loaded model   *)
(* and sends one pipeline: an XADD to the alerts stream for every reading  *)
(* above the threshold, then one XACK for the batch.                       *)
(*                                                                         *)
(* The pipeline is not a transaction (transaction=False): the server may   *)
(* have executed any prefix of it when the connection breaks, and the      *)
(* commands of two replicas interleave.                                    *)
(***************************************************************************)
EXTENDS ConsumerGroup

CONSTANTS
    Detectors,     \* the replicas of the service
    DetectScenarios  \* sets of disruptions; a behaviour meets those of one

DetectDisruptions ==
    {"malformed", "read_lost", "pipeline_lost", "xadd_refused",
     "no_model", "stop", "crash", "evict"}

ASSUME DetectorAssumption == DetectScenarios \subseteq SUBSET DetectDisruptions

VARIABLES
    pc,         \* where each detector is
    loaded,     \* InferenceEngine.is_loaded
    batch,      \* entry_ids: the entries of the last XREADGROUP
    queued,     \* readings whose XADD is in the pipeline, not executed yet
    flagged,    \* readings that were scored above anomaly_threshold (history)
    alerts,     \* how many alerts were published for each reading
    detectFaults  \* what this environment may do besides working; fixed

detectorVars == <<pc, loaded, batch, queued>>
detectDataVars == <<streamVars, groupVars, detectorVars, flagged, alerts>>
detectVars == <<detectDataVars, detectFaults>>

NoBatch == [first |-> 1, last |-> 0]
Phases  == {"read", "score", "publish", "reply", "down"}
Running == Phases \ {"down"}

EntriesIn(d) == batch[d].first .. batch[d].last
ReadingsIn(d) == EntriesIn(d) \ malformed
Alerted == {e \in EntryIds : alerts[e] > 0}

DetectTypeOK ==
    /\ StreamTypeOK
    /\ GroupTypeOK
    /\ pc \in [Detectors -> Phases]
    /\ loaded \in [Detectors -> BOOLEAN]
    /\ batch \in [Detectors -> [first : Nat \ {0}, last : 0..MaxEntries]]
    /\ queued \in [Detectors -> SUBSET EntryIds]
    /\ flagged \subseteq EntryIds
    /\ alerts \in [EntryIds -> Nat]
    /\ \A d \in Detectors : queued[d] \subseteq ReadingsIn(d) \cap flagged
    /\ detectFaults \in DetectScenarios

\* load_initial_model finds a model file, or logs that there is none.
DetectInit ==
    /\ StreamInit
    /\ GroupInit
    /\ detectFaults \in DetectScenarios
    /\ pc = [d \in Detectors |-> "read"]
    /\ loaded \in [Detectors -> BOOLEAN]
    /\ "no_model" \in detectFaults \/ loaded = [d \in Detectors |-> TRUE]
    /\ batch = [d \in Detectors |-> NoBatch]
    /\ queued = [d \in Detectors |-> {}]
    /\ flagged = {}
    /\ alerts = [e \in EntryIds |-> 0]

Goto(d, phase) == pc' = [pc EXCEPT ![d] = phase]

\* What the loop, or the process, held of the batch is gone.
DropBatch(d) ==
    /\ batch' = [batch EXCEPT ![d] = NoBatch]
    /\ queued' = [queued EXCEPT ![d] = {}]

-----------------------------------------------------------------------------
Ingest(bad) ==
    /\ bad => "malformed" \in detectFaults
    /\ StreamAdd(bad)
    /\ UNCHANGED <<groupVars, detectorVars, flagged, alerts>>

\* Out of memory.
Evict ==
    /\ "evict" \in detectFaults
    /\ EvictStream
    /\ UNCHANGED <<detectorVars, flagged, alerts>>

\* data-ingestion starts again: its lifespan creates missing groups, too.
IngestionStarts ==
    /\ ~group /\ EnsureGroup
    /\ UNCHANGED <<streamVars, detectorVars, flagged, alerts>>

ReadBatch(d) ==
    /\ pc[d] = "read"
    /\ Deliver
    /\ batch' = [batch EXCEPT ![d] =
                    [first |-> FirstUnread(lastDelivered),
                     last  |-> LastOfBatch(lastDelivered, BatchSize)]]
    /\ Goto(d, "score")
    /\ UNCHANGED <<streamVars, loaded, queued, flagged, alerts>>

\* The block expires: the loop asks again.
ReadNothing(d) ==
    /\ pc[d] = "read"
    /\ NothingToDeliver
    /\ UNCHANGED detectDataVars

\* NOGROUP, and again at the next read.
ReadRefused(d) ==
    /\ pc[d] = "read" /\ ~group
    /\ UNCHANGED detectDataVars

\* The handler logs and sleeps; nobody reads these entries again.
ReadReplyLost(d) ==
    /\ "read_lost" \in detectFaults
    /\ pc[d] = "read"
    /\ Deliver
    /\ UNCHANGED <<streamVars, detectorVars, flagged, alerts>>

(***************************************************************************)
(* Parsing, feature extraction, the engine's one call and the assembly of  *)
(* the pipeline, with no await in between.  Entries that do not parse are  *)
(* left out of the scoring and acknowledged with the others.  Which        *)
(* readings score above the threshold is the model's business.             *)
(***************************************************************************)
\* Fault: the loop over the scores stops at the first one below the threshold.
ScoreBatch_break(d) ==
    /\ pc[d] = "score"
    /\ loaded[d] \/ ReadingsIn(d) = {}
    /\ \E hot \in SUBSET ReadingsIn(d) :
          /\ queued' = [queued EXCEPT ![d] =
                          {e \in hot : \A f \in ReadingsIn(d) : f < e => f \in hot}]
          /\ flagged' = flagged \cup hot
    /\ Goto(d, "publish")
    /\ UNCHANGED <<streamVars, groupVars, loaded, batch, alerts>>

ScoreBatch(d) ==
    /\ pc[d] = "score"
    /\ loaded[d] \/ ReadingsIn(d) = {}
    /\ \E hot \in SUBSET ReadingsIn(d) :
          /\ queued' = [queued EXCEPT ![d] = hot]
          /\ flagged' = flagged \cup hot
    /\ Goto(d, "publish")
    /\ UNCHANGED <<streamVars, groupVars, loaded, batch, alerts>>

\* predict raises "No model loaded": the loop drops the batch and goes on.
ScoreFails(d) ==
    /\ pc[d] = "score"
    /\ ~loaded[d] /\ ReadingsIn(d) # {}
    /\ DropBatch(d)
    /\ Goto(d, "read")
    /\ UNCHANGED <<streamVars, groupVars, loaded, flagged, alerts>>

-----------------------------------------------------------------------------
(***************************************************************************)
(* The pipeline, command by command, in the order it was filled.           *)
(***************************************************************************)
NextAlert(d, e) == e \in queued[d] /\ \A f \in queued[d] : e <= f

PublishAlert(d) ==
    /\ pc[d] = "publish"
    /\ \E e \in EntryIds :
          /\ NextAlert(d, e)
          /\ alerts' = [alerts EXCEPT ![e] = @ + 1]
          /\ queued' = [queued EXCEPT ![d] = @ \ {e}]
    /\ UNCHANGED <<streamVars, groupVars, pc, loaded, batch, flagged>>

\* Redis answers one XADD with an error and executes the rest all the same.
AlertRefused(d) ==
    /\ "xadd_refused" \in detectFaults
    /\ pc[d] = "publish"
    /\ \E e \in EntryIds :
          NextAlert(d, e) /\ queued' = [queued EXCEPT ![d] = @ \ {e}]
    /\ UNCHANGED <<streamVars, groupVars, pc, loaded, batch, flagged, alerts>>

\* Fault: the XACK is put into the pipeline before the alerts.
AckBatch_first(d) ==
    /\ pc[d] = "publish"
    /\ Ack(EntriesIn(d))
    /\ IF queued[d] = {} THEN Goto(d, "reply") ELSE pc' = pc
    /\ UNCHANGED <<streamVars, loaded, batch, queued, flagged, alerts>>

AckBatch(d) ==
    /\ pc[d] = "publish"
    /\ queued[d] = {}
    /\ Ack(EntriesIn(d))
    /\ Goto(d, "reply")
    /\ UNCHANGED <<streamVars, loaded, batch, queued, flagged, alerts>>

PipelineReply(d) ==
    /\ pc[d] = "reply"
    /\ DropBatch(d)
    /\ Goto(d, "read")
    /\ UNCHANGED <<streamVars, groupVars, loaded, flagged, alerts>>

\* The connection breaks after some prefix: log, sleep, read the next batch.
PipelineLost(d) ==
    /\ "pipeline_lost" \in detectFaults
    /\ pc[d] \in {"publish", "reply"}
    /\ DropBatch(d)
    /\ Goto(d, "read")
    /\ UNCHANGED <<streamVars, groupVars, loaded, flagged, alerts>>

-----------------------------------------------------------------------------
\* POST /models/reload puts a first model into the engine.
ModelArrives(d) ==
    /\ pc[d] \in Running /\ ~loaded[d]
    /\ loaded' = [loaded EXCEPT ![d] = TRUE]
    /\ UNCHANGED <<streamVars, groupVars, pc, batch, queued, flagged, alerts>>

(***************************************************************************)
(* The lifespan's shutdown cancels the consumer task right after stop(),   *)
(* so the batch in hand is cut off wherever it is, as in a crash.          *)
(***************************************************************************)
Leave(d) ==
    /\ detectFaults \cap {"stop", "crash"} # {}
    /\ pc[d] \in Running
    /\ DropBatch(d)
    /\ Goto(d, "down")
    /\ UNCHANGED <<streamVars, groupVars, loaded, flagged, alerts>>

Restart(d) ==
    /\ pc[d] = "down"
    /\ \E m \in BOOLEAN :
          /\ m \/ "no_model" \in detectFaults
          /\ loaded' = [loaded EXCEPT ![d] = m]
    /\ Goto(d, "read")
    /\ EnsureGroup
    /\ UNCHANGED <<streamVars, batch, queued, flagged, alerts>>

-----------------------------------------------------------------------------
DetectorStep(d) ==
    \/ ReadBatch(d) \/ ReadNothing(d) \/ ScoreBatch(d) \/ ScoreFails(d)
    \/ PublishAlert(d) \/ AckBatch(d) \/ PipelineReply(d)

DetectorFailure(d) ==
    ReadReplyLost(d) \/ ReadRefused(d) \/ AlertRefused(d) \/ PipelineLost(d)

DetectStep ==
    \/ \E bad \in BOOLEAN : Ingest(bad)
    \/ Evict \/ IngestionStarts
    \/ \E d \in Detectors :
          \/ DetectorStep(d) \/ DetectorFailure(d)
          \/ ModelArrives(d) \/ Leave(d) \/ Restart(d)

DetectNext == DetectStep /\ UNCHANGED detectFaults

DetectSpec == DetectInit /\ [][DetectNext]_detectVars

(***************************************************************************)
(* Fairness: the event loop runs the detector from await to await, and     *)
(* every await on Redis ends.                                              *)
(***************************************************************************)
DetectFairness ==
    \A d \in Detectors : WF_detectDataVars(DetectorStep(d) \/ DetectorFailure(d))

-----------------------------------------------------------------------------
(***************************************************************************)
(* An acknowledged reading that scored above the threshold has its alert:  *)
(* the XACK is the last command of the pipeline, so no broken connection,  *)
(* cancellation or crash acknowledges a reading before its alert is out.   *)
(* A refused XADD is the exception: pipe.execute() raises, but the server  *)
(* has executed the XACK all the same.                                     *)
(***************************************************************************)
AckedIsAlerted ==
    "xadd_refused" \notin detectFaults => acked \cap flagged \subseteq Alerted

(***************************************************************************)
(* No reading raises two alerts, whatever is retried, restarted or shared  *)
(* between replicas: an operator is not paged twice for one anomaly.       *)
(***************************************************************************)
AlertedOnce == \A e \in EntryIds : alerts[e] <= 1

\* One alert for a reading that needs one and is done with.
AlertsAreExact == AckedIsAlerted /\ AlertedOnce

(***************************************************************************)
(* Without failures a delivered entry is eventually acknowledged, whether  *)
(* or not it parses or the stream is evicted behind it, and a reading that *)
(* scored above the threshold has an alert by then: "runs batched ONNX     *)
(* inference, and publishes alerts for anomalous readings" (the class's    *)
(* docstring).                                                             *)
(***************************************************************************)
DeliveredIsEventuallyHandled ==
    detectFaults \subseteq {"malformed", "evict"} =>
        \A e \in EntryIds :
            (e \in pel) ~> (e \in acked /\ (e \in flagged => e \in Alerted))

=============================================================================
