--------------------------- MODULE Services_proofs ---------------------------
(***************************************************************************)
(* Proofs about the services beside the stream, each for any value of its  *)
(* constants: batch analytics, model training, firmware rollouts,          *)
(* cloud-api's telemetry and model registry, and task placement.            *)
(***************************************************************************)
EXTENDS BatchJobs, TrainingJobs, OTARollout, CloudStore, Scheduler,
        FiniteSetTheorems, FunctionTheorems, SequenceTheorems, WellFoundedInduction, TLAPS

(***************************************************************************)
(* Batch jobs, for any set of jobs and any size of the pool: however the   *)
(* thread of a job and the event loop interleave, results and verdicts     *)
(* belong together.                                                        *)
(***************************************************************************)
BatchTypeOK ==
    /\ job \in [Jobs -> {"absent", "pending", "running"} \cup Ended]
    /\ thread \in [Jobs -> {"none", "queued", "done"} \cup OnAThread]
    /\ results \subseteq Jobs
    /\ cancelledAt \in [Jobs -> {"none", "queued", "done"} \cup OnAThread]

(***************************************************************************)
(* The inductive invariant.  A result exists only once its thread is past  *)
(* the place where it reads the status; a job marked before that place     *)
(* keeps its mark, because the thread writes "running" earlier and nothing *)
(* else until it has read the status.                                      *)
(***************************************************************************)
JobInv(j) ==
    /\ job[j] = "absent" <=> thread[j] = "none"
    /\ j \in results => thread[j] \in {"stored", "done"}
    /\ thread[j] = "stored" => j \in results
    /\ job[j] = "completed" => j \in results
    /\ cancelledAt[j] \in AtWork =>
          /\ job[j] = "cancelled"
          /\ j \notin results
          /\ thread[j] \in AtWork \cup {"done"}
    /\ cancelling = j => job[j] # "absent"
    /\ job[j] = "cancelled" => cancelledAt[j] # "none"

BatchInv == BatchTypeOK /\ \A j \in Jobs : JobInv(j)

LEMMA BatchInvInit == BatchInit => BatchInv
BY JobsAssumption DEF BatchInit, BatchInv, BatchTypeOK, JobInv, AtWork

\* A step of the thread of one job leaves the records of the others alone.
LEMMA BatchInvThread ==
    ASSUME BatchInv, NEW j \in Jobs, ThreadStep(j)
    PROVE  BatchInv'
<1> USE DEF BatchInv, BatchTypeOK, JobInv, AtWork, OnAThread, Ended
<1>1. CASE StartJob(j)
  BY <1>1 DEF StartJob
<1>2. CASE RunSpark(j)
  BY <1>2 DEF RunSpark
<1>3. CASE CheckCancelled(j)
  BY <1>3 DEF CheckCancelled
<1>4. CASE StoreResult(j)
  BY <1>4 DEF StoreResult
<1>5. CASE CompleteJob(j)
  BY <1>5 DEF CompleteJob
<1>6. CASE FailJob(j)
  BY <1>6 DEF FailJob
<1> QED
  BY <1>1, <1>2, <1>3, <1>4, <1>5, <1>6 DEF ThreadStep

LEMMA BatchInvLoop ==
    ASSUME BatchInv, NEW j \in Jobs,
           SubmitJob(j) \/ CheckCancellable(j) \/ MarkCancelled(j)
    PROVE  BatchInv'
<1> USE DEF BatchInv, BatchTypeOK, JobInv, AtWork, OnAThread, Ended
<1>1. CASE SubmitJob(j)
  BY <1>1 DEF SubmitJob
<1>2. CASE CheckCancellable(j)
  BY <1>2 DEF CheckCancellable
<1>3. CASE MarkCancelled(j)
  BY <1>3, JobsAssumption DEF MarkCancelled
<1> QED
  BY <1>1, <1>2, <1>3

LEMMA BatchInvAlways == BatchSpec => []BatchInv
<1>1. BatchInit => BatchInv
  BY BatchInvInit
<1>2. BatchInv /\ [BatchNext]_batchVars => BatchInv'
  <2> SUFFICES ASSUME BatchInv, [BatchNext]_batchVars  PROVE BatchInv'
    OBVIOUS
  <2>1. ASSUME NEW j \in Jobs,
               SubmitJob(j) \/ CheckCancellable(j) \/ MarkCancelled(j)
        PROVE  BatchInv'
    BY <2>1, BatchInvLoop
  <2>2. ASSUME NEW j \in Jobs, ThreadStep(j)  PROVE BatchInv'
    BY <2>2, BatchInvThread
  <2>3. CASE UNCHANGED batchVars
    BY <2>3 DEF batchVars, BatchInv, BatchTypeOK, JobInv
  <2> QED
    BY <2>1, <2>2, <2>3 DEF BatchNext
<1> QED
  BY <1>1, <1>2, PTL DEF BatchSpec

(***************************************************************************)
(* A completed job has its result, and a job cancelled while its Spark     *)
(* work runs stays cancelled and leaves none ("the thread will check the   *)
(* status flag and stop at the next safe point"), without any lock.        *)
(***************************************************************************)
THEOREM ResultsAndVerdictsMatch == BatchSpec => []ResultsMatchVerdicts
<1>1. BatchInv => ResultsMatchVerdicts
  BY DEF BatchInv, BatchTypeOK, JobInv, ResultsMatchVerdicts, NoMissingResult,
         CancelledWorkIsDropped, ResultResponse, Ended
<1> QED
  BY <1>1, BatchInvAlways, PTL

(***************************************************************************)
(* Thread and loop take the steps of JobLifecycle.                         *)
(***************************************************************************)
LEMMA WorkerTypes ==
    ASSUME BatchInv, NEW j \in Jobs
    PROVE  /\ thread[j] = "none" => WorkerOfJob(j) = "none"
           /\ thread[j] = "queued" => WorkerOfJob(j) = "waiting"
           /\ thread[j] \in OnAThread => WorkerOfJob(j) = "working"
           /\ thread[j] = "done" => WorkerOfJob(j) = "ended"
BY DEF WorkerOfJob, OnAThread

\* What is read off the state when one thread moves.
LEMMA OneWorkerMoves ==
    ASSUME BatchInv, NEW j \in Jobs, NEW place,
           thread' = [thread EXCEPT ![j] = place]
    PROVE  [i \in Jobs |-> WorkerOfJob(i)]' =
               [[i \in Jobs |-> WorkerOfJob(i)] EXCEPT ![j] = WorkerOfJob(j)']
<1>1. ASSUME NEW i \in Jobs, i # j  PROVE WorkerOfJob(i)' = WorkerOfJob(i)
  <2>1. thread'[i] = thread[i]
    BY <1>1 DEF BatchInv, BatchTypeOK
  <2> QED
    BY <2>1 DEF WorkerOfJob
<1> QED
  BY <1>1

LEMMA BatchStepInLifecycle ==
    ASSUME BatchInv, BatchInv', NEW j \in Jobs,
           \/ SubmitJob(j) \/ CheckCancellable(j) \/ MarkCancelled(j) \/ ThreadStep(j)
    PROVE  \/ BatchLifecycle!JobStep(j)
           \/ UNCHANGED BatchLifecycle!vars
<1> DEFINE W == [i \in Jobs |-> WorkerOfJob(i)]
           C == {i \in Jobs : cancelling = i}
           M == {i \in Jobs : cancelledAt[i] # "none"}
<1>0. thread \in [Jobs -> {"none", "queued", "done"} \cup OnAThread]
  BY DEF BatchInv, BatchTypeOK
<1>1. CASE SubmitJob(j)
  <2>0. thread[j] = "none" /\ thread'[j] = "queued"
    BY <1>1, <1>0 DEF SubmitJob, BatchInv, JobInv
  <2>1. W[j] = "none" /\ WorkerOfJob(j)' = "waiting"
    BY <2>0 DEF WorkerOfJob, OnAThread
  <2>2. W' = [W EXCEPT ![j] = "waiting"] /\ UNCHANGED <<results, C, M>>
    BY <1>1, <2>1, OneWorkerMoves DEF SubmitJob
  <2>3. BatchLifecycle!Submit(j)
    BY <1>1, <2>1, <2>2 DEF BatchLifecycle!Submit, SubmitJob
  <2> QED
    BY <2>3 DEF BatchLifecycle!JobStep
<1>2. CASE CheckCancellable(j)
  <2>1. UNCHANGED <<job, W, results, M>>
    BY <1>2 DEF CheckCancellable, WorkerOfJob
  <2>2. C' = C \cup {j}
    BY <1>2, JobsAssumption DEF CheckCancellable
  <2>3. BatchLifecycle!CheckCancel(j)
    BY <1>2, <2>1, <2>2 DEF BatchLifecycle!CheckCancel, CheckCancellable
  <2> QED
    BY <2>3 DEF BatchLifecycle!JobStep
<1>3. CASE MarkCancelled(j)
  <2>1. UNCHANGED <<W, results>>
    BY <1>3 DEF MarkCancelled, WorkerOfJob
  <2>2. j \in C /\ C' = C \ {j}
    BY <1>3, JobsAssumption DEF MarkCancelled
  <2>3. M' = M \cup {j}
    <3>1. thread[j] # "none"
      BY <1>3 DEF MarkCancelled, BatchInv, JobInv
    <3> QED
      BY <1>3, <3>1 DEF MarkCancelled, BatchInv, BatchTypeOK
  <2>4. BatchLifecycle!MarkCancel(j)
    BY <1>3, <2>1, <2>2, <2>3 DEF BatchLifecycle!MarkCancel, MarkCancelled
  <2> QED
    BY <2>4 DEF BatchLifecycle!JobStep
<1>4. CASE StartJob(j)
  <2>1. W[j] = "waiting" /\ WorkerOfJob(j)' = "working"
    BY <1>4, <1>0, WorkerTypes DEF StartJob, WorkerOfJob, OnAThread
  <2>2. W' = [W EXCEPT ![j] = "working"] /\ UNCHANGED <<results, C, M>>
    BY <1>4, <2>1, OneWorkerMoves DEF StartJob
  <2>3. BatchLifecycle!Begin(j)
    BY <1>4, <2>1, <2>2 DEF BatchLifecycle!Begin, StartJob
  <2> QED
    BY <2>3 DEF BatchLifecycle!JobStep
<1>5. CASE RunSpark(j)
  <2>1. PICK outcome \in {"computed", "raised"} : thread' = [thread EXCEPT ![j] = outcome]
    BY <1>5 DEF RunSpark
  <2>2. W[j] = "working" /\ WorkerOfJob(j)' = "working"
    BY <1>5, <1>0, <2>1, WorkerTypes DEF RunSpark, WorkerOfJob, OnAThread
  <2>3. W' = W
    BY <2>1, <2>2, OneWorkerMoves
  <2>4. UNCHANGED <<job, results, C, M>>
    BY <1>5 DEF RunSpark
  <2> QED
    BY <2>3, <2>4 DEF BatchLifecycle!vars
<1>6. CASE CheckCancelled(j) /\ job[j] = "cancelled"
  <2>1. thread' = [thread EXCEPT ![j] = "done"]
    BY <1>6 DEF CheckCancelled
  <2>2. W[j] = "working" /\ WorkerOfJob(j)' = "ended"
    BY <1>6, <1>0, <2>1, WorkerTypes DEF CheckCancelled, WorkerOfJob, OnAThread
  <2>3. W' = [W EXCEPT ![j] = "ended"] /\ UNCHANGED <<job, results, C, M>>
    BY <1>6, <2>1, <2>2, OneWorkerMoves DEF CheckCancelled
  <2>4. j \in M /\ j \notin results
    BY <1>6 DEF CheckCancelled, BatchInv, JobInv
  <2>5. BatchLifecycle!GiveUp(j)
    BY <2>2, <2>3, <2>4 DEF BatchLifecycle!GiveUp
  <2> QED
    BY <2>5 DEF BatchLifecycle!JobStep
<1>7. CASE CheckCancelled(j) /\ job[j] # "cancelled"
  <2>1. PICK place \in {"storing", "failing"} : thread' = [thread EXCEPT ![j] = place]
    BY <1>7 DEF CheckCancelled
  <2>2. W[j] = "working" /\ WorkerOfJob(j)' = "working"
    BY <1>7, <1>0, <2>1, WorkerTypes DEF CheckCancelled, WorkerOfJob, OnAThread
  <2>3. W' = W
    BY <2>1, <2>2, OneWorkerMoves
  <2>4. UNCHANGED <<job, results, C, M>>
    BY <1>7 DEF CheckCancelled
  <2> QED
    BY <2>3, <2>4 DEF BatchLifecycle!vars
<1>8. CASE StoreResult(j)
  <2>1. W[j] = "working" /\ WorkerOfJob(j)' = "working"
    BY <1>8, <1>0, WorkerTypes DEF StoreResult, WorkerOfJob, OnAThread
  <2>2. W' = W /\ UNCHANGED <<job, C, M>>
    BY <1>8, <2>1, OneWorkerMoves DEF StoreResult
  <2>3. BatchLifecycle!Produce(j)
    BY <1>8, <2>1, <2>2 DEF BatchLifecycle!Produce, StoreResult
  <2> QED
    BY <2>3 DEF BatchLifecycle!JobStep
<1>9. CASE CompleteJob(j)
  <2>1. W[j] = "working" /\ WorkerOfJob(j)' = "ended" /\ j \in results
    BY <1>9, <1>0, WorkerTypes DEF CompleteJob, BatchInv, JobInv, WorkerOfJob, OnAThread
  <2>2. W' = [W EXCEPT ![j] = "ended"] /\ UNCHANGED <<results, C, M>>
    BY <1>9, <2>1, OneWorkerMoves DEF CompleteJob
  <2>3. BatchLifecycle!Conclude(j)
    BY <1>9, <2>1, <2>2 DEF BatchLifecycle!Conclude, CompleteJob
  <2> QED
    BY <2>3 DEF BatchLifecycle!JobStep
<1>10. CASE FailJob(j)
  <2>1. W[j] = "working" /\ WorkerOfJob(j)' = "ended" /\ j \notin results
    BY <1>10, <1>0, WorkerTypes DEF FailJob, BatchInv, JobInv, WorkerOfJob, OnAThread
  <2>2. W' = [W EXCEPT ![j] = "ended"] /\ UNCHANGED <<results, C, M>>
    BY <1>10, <2>1, OneWorkerMoves DEF FailJob
  <2>3. BatchLifecycle!Conclude(j)
    BY <1>10, <2>1, <2>2 DEF BatchLifecycle!Conclude, FailJob
  <2> QED
    BY <2>3 DEF BatchLifecycle!JobStep
<1> QED
  BY <1>1, <1>2, <1>3, <1>4, <1>5, <1>6, <1>7, <1>8, <1>9, <1>10 DEF ThreadStep

(***************************************************************************)
(* The batch engine implements JobLifecycle, whatever the order in which   *)
(* threads and cancel requests reach a record; with what the engine        *)
(* promises beyond it this is all that BatchJobsBehave asks.               *)
(***************************************************************************)
THEOREM BatchJobsAlwaysBehave == BatchSpec => BatchJobsBehave
<1>1. BatchInit => BatchLifecycle!Init
  <2> SUFFICES ASSUME BatchInit  PROVE BatchLifecycle!Init
    OBVIOUS
  <2>1. ASSUME NEW j \in Jobs  PROVE WorkerOfJob(j) = "none"
    <3>1. thread[j] = "none"
      BY DEF BatchInit
    <3> QED
      BY <3>1 DEF WorkerOfJob, OnAThread
  <2>2. {j \in Jobs : cancelling = j} = {} /\ {j \in Jobs : cancelledAt[j] # "none"} = {}
    BY JobsAssumption DEF BatchInit
  <2> QED
    BY <2>1, <2>2 DEF BatchInit, BatchLifecycle!Init
<1>2. BatchInv /\ BatchInv' /\ [BatchNext]_batchVars =>
          [BatchLifecycle!Next]_(BatchLifecycle!vars)
  <2> SUFFICES ASSUME BatchInv, BatchInv', [BatchNext]_batchVars
               PROVE  BatchLifecycle!Next \/ UNCHANGED BatchLifecycle!vars
    OBVIOUS
  <2>1. CASE UNCHANGED batchVars
    BY <2>1 DEF batchVars, BatchLifecycle!vars, WorkerOfJob
  <2>2. CASE BatchNext
    BY <2>2, BatchStepInLifecycle DEF BatchNext, BatchLifecycle!Next
  <2> QED
    BY <2>1, <2>2
<1> QED
  BY <1>1, <1>2, BatchInvAlways, ResultsAndVerdictsMatch, PTL
  DEF BatchSpec, BatchJobsBehave, BatchLifecycle!Spec

-----------------------------------------------------------------------------
(***************************************************************************)
(* Training jobs.  What is true of a job at each place of its task and     *)
(* thread, whatever the loop does to it meanwhile.                         *)
(***************************************************************************)
TrainingPlaces ==
    {"nowhere", "loading", "starting", "building", "epoch", "training", "logging",
     "exporting", "exported", "completed", "failed", "done"}
TrainingRecord ==
    [status : {"absent", "pending", "running"} \cup Verdicts,
     experiment : {"absent", "pending", "running"} \cup Verdicts,
     at : TrainingPlaces,
     asked : Nat, epochs : Nat, metrics : Nat, split : [train : Nat, val : Nat],
     exported : BOOLEAN, stopping : BOOLEAN, cancel : {"none", "mark", "track"},
     marked : [at : TrainingPlaces, epochs : Nat]]

\* The thread counts an epoch before its metrics, and exports after the last.
EpochsInv(t) ==
    /\ t.at \in {"nowhere", "loading", "starting", "building"} => t.epochs = 0
    /\ t.at = "logging" => t.epochs = t.metrics + 1
    /\ t.at # "logging" => t.epochs = t.metrics
    /\ t.epochs <= t.asked
    /\ t.at = "training" => t.epochs < t.asked
    /\ t.at \in {"exporting", "exported", "completed"} => t.epochs = t.asked
    /\ t.at \in {"exported", "completed"} => t.exported
    /\ t.exported => t.epochs = t.asked /\ t.at \in {"exported", "completed", "done"}
    /\ t.at \notin {"nowhere", "loading"} => t.split.train > 0

\* A cancellation is marked in all places at once, and the epoch under way is
\* the last one that it lets through.
MarkedInv(t) ==
    /\ t.at = "nowhere" <=> t.status = "absent"
    /\ t.at = "nowhere" => t.cancel = "none"
    /\ t.stopping <=> t.marked # NotMarked
    /\ t.cancel = "track" => t.stopping
    /\ t.stopping => t.epochs <= t.marked.epochs + 1
    /\ t.stopping /\ t.at = "training" => t.epochs <= t.marked.epochs

VerdictInv(t) ==
    /\ t.status = "completed" => t.exported /\ t.at \in {"completed", "done"}
    /\ t.at \in {"completed", "failed"} /\ ~ t.stopping => t.status = t.at
    /\ t.at = "done" /\ ~ t.stopping => t.status = t.experiment

TrainingInv(t) == t \in TrainingRecord /\ EpochsInv(t) /\ MarkedInv(t) /\ VerdictInv(t)
TrainInv == /\ training \in [Trainings -> TrainingRecord]
            /\ \A j \in Trainings : TrainingInv(training[j])

LEMMA SplitHasRows ==
    ASSUME NEW n \in RowCounts
    PROVE  /\ (IF n = 0 THEN Synthetic ELSE SplitSizes(n)) \in [train : Nat, val : Nat]
           /\ (IF n = 0 THEN Synthetic ELSE SplitSizes(n)).train > 0
<1>1. n \in Nat
  BY TrainingAssumption
<1>2. CASE n = 0
  BY <1>2 DEF Synthetic
<1>3. CASE n = 1
  BY <1>3 DEF SplitSizes
<1>4. CASE n > 1
  <2>1. PICK idx \in Nat : idx = (n * 8) \div 10 /\ 0 < idx /\ idx < n
    BY <1>1, <1>4
  <2>2. SplitSizes(n) = [train |-> idx, val |-> n - idx]
    BY <2>1 DEF SplitSizes
  <2> QED
    BY <1>1, <1>4, <2>1, <2>2
<1> QED
  BY <1>1, <1>2, <1>3, <1>4

LEMMA TrainInvInit == TrainInit => TrainInv
<1> SUFFICES ASSUME NEW asked \in [Trainings -> EpochCounts],
                    training = [j \in Trainings |->
                        [status |-> "absent", experiment |-> "absent", at |-> "nowhere",
                         asked |-> asked[j], epochs |-> 0, metrics |-> 0,
                         split |-> [train |-> 0, val |-> 0], exported |-> FALSE,
                         stopping |-> FALSE, cancel |-> "none", marked |-> NotMarked]]
             PROVE  TrainInv
  BY DEF TrainInit
<1>1. ASSUME NEW j \in Trainings  PROVE TrainingInv(training[j])
  <2>1. PICK n \in Nat : n = asked[j]
    BY TrainingAssumption
  <2>2. PICK t : t = training[j]
    OBVIOUS
  <2>3. t = [status |-> "absent", experiment |-> "absent", at |-> "nowhere",
             asked |-> n, epochs |-> 0, metrics |-> 0,
             split |-> [train |-> 0, val |-> 0], exported |-> FALSE,
             stopping |-> FALSE, cancel |-> "none", marked |-> NotMarked]
    BY <2>1, <2>2
  <2>4. t \in TrainingRecord
    BY <2>3 DEF TrainingRecord, TrainingPlaces, NotMarked
  <2>5. EpochsInv(t)
    BY <2>3 DEF EpochsInv
  <2>6. MarkedInv(t)
    BY <2>3 DEF MarkedInv
  <2>7. VerdictInv(t)
    BY <2>3 DEF VerdictInv
  <2> QED
    BY <2>2, <2>4, <2>5, <2>6, <2>7 DEF TrainingInv
<1> QED
  BY <1>1 DEF TrainInv, TrainingInv

\* A step changes one job.
LEMMA OneTrainingMoves ==
    ASSUME TrainInv, NEW j \in Trainings, NEW new, TrainingInv(new),
           training' = [training EXCEPT ![j] = new]
    PROVE  TrainInv'
BY DEF TrainInv, TrainingInv

\* What holds of a job holds of it after a step of its thread.
LEMMA TrainingGoesOn ==
    ASSUME NEW t, TrainingInv(t), NEW new \in TrainingRecord,
           new.asked = t.asked, new.split = t.split, new.stopping <=> t.stopping,
           new.cancel = t.cancel, new.marked = t.marked,
           new.at # "nowhere", new.status # "absent", t.at # "nowhere",
           EpochsInv(new), VerdictInv(new),
           t.stopping => new.epochs <= t.marked.epochs + 1,
           t.stopping /\ new.at = "training" => new.epochs <= t.marked.epochs
    PROVE  TrainingInv(new)
BY DEF TrainingInv, MarkedInv

LEMMA TrainInvThread ==
    ASSUME TrainInv, NEW j \in Trainings, TrainingStep(j)
    PROVE  TrainInv'
<1>1. PICK t \in TrainingRecord : t = training[j]
  BY DEF TrainInv
<1>2. TrainingInv(t) /\ training \in [Trainings -> TrainingRecord]
  BY <1>1 DEF TrainInv
<1>3. EpochsInv(t) /\ MarkedInv(t) /\ VerdictInv(t)
  BY <1>2 DEF TrainingInv
<1>4. t.epochs \in Nat /\ t.metrics \in Nat /\ t.asked \in Nat /\ t.marked.epochs \in Nat
  BY DEF TrainingRecord
<1> PICK more \in Nat, logged \in Nat : more = t.epochs + 1 /\ logged = t.metrics + 1
  BY <1>4
<1>5. CASE BeginTraining(j)
  <2>1. PICK new : new = [t EXCEPT !.status = "running", !.at = "building"]
    OBVIOUS
  <2>2. training' = [training EXCEPT ![j] = new]
    BY <1>1, <1>2, <1>5, <2>1 DEF BeginTraining, TrainingRecord
  <2>3. new \in TrainingRecord
    BY <1>3, <1>4, <2>1 DEF TrainingRecord, TrainingPlaces, Verdicts
  <2>4. /\ new.status = "running" /\ new.experiment = t.experiment /\ new.at = "building"
       /\ new.asked = t.asked /\ new.epochs = t.epochs /\ new.metrics = t.metrics
       /\ new.split = t.split /\ (new.exported <=> t.exported) /\ (new.stopping <=> t.stopping)
       /\ new.cancel = t.cancel /\ new.marked = t.marked
    BY <2>1 DEF TrainingRecord
  <2>5. t.at = "starting"
    BY <1>1, <1>5 DEF BeginTraining
  <2>6. EpochsInv(new)
    BY <1>3, <1>4, <2>4, <2>5 DEF EpochsInv
  <2>7. VerdictInv(new)
    BY <1>3, <1>4, <2>4, <2>5 DEF EpochsInv, MarkedInv, VerdictInv
  <2>8. TrainingInv(new)
    BY <1>2, <1>3, <1>4, <2>3, <2>4, <2>5, <2>6, <2>7, TrainingGoesOn
       DEF EpochsInv, MarkedInv
  <2> QED
    BY <2>2, <2>8, OneTrainingMoves
<1>6. CASE TrackRunning(j)
  <2>1. PICK new : new = [t EXCEPT !.experiment = "running", !.at = "epoch"]
    OBVIOUS
  <2>2. training' = [training EXCEPT ![j] = new]
    BY <1>1, <1>2, <1>6, <2>1 DEF TrackRunning, TrainingRecord
  <2>3. new \in TrainingRecord
    BY <1>3, <1>4, <2>1 DEF TrainingRecord, TrainingPlaces, Verdicts
  <2>4. /\ new.status = t.status /\ new.experiment = "running" /\ new.at = "epoch"
       /\ new.asked = t.asked /\ new.epochs = t.epochs /\ new.metrics = t.metrics
       /\ new.split = t.split /\ (new.exported <=> t.exported) /\ (new.stopping <=> t.stopping)
       /\ new.cancel = t.cancel /\ new.marked = t.marked
    BY <2>1 DEF TrainingRecord
  <2>5. t.at = "building"
    BY <1>1, <1>6 DEF TrackRunning
  <2>6. EpochsInv(new)
    BY <1>3, <1>4, <2>4, <2>5 DEF EpochsInv
  <2>7. VerdictInv(new)
    BY <1>3, <1>4, <2>4, <2>5 DEF EpochsInv, MarkedInv, VerdictInv
  <2>8. TrainingInv(new)
    BY <1>2, <1>3, <1>4, <2>3, <2>4, <2>5, <2>6, <2>7, TrainingGoesOn
       DEF EpochsInv, MarkedInv
  <2> QED
    BY <2>2, <2>8, OneTrainingMoves
<1>7. CASE TrainEpoch(j)
  <2>1. PICK new : new = [t EXCEPT !.epochs = more, !.at = "logging"]
    OBVIOUS
  <2>2. training' = [training EXCEPT ![j] = new]
    BY <1>1, <1>2, <1>7, <2>1 DEF TrainEpoch, TrainingRecord
  <2>3. new \in TrainingRecord
    BY <1>3, <1>4, <2>1 DEF TrainingRecord, TrainingPlaces, Verdicts
  <2>4. /\ new.status = t.status /\ new.experiment = t.experiment /\ new.at = "logging"
       /\ new.asked = t.asked /\ new.epochs = more /\ new.metrics = t.metrics
       /\ new.split = t.split /\ (new.exported <=> t.exported) /\ (new.stopping <=> t.stopping)
       /\ new.cancel = t.cancel /\ new.marked = t.marked
    BY <2>1 DEF TrainingRecord
  <2>5. t.at = "training"
    BY <1>1, <1>7 DEF TrainEpoch
  <2>6. EpochsInv(new)
    BY <1>3, <1>4, <2>4, <2>5 DEF EpochsInv
  <2>7. VerdictInv(new)
    BY <1>3, <1>4, <2>4, <2>5 DEF EpochsInv, MarkedInv, VerdictInv
  <2>8. TrainingInv(new)
    BY <1>2, <1>3, <1>4, <2>3, <2>4, <2>5, <2>6, <2>7, TrainingGoesOn
       DEF EpochsInv, MarkedInv
  <2> QED
    BY <2>2, <2>8, OneTrainingMoves
<1>8. CASE LogMetrics(j)
  <2>1. PICK new : new = [t EXCEPT !.metrics = logged, !.at = "epoch"]
    OBVIOUS
  <2>2. training' = [training EXCEPT ![j] = new]
    BY <1>1, <1>2, <1>8, <2>1 DEF LogMetrics, TrainingRecord
  <2>3. new \in TrainingRecord
    BY <1>3, <1>4, <2>1 DEF TrainingRecord, TrainingPlaces, Verdicts
  <2>4. /\ new.status = t.status /\ new.experiment = t.experiment /\ new.at = "epoch"
       /\ new.asked = t.asked /\ new.epochs = t.epochs /\ new.metrics = logged
       /\ new.split = t.split /\ (new.exported <=> t.exported) /\ (new.stopping <=> t.stopping)
       /\ new.cancel = t.cancel /\ new.marked = t.marked
    BY <2>1 DEF TrainingRecord
  <2>5. t.at = "logging"
    BY <1>1, <1>8 DEF LogMetrics
  <2>6. EpochsInv(new)
    BY <1>3, <1>4, <2>4, <2>5 DEF EpochsInv
  <2>7. VerdictInv(new)
    BY <1>3, <1>4, <2>4, <2>5 DEF EpochsInv, MarkedInv, VerdictInv
  <2>8. TrainingInv(new)
    BY <1>2, <1>3, <1>4, <2>3, <2>4, <2>5, <2>6, <2>7, TrainingGoesOn
       DEF EpochsInv, MarkedInv
  <2> QED
    BY <2>2, <2>8, OneTrainingMoves
<1>9. CASE ExportModel(j)
  <2>1. PICK new : new = [t EXCEPT !.exported = TRUE, !.at = "exported"]
    OBVIOUS
  <2>2. training' = [training EXCEPT ![j] = new]
    BY <1>1, <1>2, <1>9, <2>1 DEF ExportModel, TrainingRecord
  <2>3. new \in TrainingRecord
    BY <1>3, <1>4, <2>1 DEF TrainingRecord, TrainingPlaces, Verdicts
  <2>4. /\ new.status = t.status /\ new.experiment = t.experiment /\ new.at = "exported"
       /\ new.asked = t.asked /\ new.epochs = t.epochs /\ new.metrics = t.metrics
       /\ new.split = t.split /\ new.exported /\ (new.stopping <=> t.stopping)
       /\ new.cancel = t.cancel /\ new.marked = t.marked
    BY <2>1 DEF TrainingRecord
  <2>5. t.at = "exporting"
    BY <1>1, <1>9 DEF ExportModel
  <2>6. EpochsInv(new)
    BY <1>3, <1>4, <2>4, <2>5 DEF EpochsInv
  <2>7. VerdictInv(new)
    BY <1>3, <1>4, <2>4, <2>5 DEF EpochsInv, MarkedInv, VerdictInv
  <2>8. TrainingInv(new)
    BY <1>2, <1>3, <1>4, <2>3, <2>4, <2>5, <2>6, <2>7, TrainingGoesOn
       DEF EpochsInv, MarkedInv
  <2> QED
    BY <2>2, <2>8, OneTrainingMoves
<1>10. CASE CompleteTraining(j)
  <2>1. PICK new : new = [t EXCEPT !.status = "completed", !.at = "completed"]
    OBVIOUS
  <2>2. training' = [training EXCEPT ![j] = new]
    BY <1>1, <1>2, <1>10, <2>1 DEF CompleteTraining, TrainingRecord
  <2>3. new \in TrainingRecord
    BY <1>3, <1>4, <2>1 DEF TrainingRecord, TrainingPlaces, Verdicts
  <2>4. /\ new.status = "completed" /\ new.experiment = t.experiment /\ new.at = "completed"
       /\ new.asked = t.asked /\ new.epochs = t.epochs /\ new.metrics = t.metrics
       /\ new.split = t.split /\ (new.exported <=> t.exported) /\ (new.stopping <=> t.stopping)
       /\ new.cancel = t.cancel /\ new.marked = t.marked
    BY <2>1 DEF TrainingRecord
  <2>5. t.at = "exported"
    BY <1>1, <1>10 DEF CompleteTraining
  <2>6. EpochsInv(new)
    BY <1>3, <1>4, <2>4, <2>5 DEF EpochsInv
  <2>7. VerdictInv(new)
    BY <1>3, <1>4, <2>4, <2>5 DEF EpochsInv, MarkedInv, VerdictInv
  <2>8. TrainingInv(new)
    BY <1>2, <1>3, <1>4, <2>3, <2>4, <2>5, <2>6, <2>7, TrainingGoesOn
       DEF EpochsInv, MarkedInv
  <2> QED
    BY <2>2, <2>8, OneTrainingMoves
<1>11. CASE FailTraining(j)
  <2>1. PICK new : new = [t EXCEPT !.status = "failed", !.at = "failed"]
    OBVIOUS
  <2>2. training' = [training EXCEPT ![j] = new]
    BY <1>1, <1>2, <1>11, <2>1 DEF FailTraining, TrainingRecord
  <2>3. new \in TrainingRecord
    BY <1>3, <1>4, <2>1 DEF TrainingRecord, TrainingPlaces, Verdicts
  <2>4. /\ new.status = "failed" /\ new.experiment = t.experiment /\ new.at = "failed"
       /\ new.asked = t.asked /\ new.epochs = t.epochs /\ new.metrics = t.metrics
       /\ new.split = t.split /\ (new.exported <=> t.exported) /\ (new.stopping <=> t.stopping)
       /\ new.cancel = t.cancel /\ new.marked = t.marked
    BY <2>1 DEF TrainingRecord
  <2>5. t.at \in {"epoch", "training", "exporting"}
    BY <1>1, <1>11 DEF FailTraining
  <2>6. EpochsInv(new)
    BY <1>3, <1>4, <2>4, <2>5 DEF EpochsInv
  <2>7. VerdictInv(new)
    BY <1>3, <1>4, <2>4, <2>5 DEF EpochsInv, MarkedInv, VerdictInv
  <2>8. TrainingInv(new)
    BY <1>2, <1>3, <1>4, <2>3, <2>4, <2>5, <2>6, <2>7, TrainingGoesOn
       DEF EpochsInv, MarkedInv
  <2> QED
    BY <2>2, <2>8, OneTrainingMoves
<1>12. CASE NextEpoch(j)
  <2>1. PICK place \in {"exporting", "done", "training"} :
            /\ training' = [training EXCEPT ![j].at = place]
            /\ place = "exporting" => t.epochs = t.asked
            /\ place = "done" => t.stopping
            /\ place = "training" => t.epochs < t.asked /\ ~ t.stopping
    <3>1. CASE t.epochs = t.asked
      <4>1. training' = [training EXCEPT ![j].at = "exporting"]
        BY <1>1, <1>12, <3>1 DEF NextEpoch
      <4> QED
        BY <3>1, <4>1
    <3>2. CASE t.epochs # t.asked /\ t.stopping
      <4>1. training' = [training EXCEPT ![j].at = "done"]
        BY <1>1, <1>12, <3>2 DEF NextEpoch
      <4> QED
        BY <3>2, <4>1
    <3>3. CASE t.epochs # t.asked /\ ~ t.stopping
      <4>1. training' = [training EXCEPT ![j].at = "training"]
        BY <1>1, <1>12, <3>3 DEF NextEpoch
      <4>2. t.epochs < t.asked
        BY <1>3, <1>4, <3>3 DEF EpochsInv
      <4> QED
        BY <3>3, <4>1, <4>2
    <3> QED
      BY <1>3, <1>4, <3>1, <3>2, <3>3 DEF EpochsInv
  <2>2. PICK new : new = [t EXCEPT !.at = place]
    OBVIOUS
  <2>3. training' = [training EXCEPT ![j] = new]
    BY <1>1, <1>2, <1>12, <2>1, <2>2 DEF NextEpoch, TrainingRecord
  <2>4. new \in TrainingRecord
    BY <1>3, <1>4, <2>1, <2>2 DEF TrainingRecord, TrainingPlaces, Verdicts
  <2>5. /\ new.status = t.status /\ new.experiment = t.experiment /\ new.at = place
       /\ new.asked = t.asked /\ new.epochs = t.epochs /\ new.metrics = t.metrics
       /\ new.split = t.split /\ (new.exported <=> t.exported) /\ (new.stopping <=> t.stopping)
       /\ new.cancel = t.cancel /\ new.marked = t.marked
    BY <2>2 DEF TrainingRecord
  <2>6. t.at = "epoch"
    BY <1>1, <1>12 DEF NextEpoch
  <2>7. EpochsInv(new)
    BY <1>3, <1>4, <2>1, <2>5, <2>6 DEF EpochsInv
  <2>8. VerdictInv(new)
    BY <1>3, <1>4, <2>1, <2>5, <2>6 DEF EpochsInv, MarkedInv, VerdictInv
  <2>9. TrainingInv(new)
    BY <1>2, <1>3, <1>4, <2>1, <2>4, <2>5, <2>6, <2>7, <2>8, TrainingGoesOn
       DEF EpochsInv, MarkedInv
  <2> QED
    BY <2>3, <2>9, OneTrainingMoves
<1>13. CASE TrackVerdict(j)
  <2>1. PICK verdict \in {"completed", "failed"} :
            /\ t.at = verdict
            /\ training' = [training EXCEPT ![j].experiment = verdict, ![j].at = "done"]
    <3>1. PICK v \in {"completed", "failed"} : t.at = v
      BY <1>1, <1>13 DEF TrackVerdict
    <3> QED
      BY <1>1, <1>13, <3>1 DEF TrackVerdict
  <2>2. PICK new : new = [t EXCEPT !.experiment = verdict, !.at = "done"]
    OBVIOUS
  <2>3. training' = [training EXCEPT ![j] = new]
    BY <1>1, <1>2, <1>13, <2>1, <2>2 DEF TrackVerdict, TrainingRecord
  <2>4. new \in TrainingRecord
    BY <1>3, <1>4, <2>1, <2>2 DEF TrainingRecord, TrainingPlaces, Verdicts
  <2>5. /\ new.status = t.status /\ new.experiment = verdict /\ new.at = "done"
       /\ new.asked = t.asked /\ new.epochs = t.epochs /\ new.metrics = t.metrics
       /\ new.split = t.split /\ (new.exported <=> t.exported) /\ (new.stopping <=> t.stopping)
       /\ new.cancel = t.cancel /\ new.marked = t.marked
    BY <2>2 DEF TrainingRecord
  <2>6. t.at = verdict
    BY <2>1
  <2>7. EpochsInv(new)
    BY <1>3, <1>4, <2>1, <2>5, <2>6 DEF EpochsInv
  <2>8. VerdictInv(new)
    BY <1>3, <1>4, <2>1, <2>5, <2>6 DEF EpochsInv, MarkedInv, VerdictInv
  <2>9. TrainingInv(new)
    BY <1>2, <1>3, <1>4, <2>1, <2>4, <2>5, <2>6, <2>7, <2>8, TrainingGoesOn
       DEF EpochsInv, MarkedInv
  <2> QED
    BY <2>3, <2>9, OneTrainingMoves
<1> QED
  BY <1>5, <1>6, <1>7, <1>8, <1>9, <1>10, <1>11, <1>12, <1>13 DEF TrainingStep

LEMMA TrainInvLoop ==
    ASSUME TrainInv, NEW j \in Trainings,
           \/ StartTraining(j) \/ LoadData(j) \/ CheckTraining(j)
           \/ MarkTraining(j) \/ TrackCancel(j)
    PROVE  TrainInv'
<1>1. PICK t \in TrainingRecord : t = training[j]
  BY DEF TrainInv
<1>2. TrainingInv(t) /\ training \in [Trainings -> TrainingRecord]
  BY <1>1 DEF TrainInv
<1>3. EpochsInv(t) /\ MarkedInv(t) /\ VerdictInv(t)
  BY <1>2 DEF TrainingInv
<1>4. t.epochs \in Nat /\ t.metrics \in Nat /\ t.asked \in Nat /\ t.marked.epochs \in Nat
  BY DEF TrainingRecord
<1>5. CASE StartTraining(j)
  <2>1. PICK new : new = [t EXCEPT !.status = "pending", !.experiment = "pending", !.at = "loading"]
    OBVIOUS
  <2>2. training' = [training EXCEPT ![j] = new]
    BY <1>1, <1>2, <1>5, <2>1 DEF StartTraining, TrainingRecord
  <2>3. new \in TrainingRecord
    BY <1>3, <1>4, <2>1 DEF TrainingRecord, TrainingPlaces, Verdicts
  <2>4. /\ new.status = "pending" /\ new.experiment = "pending" /\ new.at = "loading"
       /\ new.asked = t.asked /\ new.epochs = t.epochs /\ new.metrics = t.metrics
       /\ new.split = t.split /\ (new.exported <=> t.exported) /\ (new.stopping <=> t.stopping)
       /\ new.cancel = t.cancel /\ new.marked = t.marked
    BY <2>1 DEF TrainingRecord
  <2>5. t.status = "absent" /\ t.at = "nowhere"
    BY <1>1, <1>3, <1>5 DEF StartTraining, MarkedInv, VerdictInv, TrainingRecord, Verdicts
  <2>6. EpochsInv(new)
    BY <1>3, <1>4, <2>4, <2>5 DEF EpochsInv
  <2>7. VerdictInv(new)
    BY <1>3, <1>4, <2>4, <2>5 DEF EpochsInv, MarkedInv, VerdictInv
  <2>8. MarkedInv(new)
    BY <1>3, <1>4, <2>4, <2>5 DEF EpochsInv, MarkedInv, NotMarked
  <2> QED
    BY <2>2, <2>3, <2>6, <2>7, <2>8, OneTrainingMoves DEF TrainingInv
<1>6. CASE LoadData(j)
  <2>1. PICK split \in [train : Nat, val : Nat] :
            /\ split.train > 0
            /\ training' = [training EXCEPT ![j].split = split, ![j].at = "starting"]
    BY <1>6, SplitHasRows DEF LoadData
  <2>2. PICK new : new = [t EXCEPT !.split = split, !.at = "starting"]
    OBVIOUS
  <2>3. training' = [training EXCEPT ![j] = new]
    BY <1>1, <1>2, <1>6, <2>1, <2>2 DEF LoadData, TrainingRecord
  <2>4. new \in TrainingRecord
    BY <1>3, <1>4, <2>1, <2>2 DEF TrainingRecord, TrainingPlaces, Verdicts
  <2>5. /\ new.status = t.status /\ new.experiment = t.experiment /\ new.at = "starting"
       /\ new.asked = t.asked /\ new.epochs = t.epochs /\ new.metrics = t.metrics
       /\ new.split = split /\ (new.exported <=> t.exported) /\ (new.stopping <=> t.stopping)
       /\ new.cancel = t.cancel /\ new.marked = t.marked
    BY <2>2 DEF TrainingRecord
  <2>6. t.at = "loading"
    BY <1>1, <1>3, <1>6 DEF LoadData, MarkedInv, VerdictInv, TrainingRecord, Verdicts
  <2>7. EpochsInv(new)
    BY <1>3, <1>4, <2>1, <2>5, <2>6 DEF EpochsInv
  <2>8. VerdictInv(new)
    BY <1>3, <1>4, <2>1, <2>5, <2>6 DEF EpochsInv, MarkedInv, VerdictInv
  <2>9. MarkedInv(new)
    BY <1>3, <1>4, <2>1, <2>5, <2>6 DEF EpochsInv, MarkedInv, NotMarked
  <2> QED
    BY <2>3, <2>4, <2>7, <2>8, <2>9, OneTrainingMoves DEF TrainingInv
<1>7. CASE CheckTraining(j)
  <2>1. PICK new : new = [t EXCEPT !.cancel = "mark"]
    OBVIOUS
  <2>2. training' = [training EXCEPT ![j] = new]
    BY <1>1, <1>2, <1>7, <2>1 DEF CheckTraining, TrainingRecord
  <2>3. new \in TrainingRecord
    BY <1>3, <1>4, <2>1 DEF TrainingRecord, TrainingPlaces, Verdicts
  <2>4. /\ new.status = t.status /\ new.experiment = t.experiment /\ new.at = t.at
       /\ new.asked = t.asked /\ new.epochs = t.epochs /\ new.metrics = t.metrics
       /\ new.split = t.split /\ (new.exported <=> t.exported) /\ (new.stopping <=> t.stopping)
       /\ new.cancel = "mark" /\ new.marked = t.marked
    BY <2>1 DEF TrainingRecord
  <2>5. t.status # "absent" /\ t.at # "nowhere"
    BY <1>1, <1>3, <1>7 DEF CheckTraining, MarkedInv, VerdictInv, TrainingRecord, Verdicts
  <2>6. EpochsInv(new)
    BY <1>3, <1>4, <2>4, <2>5 DEF EpochsInv
  <2>7. VerdictInv(new)
    BY <1>3, <1>4, <2>4, <2>5 DEF EpochsInv, MarkedInv, VerdictInv
  <2>8. MarkedInv(new)
    BY <1>3, <1>4, <2>4, <2>5 DEF EpochsInv, MarkedInv, NotMarked
  <2> QED
    BY <2>2, <2>3, <2>6, <2>7, <2>8, OneTrainingMoves DEF TrainingInv
<1>8. CASE MarkTraining(j)
  <2>1. PICK mark \in [at : TrainingPlaces, epochs : Nat] :
            mark = [at |-> t.at, epochs |-> t.epochs]
    BY DEF TrainingRecord
  <2>2. PICK new : new = [t EXCEPT !.stopping = TRUE, !.status = "cancelled", !.cancel = "track",
                             !.marked = mark]
    OBVIOUS
  <2>3. training' = [training EXCEPT ![j] = new]
    BY <1>1, <1>2, <1>8, <2>1, <2>2 DEF MarkTraining, TrainingRecord
  <2>4. new \in TrainingRecord
    <3>1. "cancelled" \in Verdicts
      BY DEF Verdicts
    <3> QED
      BY <2>1, <2>2, <3>1 DEF TrainingRecord
  <2>5. /\ new.status = "cancelled" /\ new.experiment = t.experiment /\ new.at = t.at
       /\ new.asked = t.asked /\ new.epochs = t.epochs /\ new.metrics = t.metrics
       /\ new.split = t.split /\ (new.exported <=> t.exported) /\ new.stopping
       /\ new.cancel = "track" /\ new.marked = mark
    BY <2>2 DEF TrainingRecord
  <2>6. t.cancel = "mark" /\ t.at # "nowhere"
    BY <1>1, <1>3, <1>8 DEF MarkTraining, MarkedInv, VerdictInv, TrainingRecord, Verdicts
  <2>7. EpochsInv(new)
    BY <1>3, <1>4, <2>1, <2>5, <2>6 DEF EpochsInv
  <2>8. VerdictInv(new)
    BY <1>3, <1>4, <2>1, <2>5, <2>6 DEF EpochsInv, MarkedInv, VerdictInv
  <2>9. MarkedInv(new)
    BY <1>3, <1>4, <2>1, <2>5, <2>6 DEF EpochsInv, MarkedInv, NotMarked
  <2> QED
    BY <2>3, <2>4, <2>7, <2>8, <2>9, OneTrainingMoves DEF TrainingInv
<1>9. CASE TrackCancel(j)
  <2>1. PICK new : new = [t EXCEPT !.experiment = "cancelled", !.cancel = "none"]
    OBVIOUS
  <2>2. training' = [training EXCEPT ![j] = new]
    BY <1>1, <1>2, <1>9, <2>1 DEF TrackCancel, TrainingRecord
  <2>3. new \in TrainingRecord
    BY <1>3, <1>4, <2>1 DEF TrainingRecord, TrainingPlaces, Verdicts
  <2>4. /\ new.status = t.status /\ new.experiment = "cancelled" /\ new.at = t.at
       /\ new.asked = t.asked /\ new.epochs = t.epochs /\ new.metrics = t.metrics
       /\ new.split = t.split /\ (new.exported <=> t.exported) /\ (new.stopping <=> t.stopping)
       /\ new.cancel = "none" /\ new.marked = t.marked
    BY <2>1 DEF TrainingRecord
  <2>5. t.cancel = "track" /\ t.stopping /\ t.at # "nowhere"
    BY <1>1, <1>3, <1>9 DEF TrackCancel, MarkedInv, VerdictInv, TrainingRecord, Verdicts
  <2>6. EpochsInv(new)
    BY <1>3, <1>4, <2>4, <2>5 DEF EpochsInv
  <2>7. VerdictInv(new)
    BY <1>3, <1>4, <2>4, <2>5 DEF EpochsInv, MarkedInv, VerdictInv
  <2>8. MarkedInv(new)
    BY <1>3, <1>4, <2>4, <2>5 DEF EpochsInv, MarkedInv, NotMarked
  <2> QED
    BY <2>2, <2>3, <2>6, <2>7, <2>8, OneTrainingMoves DEF TrainingInv
<1> QED
  BY <1>5, <1>6, <1>7, <1>8, <1>9

LEMMA TrainInvNext == TrainInv /\ [TrainNext]_training => TrainInv'
<1> SUFFICES ASSUME TrainInv, [TrainNext]_training  PROVE TrainInv'
  OBVIOUS
<1>1. CASE UNCHANGED training
  BY <1>1 DEF TrainInv
<1>2. CASE TrainNext
  BY <1>2, TrainInvThread, TrainInvLoop DEF TrainNext
<1> QED
  BY <1>1, <1>2

(***************************************************************************)
(* Whatever the event loop does between the steps of a training's thread:  *)
(* a cancelled training goes no further than the epoch in hand, and the    *)
(* two records of one that nobody cancelled agree once it is over.         *)
(***************************************************************************)
THEOREM TrainingAlwaysReported ==
    TrainInit /\ [][TrainNext]_training => []TrainingIsReported
<1>1. TrainInv => TrainingIsReported
  <2> SUFFICES ASSUME TrainInv, NEW j \in Trainings
               PROVE  /\ training[j].marked # NotMarked =>
                             /\ training[j].epochs <= training[j].marked.epochs + 1
                             /\ training[j].exported =>
                                    training[j].asked <= training[j].marked.epochs + 1
                      /\ /\ training[j].at = "done"
                         /\ training[j].marked = NotMarked
                         /\ training[j].cancel = "none"
                         => /\ training[j].status = training[j].experiment
                            /\ training[j].status = "completed" =>
                                  /\ training[j].exported
                                  /\ training[j].epochs = training[j].asked
                                  /\ training[j].metrics = training[j].asked
                                  /\ training[j].split.train > 0
    BY DEF TrainingIsReported, CancelStopsWithinAnEpoch, SettledRecordsAgree
  <2>1. PICK t \in TrainingRecord : t = training[j]
    BY DEF TrainInv
  <2>2. EpochsInv(t) /\ MarkedInv(t) /\ VerdictInv(t)
    BY <2>1 DEF TrainInv, TrainingInv
  <2>3. t.marked # NotMarked => t.epochs <= t.marked.epochs + 1
    BY <2>2 DEF MarkedInv
  <2>4. t.exported => t.epochs = t.asked
    BY <2>2 DEF EpochsInv
  <2>5. t.at = "done" => t.metrics = t.epochs /\ t.split.train > 0
    BY <2>2 DEF EpochsInv
  <2>6. t.at = "done" /\ t.marked = NotMarked => t.status = t.experiment
    BY <2>2 DEF MarkedInv, VerdictInv
  <2>7. t.status = "completed" => t.exported
    BY <2>2 DEF VerdictInv
  <2> QED
    BY <2>1, <2>3, <2>4, <2>5, <2>6, <2>7
<1> QED
  BY <1>1, TrainInvInit, TrainInvNext, PTL

(***************************************************************************)
(* Loop, task and thread take the steps of JobLifecycle.  Each of theirs   *)
(* changes one record, from t to new.                                      *)
(***************************************************************************)
Changes(j, t, new) ==
    /\ t = training[j]
    /\ new \in TrainingRecord
    /\ training' = [training EXCEPT ![j] = new]

\* What JobLifecycle sees of the records.
Statuses == [i \in Trainings |-> training[i].status]
Workers == [i \in Trainings |-> WorkerOfTraining(training[i])]
Exports == {i \in Trainings : training[i].exported}
Looks == {i \in Trainings : training[i].cancel = "mark"}
Stops == {i \in Trainings : training[i].stopping}

LEMMA LifecycleOfOthers ==
    ASSUME TrainInv, NEW j \in Trainings, NEW t, NEW new, Changes(j, t, new)
    PROVE  /\ Statuses' = [Statuses EXCEPT ![j] = new.status]
           /\ Workers' = [Workers EXCEPT ![j] = WorkerOfTraining(new)]
<1>1. ASSUME NEW i \in Trainings
      PROVE  training'[i] = IF i = j THEN new ELSE training[i]
  BY DEF Changes, TrainInv
<1>2. ASSUME NEW i \in Trainings
      PROVE  WorkerOfTraining(training[i])' = WorkerOfTraining(training'[i])
  BY DEF WorkerOfTraining
<1>3. Statuses' = [Statuses EXCEPT ![j] = new.status]
  BY <1>1 DEF Statuses
<1>4. Workers' = [Workers EXCEPT ![j] = WorkerOfTraining(new)]
  BY <1>1, <1>2 DEF Workers
<1> QED
  BY <1>3, <1>4

LEMMA LifecycleSets ==
    ASSUME TrainInv, NEW j \in Trainings, NEW t, NEW new, Changes(j, t, new)
    PROVE  /\ Exports' = IF new.exported THEN Exports \cup {j} ELSE Exports \ {j}
           /\ Looks' = IF new.cancel = "mark" THEN Looks \cup {j} ELSE Looks \ {j}
           /\ Stops' = IF new.stopping THEN Stops \cup {j} ELSE Stops \ {j}
<1>1. ASSUME NEW i \in Trainings
      PROVE  training'[i] = IF i = j THEN new ELSE training[i]
  BY DEF Changes, TrainInv
<1>2. Exports' = IF new.exported THEN Exports \cup {j} ELSE Exports \ {j}
  BY <1>1 DEF Exports
<1>3. Looks' = IF new.cancel = "mark" THEN Looks \cup {j} ELSE Looks \ {j}
  BY <1>1 DEF Looks
<1>4. Stops' = IF new.stopping THEN Stops \cup {j} ELSE Stops \ {j}
  BY <1>1 DEF Stops
<1> QED
  BY <1>2, <1>3, <1>4

\* What it sees of the one that changes.
LEMMA LifecycleOfOne ==
    ASSUME NEW j \in Trainings, NEW t, NEW new, Changes(j, t, new)
    PROVE  /\ Statuses = [i \in Trainings |-> Statuses[i]] /\ Statuses[j] = t.status
           /\ Workers = [i \in Trainings |-> Workers[i]] /\ Workers[j] = WorkerOfTraining(t)
           /\ j \in Exports <=> t.exported
           /\ j \in Looks <=> t.cancel = "mark"
           /\ j \in Stops <=> t.stopping
<1>1. t = training[j]
  BY DEF Changes
<1>2. Statuses = [i \in Trainings |-> Statuses[i]] /\ Statuses[j] = t.status
  BY <1>1 DEF Statuses
<1>3. Workers = [i \in Trainings |-> Workers[i]] /\ Workers[j] = WorkerOfTraining(t)
  BY <1>1 DEF Workers
<1>4. /\ j \in Exports <=> t.exported
      /\ j \in Looks <=> t.cancel = "mark"
      /\ j \in Stops <=> t.stopping
  BY <1>1 DEF Exports, Looks, Stops
<1> QED
  BY <1>2, <1>3, <1>4

\* A change of a record that leaves what JobLifecycle sees of it alone.
LEMMA UnseenChange ==
    ASSUME TrainInv, NEW j \in Trainings, NEW t, NEW new, Changes(j, t, new),
           new.status = t.status, WorkerOfTraining(new) = WorkerOfTraining(t),
           new.exported <=> t.exported, new.stopping <=> t.stopping,
           new.cancel = "mark" <=> t.cancel = "mark"
    PROVE  UNCHANGED TrainingLifecycle!vars
<1>1. Statuses' = Statuses
  BY LifecycleOfOne, LifecycleOfOthers
<1>2. Workers' = Workers
  BY LifecycleOfOne, LifecycleOfOthers
<1>3. Exports' = Exports /\ Looks' = Looks /\ Stops' = Stops
  <2>1. /\ j \in Exports <=> new.exported
        /\ j \in Looks <=> new.cancel = "mark"
        /\ j \in Stops <=> new.stopping
    BY LifecycleOfOne
  <2>2. /\ Exports' = IF new.exported THEN Exports \cup {j} ELSE Exports \ {j}
        /\ Looks' = IF new.cancel = "mark" THEN Looks \cup {j} ELSE Looks \ {j}
        /\ Stops' = IF new.stopping THEN Stops \cup {j} ELSE Stops \ {j}
    BY LifecycleSets
  <2>3. Exports' = Exports
    BY <2>1, <2>2
  <2>4. Looks' = Looks
    BY <2>1, <2>2
  <2>5. Stops' = Stops
    BY <2>1, <2>2
  <2> QED
    BY <2>3, <2>4, <2>5
<1> QED
  BY <1>1, <1>2, <1>3
     DEF TrainingLifecycle!vars, Statuses, Workers, Exports, Looks, Stops

\* What the worker does to its record: begin, produce, conclude or give up.
LEMMA WorkerStepInLifecycle ==
    ASSUME TrainInv, NEW j \in Trainings, NEW t, NEW new, Changes(j, t, new),
           new.stopping <=> t.stopping, new.cancel = t.cancel,
           \/ /\ WorkerOfTraining(t) = "waiting" /\ WorkerOfTraining(new) = "working"
              /\ new.status = "running" /\ (new.exported <=> t.exported)
           \/ /\ WorkerOfTraining(t) = "working" /\ WorkerOfTraining(new) = "working"
              /\ new.status = t.status /\ new.exported
           \/ /\ WorkerOfTraining(t) = "working" /\ WorkerOfTraining(new) = "ended"
              /\ new.status = (IF t.exported THEN "completed" ELSE "failed")
              /\ new.exported <=> t.exported
           \/ /\ WorkerOfTraining(t) = "working" /\ WorkerOfTraining(new) = "ended"
              /\ t.stopping /\ ~ t.exported
              /\ new.status = t.status /\ ~ new.exported
    PROVE  TrainingLifecycle!JobStep(j)
<1>1. Looks' = Looks /\ Stops' = Stops
  <2>1. (j \in Looks <=> new.cancel = "mark") /\ (j \in Stops <=> new.stopping)
    BY LifecycleOfOne
  <2>2. Looks' = IF new.cancel = "mark" THEN Looks \cup {j} ELSE Looks \ {j}
    BY LifecycleSets
  <2>3. Stops' = IF new.stopping THEN Stops \cup {j} ELSE Stops \ {j}
    BY LifecycleSets
  <2>4. Looks' = Looks
    BY <2>1, <2>2
  <2>5. Stops' = Stops
    BY <2>1, <2>3
  <2> QED
    BY <2>4, <2>5
<1>2. /\ Statuses' = [Statuses EXCEPT ![j] = new.status]
      /\ Workers' = [Workers EXCEPT ![j] = WorkerOfTraining(new)]
  BY LifecycleOfOthers
<1>3. Exports' = IF new.exported THEN Exports \cup {j} ELSE Exports \ {j}
  BY LifecycleSets
<1>4. Workers[j] = WorkerOfTraining(t) /\ (j \in Exports <=> t.exported)
        /\ (j \in Stops <=> t.stopping)
  BY LifecycleOfOne
<1>5. new.status = t.status => Statuses' = Statuses
  BY <1>2, LifecycleOfOne
<1>6. WorkerOfTraining(new) = WorkerOfTraining(t) => Workers' = Workers
  BY <1>2, LifecycleOfOne
<1>7. CASE /\ WorkerOfTraining(t) = "waiting" /\ WorkerOfTraining(new) = "working"
           /\ new.status = "running" /\ (new.exported <=> t.exported)
  <2>1. /\ Workers[j] = "waiting" /\ Statuses' = [Statuses EXCEPT ![j] = "running"]
        /\ Workers' = [Workers EXCEPT ![j] = "working"] /\ Exports' = Exports
    BY <1>2, <1>3, <1>4, <1>7
  <2>2. TrainingLifecycle!Begin(j)
    BY <1>1, <2>1
       DEF TrainingLifecycle!Begin, Statuses, Workers, Exports, Looks, Stops
  <2> QED
    BY <2>2 DEF TrainingLifecycle!JobStep
<1>8. CASE /\ WorkerOfTraining(t) = "working" /\ WorkerOfTraining(new) = "working"
           /\ new.status = t.status /\ new.exported
  <2>1. /\ Workers[j] = "working" /\ Statuses' = Statuses /\ Workers' = Workers
        /\ Exports' = Exports \cup {j}
    BY <1>3, <1>4, <1>5, <1>6, <1>8
  <2>2. TrainingLifecycle!Produce(j)
    BY <1>1, <2>1
       DEF TrainingLifecycle!Produce, Statuses, Workers, Exports, Looks, Stops
  <2> QED
    BY <2>2 DEF TrainingLifecycle!JobStep
<1>9. CASE /\ WorkerOfTraining(t) = "working" /\ WorkerOfTraining(new) = "ended"
           /\ new.status = (IF t.exported THEN "completed" ELSE "failed")
           /\ new.exported <=> t.exported
  <2>1. Workers[j] = "working" /\ Exports' = Exports
    BY <1>3, <1>4, <1>9
  <2>2. /\ Statuses' = [Statuses EXCEPT ![j] = IF j \in Exports THEN "completed" ELSE "failed"]
        /\ Workers' = [Workers EXCEPT ![j] = "ended"]
    BY <1>2, <1>4, <1>9
  <2>3. TrainingLifecycle!Conclude(j)
    BY <1>1, <2>1, <2>2
       DEF TrainingLifecycle!Conclude, Statuses, Workers, Exports, Looks, Stops
  <2> QED
    BY <2>3 DEF TrainingLifecycle!JobStep
<1>10. CASE /\ WorkerOfTraining(t) = "working" /\ WorkerOfTraining(new) = "ended"
            /\ t.stopping /\ ~ t.exported
            /\ new.status = t.status /\ ~ new.exported
  <2>1. /\ Workers[j] = "working" /\ j \in Stops /\ j \notin Exports
        /\ Statuses' = Statuses /\ Workers' = [Workers EXCEPT ![j] = "ended"]
        /\ Exports' = Exports
    BY <1>2, <1>3, <1>4, <1>5, <1>10
  <2>2. TrainingLifecycle!GiveUp(j)
    BY <1>1, <2>1
       DEF TrainingLifecycle!GiveUp, Statuses, Workers, Exports, Looks, Stops
  <2> QED
    BY <2>2 DEF TrainingLifecycle!JobStep
<1> QED
  BY <1>7, <1>8, <1>9, <1>10

\* What the loop does to it: submit, look at it for a cancellation, mark it.
LEMMA LoopStepInLifecycle ==
    ASSUME TrainInv, NEW j \in Trainings, NEW t, NEW new, Changes(j, t, new),
           new.exported <=> t.exported,
           \/ /\ WorkerOfTraining(t) = "none" /\ WorkerOfTraining(new) = "waiting"
              /\ new.status = "pending" /\ new.cancel = t.cancel
              /\ new.stopping <=> t.stopping
           \/ /\ WorkerOfTraining(new) = WorkerOfTraining(t)
              /\ t.status \in {"pending", "running"} /\ new.status = t.status
              /\ new.cancel = "mark" /\ (new.stopping <=> t.stopping)
           \/ /\ WorkerOfTraining(new) = WorkerOfTraining(t)
              /\ t.cancel = "mark" /\ new.cancel = "track"
              /\ new.status = "cancelled" /\ new.stopping
    PROVE  TrainingLifecycle!JobStep(j)
<1>1. Exports' = Exports
  <2>1. j \in Exports <=> new.exported
    BY LifecycleOfOne
  <2>2. Exports' = IF new.exported THEN Exports \cup {j} ELSE Exports \ {j}
    BY LifecycleSets
  <2> QED
    BY <2>1, <2>2
<1>2. /\ Statuses' = [Statuses EXCEPT ![j] = new.status]
      /\ Workers' = [Workers EXCEPT ![j] = WorkerOfTraining(new)]
  BY LifecycleOfOthers
<1>3. /\ Looks' = IF new.cancel = "mark" THEN Looks \cup {j} ELSE Looks \ {j}
      /\ Stops' = IF new.stopping THEN Stops \cup {j} ELSE Stops \ {j}
  BY LifecycleSets
<1>4. Statuses[j] = t.status /\ Workers[j] = WorkerOfTraining(t)
        /\ (j \in Looks <=> t.cancel = "mark") /\ (j \in Stops <=> t.stopping)
  BY LifecycleOfOne
<1>5. new.status = t.status => Statuses' = Statuses
  BY <1>2, LifecycleOfOne
<1>6. WorkerOfTraining(new) = WorkerOfTraining(t) => Workers' = Workers
  BY <1>2, LifecycleOfOne
<1>7. CASE /\ WorkerOfTraining(t) = "none" /\ WorkerOfTraining(new) = "waiting"
           /\ new.status = "pending" /\ new.cancel = t.cancel
           /\ new.stopping <=> t.stopping
  <2>1. Looks' = Looks /\ Stops' = Stops
    BY <1>3, <1>4, <1>7
  <2>2. /\ Workers[j] = "none" /\ Statuses' = [Statuses EXCEPT ![j] = "pending"]
        /\ Workers' = [Workers EXCEPT ![j] = "waiting"]
    BY <1>2, <1>4, <1>7
  <2>3. TrainingLifecycle!Submit(j)
    BY <1>1, <2>1, <2>2
       DEF TrainingLifecycle!Submit, Statuses, Workers, Exports, Looks, Stops
  <2> QED
    BY <2>3 DEF TrainingLifecycle!JobStep
<1>8. CASE /\ WorkerOfTraining(new) = WorkerOfTraining(t)
           /\ t.status \in {"pending", "running"} /\ new.status = t.status
           /\ new.cancel = "mark" /\ (new.stopping <=> t.stopping)
  <2>1. Looks' = Looks \cup {j} /\ Stops' = Stops
    BY <1>3, <1>4, <1>8
  <2>2. /\ Statuses[j] \in {"pending", "running"}
        /\ Statuses' = Statuses /\ Workers' = Workers
    BY <1>4, <1>5, <1>6, <1>8
  <2>3. TrainingLifecycle!CheckCancel(j)
    BY <1>1, <2>1, <2>2
       DEF TrainingLifecycle!CheckCancel, Statuses, Workers, Exports, Looks, Stops
  <2> QED
    BY <2>3 DEF TrainingLifecycle!JobStep
<1>9. CASE /\ WorkerOfTraining(new) = WorkerOfTraining(t)
           /\ t.cancel = "mark" /\ new.cancel = "track"
           /\ new.status = "cancelled" /\ new.stopping
  <2>1. Looks' = Looks \ {j} /\ Stops' = Stops \cup {j} /\ j \in Looks
    BY <1>3, <1>4, <1>9
  <2>2. Statuses' = [Statuses EXCEPT ![j] = "cancelled"] /\ Workers' = Workers
    BY <1>2, <1>6, <1>9
  <2>3. TrainingLifecycle!MarkCancel(j)
    BY <1>1, <2>1, <2>2
       DEF TrainingLifecycle!MarkCancel, Statuses, Workers, Exports, Looks, Stops
  <2> QED
    BY <2>3 DEF TrainingLifecycle!JobStep
<1> QED
  BY <1>7, <1>8, <1>9

(***************************************************************************)
(* Every step of loop, task and thread, as a change of one record.         *)
(***************************************************************************)
LEMMA TrainingThreadInLifecycle ==
    ASSUME TrainInv, NEW j \in Trainings, TrainingStep(j)
    PROVE  TrainingLifecycle!JobStep(j) \/ UNCHANGED TrainingLifecycle!vars
<1>1. PICK t \in TrainingRecord : t = training[j]
  BY DEF TrainInv
<1>2. TrainingInv(t) /\ training \in [Trainings -> TrainingRecord]
  BY <1>1 DEF TrainInv
<1>3. EpochsInv(t) /\ MarkedInv(t) /\ VerdictInv(t)
  BY <1>2 DEF TrainingInv
<1>4. TrainInv'
  BY TrainInvThread
<1>5. ASSUME NEW new, training' = [training EXCEPT ![j] = new]  PROVE Changes(j, t, new)
  <2>1. training'[j] = new
    BY <1>2, <1>5
  <2> QED
    BY <1>1, <1>4, <1>5, <2>1 DEF TrainInv, Changes
<1>6. CASE BeginTraining(j)
  <2>1. PICK new : new = [t EXCEPT !.status = "running", !.at = "building"]
    OBVIOUS
  <2>2. training' = [training EXCEPT ![j] = new]
    BY <1>1, <1>2, <1>6, <2>1 DEF BeginTraining, TrainingRecord
  <2>3. Changes(j, t, new)
    BY <1>5, <2>2
  <2>4. /\ new.status = "running" /\ new.at = "building"
       /\ (new.exported <=> t.exported) /\ (new.stopping <=> t.stopping)
       /\ new.cancel = t.cancel
    BY <2>1 DEF TrainingRecord
  <2>5. t.at = "starting"
    BY <1>1, <1>3, <1>6 DEF BeginTraining, EpochsInv, MarkedInv, VerdictInv, TrainingRecord, Verdicts
  <2>6. WorkerOfTraining(t) = "waiting" /\ WorkerOfTraining(new) = "working"
    BY <2>4, <2>5 DEF WorkerOfTraining
  <2> QED
    BY <1>3, <2>3, <2>4, <2>5, <2>6, WorkerStepInLifecycle DEF EpochsInv
<1>7. CASE TrackRunning(j)
  <2>1. PICK new : new = [t EXCEPT !.experiment = "running", !.at = "epoch"]
    OBVIOUS
  <2>2. training' = [training EXCEPT ![j] = new]
    BY <1>1, <1>2, <1>7, <2>1 DEF TrackRunning, TrainingRecord
  <2>3. Changes(j, t, new)
    BY <1>5, <2>2
  <2>4. /\ new.status = t.status /\ new.at = "epoch"
       /\ (new.exported <=> t.exported) /\ (new.stopping <=> t.stopping)
       /\ new.cancel = t.cancel
    BY <2>1 DEF TrainingRecord
  <2>5. t.at = "building"
    BY <1>1, <1>3, <1>7 DEF TrackRunning, EpochsInv, MarkedInv, VerdictInv, TrainingRecord, Verdicts
  <2>6. WorkerOfTraining(t) = "working" /\ WorkerOfTraining(new) = "working"
    BY <2>4, <2>5 DEF WorkerOfTraining
  <2> QED
    BY <1>3, <2>3, <2>4, <2>5, <2>6, UnseenChange
<1>8. CASE TrainEpoch(j)
  <2>1. PICK new : new = [t EXCEPT !.epochs = t.epochs + 1, !.at = "logging"]
    OBVIOUS
  <2>2. training' = [training EXCEPT ![j] = new]
    BY <1>1, <1>2, <1>8, <2>1 DEF TrainEpoch, TrainingRecord
  <2>3. Changes(j, t, new)
    BY <1>5, <2>2
  <2>4. /\ new.status = t.status /\ new.at = "logging"
       /\ (new.exported <=> t.exported) /\ (new.stopping <=> t.stopping)
       /\ new.cancel = t.cancel
    BY <2>1 DEF TrainingRecord
  <2>5. t.at = "training"
    BY <1>1, <1>3, <1>8 DEF TrainEpoch, EpochsInv, MarkedInv, VerdictInv, TrainingRecord, Verdicts
  <2>6. WorkerOfTraining(t) = "working" /\ WorkerOfTraining(new) = "working"
    BY <2>4, <2>5 DEF WorkerOfTraining
  <2> QED
    BY <1>3, <2>3, <2>4, <2>5, <2>6, UnseenChange
<1>9. CASE LogMetrics(j)
  <2>1. PICK new : new = [t EXCEPT !.metrics = t.metrics + 1, !.at = "epoch"]
    OBVIOUS
  <2>2. training' = [training EXCEPT ![j] = new]
    BY <1>1, <1>2, <1>9, <2>1 DEF LogMetrics, TrainingRecord
  <2>3. Changes(j, t, new)
    BY <1>5, <2>2
  <2>4. /\ new.status = t.status /\ new.at = "epoch"
       /\ (new.exported <=> t.exported) /\ (new.stopping <=> t.stopping)
       /\ new.cancel = t.cancel
    BY <2>1 DEF TrainingRecord
  <2>5. t.at = "logging"
    BY <1>1, <1>3, <1>9 DEF LogMetrics, EpochsInv, MarkedInv, VerdictInv, TrainingRecord, Verdicts
  <2>6. WorkerOfTraining(t) = "working" /\ WorkerOfTraining(new) = "working"
    BY <2>4, <2>5 DEF WorkerOfTraining
  <2> QED
    BY <1>3, <2>3, <2>4, <2>5, <2>6, UnseenChange
<1>10. CASE ExportModel(j)
  <2>1. PICK new : new = [t EXCEPT !.exported = TRUE, !.at = "exported"]
    OBVIOUS
  <2>2. training' = [training EXCEPT ![j] = new]
    BY <1>1, <1>2, <1>10, <2>1 DEF ExportModel, TrainingRecord
  <2>3. Changes(j, t, new)
    BY <1>5, <2>2
  <2>4. /\ new.status = t.status /\ new.at = "exported"
       /\ new.exported /\ (new.stopping <=> t.stopping)
       /\ new.cancel = t.cancel
    BY <2>1 DEF TrainingRecord
  <2>5. t.at = "exporting"
    BY <1>1, <1>3, <1>10 DEF ExportModel, EpochsInv, MarkedInv, VerdictInv, TrainingRecord, Verdicts
  <2>6. WorkerOfTraining(t) = "working" /\ WorkerOfTraining(new) = "working"
    BY <2>4, <2>5 DEF WorkerOfTraining
  <2> QED
    BY <1>3, <2>3, <2>4, <2>5, <2>6, WorkerStepInLifecycle DEF EpochsInv
<1>11. CASE CompleteTraining(j)
  <2>1. PICK new : new = [t EXCEPT !.status = "completed", !.at = "completed"]
    OBVIOUS
  <2>2. training' = [training EXCEPT ![j] = new]
    BY <1>1, <1>2, <1>11, <2>1 DEF CompleteTraining, TrainingRecord
  <2>3. Changes(j, t, new)
    BY <1>5, <2>2
  <2>4. /\ new.status = "completed" /\ new.at = "completed"
       /\ (new.exported <=> t.exported) /\ (new.stopping <=> t.stopping)
       /\ new.cancel = t.cancel
    BY <2>1 DEF TrainingRecord
  <2>5. t.at = "exported" /\ t.exported
    BY <1>1, <1>3, <1>11 DEF CompleteTraining, EpochsInv, MarkedInv, VerdictInv, TrainingRecord, Verdicts
  <2>6. WorkerOfTraining(t) = "working" /\ WorkerOfTraining(new) = "ended"
    BY <2>4, <2>5 DEF WorkerOfTraining
  <2> QED
    BY <1>3, <2>3, <2>4, <2>5, <2>6, WorkerStepInLifecycle DEF EpochsInv
<1>12. CASE FailTraining(j)
  <2>1. PICK new : new = [t EXCEPT !.status = "failed", !.at = "failed"]
    OBVIOUS
  <2>2. training' = [training EXCEPT ![j] = new]
    BY <1>1, <1>2, <1>12, <2>1 DEF FailTraining, TrainingRecord
  <2>3. Changes(j, t, new)
    BY <1>5, <2>2
  <2>4. /\ new.status = "failed" /\ new.at = "failed"
       /\ (new.exported <=> t.exported) /\ (new.stopping <=> t.stopping)
       /\ new.cancel = t.cancel
    BY <2>1 DEF TrainingRecord
  <2>5. t.at \in {"epoch", "training", "exporting"} /\ ~ t.exported
    BY <1>1, <1>3, <1>12 DEF FailTraining, EpochsInv, MarkedInv, VerdictInv, TrainingRecord, Verdicts
  <2>6. WorkerOfTraining(t) = "working" /\ WorkerOfTraining(new) = "ended"
    BY <2>4, <2>5 DEF WorkerOfTraining
  <2> QED
    BY <1>3, <2>3, <2>4, <2>5, <2>6, WorkerStepInLifecycle DEF EpochsInv
<1>13. CASE NextEpoch(j)
  <2>0. PICK place \in {"exporting", "done", "training"} :
            /\ training' = [training EXCEPT ![j].at = place]
            /\ place = "done" => t.stopping
    <3>1. CASE t.epochs = t.asked
      <4>1. training' = [training EXCEPT ![j].at = "exporting"]
        BY <1>1, <1>13, <3>1 DEF NextEpoch
      <4> QED
        BY <4>1
    <3>2. CASE t.epochs # t.asked /\ t.stopping
      <4>1. training' = [training EXCEPT ![j].at = "done"]
        BY <1>1, <1>13, <3>2 DEF NextEpoch
      <4> QED
        BY <3>2, <4>1
    <3>3. CASE t.epochs # t.asked /\ ~ t.stopping
      <4>1. training' = [training EXCEPT ![j].at = "training"]
        BY <1>1, <1>13, <3>3 DEF NextEpoch
      <4> QED
        BY <4>1
    <3> QED
      BY <3>1, <3>2, <3>3
  <2>1. PICK new : new = [t EXCEPT !.at = place]
    OBVIOUS
  <2>2. training' = [training EXCEPT ![j] = new]
    BY <1>1, <1>2, <1>13, <2>1, <2>0 DEF NextEpoch, TrainingRecord
  <2>3. Changes(j, t, new)
    BY <1>5, <2>2
  <2>4. /\ new.status = t.status /\ new.at = place
       /\ (new.exported <=> t.exported) /\ (new.stopping <=> t.stopping)
       /\ new.cancel = t.cancel
    BY <2>1 DEF TrainingRecord
  <2>5. t.at = "epoch" /\ ~ t.exported
    BY <1>1, <1>3, <1>13, <2>0 DEF NextEpoch, EpochsInv, MarkedInv, VerdictInv, TrainingRecord, Verdicts
  <2>6. WorkerOfTraining(t) = "working"
    BY <2>5 DEF WorkerOfTraining
  <2>7. CASE place = "done"
    <3>1. WorkerOfTraining(new) = "ended"
      BY <2>4, <2>7 DEF WorkerOfTraining
    <3> QED
      BY <2>0, <2>3, <2>4, <2>5, <2>6, <2>7, <3>1, WorkerStepInLifecycle
  <2>8. CASE place # "done"
    <3>1. WorkerOfTraining(new) = "working"
      BY <2>0, <2>4, <2>8 DEF WorkerOfTraining
    <3> QED
      BY <2>3, <2>4, <2>6, <3>1, UnseenChange
  <2> QED
    BY <2>7, <2>8
<1>14. CASE TrackVerdict(j)
  <2>0. PICK verdict \in {"completed", "failed"} :
            /\ t.at = verdict
            /\ training' = [training EXCEPT ![j].experiment = verdict, ![j].at = "done"]
    <3>1. PICK v \in {"completed", "failed"} : t.at = v
      BY <1>1, <1>14 DEF TrackVerdict
    <3> QED
      BY <1>1, <1>14, <3>1 DEF TrackVerdict
  <2>1. PICK new : new = [t EXCEPT !.experiment = verdict, !.at = "done"]
    OBVIOUS
  <2>2. training' = [training EXCEPT ![j] = new]
    BY <1>1, <1>2, <1>14, <2>1, <2>0 DEF TrackVerdict, TrainingRecord
  <2>3. Changes(j, t, new)
    BY <1>5, <2>2
  <2>4. /\ new.status = t.status /\ new.at = "done"
       /\ (new.exported <=> t.exported) /\ (new.stopping <=> t.stopping)
       /\ new.cancel = t.cancel
    BY <2>1 DEF TrainingRecord
  <2>5. t.at = verdict
    BY <1>1, <1>3, <1>14, <2>0 DEF TrackVerdict, EpochsInv, MarkedInv, VerdictInv, TrainingRecord, Verdicts
  <2>6. WorkerOfTraining(t) = "ended" /\ WorkerOfTraining(new) = "ended"
    BY <2>4, <2>5, <2>0 DEF WorkerOfTraining
  <2> QED
    BY <1>3, <2>3, <2>4, <2>5, <2>6, UnseenChange
<1> QED
  BY <1>6, <1>7, <1>8, <1>9, <1>10, <1>11, <1>12, <1>13, <1>14 DEF TrainingStep

LEMMA TrainingLoopInLifecycle ==
    ASSUME TrainInv, NEW j \in Trainings,
           \/ StartTraining(j) \/ LoadData(j) \/ CheckTraining(j)
           \/ MarkTraining(j) \/ TrackCancel(j)
    PROVE  TrainingLifecycle!JobStep(j) \/ UNCHANGED TrainingLifecycle!vars
<1>1. PICK t \in TrainingRecord : t = training[j]
  BY DEF TrainInv
<1>2. TrainingInv(t) /\ training \in [Trainings -> TrainingRecord]
  BY <1>1 DEF TrainInv
<1>3. EpochsInv(t) /\ MarkedInv(t) /\ VerdictInv(t)
  BY <1>2 DEF TrainingInv
<1>4. TrainInv'
  BY TrainInvLoop
<1>5. ASSUME NEW new, training' = [training EXCEPT ![j] = new]  PROVE Changes(j, t, new)
  <2>1. training'[j] = new
    BY <1>2, <1>5
  <2> QED
    BY <1>1, <1>4, <1>5, <2>1 DEF TrainInv, Changes
<1>6. CASE StartTraining(j)
  <2>1. PICK new : new = [t EXCEPT !.status = "pending", !.experiment = "pending", !.at = "loading"]
    OBVIOUS
  <2>2. training' = [training EXCEPT ![j] = new]
    BY <1>1, <1>2, <1>6, <2>1 DEF StartTraining, TrainingRecord
  <2>3. Changes(j, t, new)
    BY <1>5, <2>2
  <2>4. /\ new.status = "pending" /\ new.at = "loading"
       /\ (new.exported <=> t.exported) /\ (new.stopping <=> t.stopping)
       /\ new.cancel = t.cancel
    BY <2>1 DEF TrainingRecord
  <2>5. t.at = "nowhere"
    BY <1>1, <1>3, <1>6 DEF StartTraining, EpochsInv, MarkedInv, VerdictInv, TrainingRecord, Verdicts
  <2>6. WorkerOfTraining(t) = "none" /\ WorkerOfTraining(new) = "waiting"
    BY <2>4, <2>5 DEF WorkerOfTraining
  <2> QED
    BY <1>3, <2>3, <2>4, <2>5, <2>6, LoopStepInLifecycle
<1>7. CASE LoadData(j)
  <2>0. PICK split \in [train : Nat, val : Nat] :
            training' = [training EXCEPT ![j].split = split, ![j].at = "starting"]
    BY <1>7, SplitHasRows DEF LoadData
  <2>1. PICK new : new = [t EXCEPT !.split = split, !.at = "starting"]
    OBVIOUS
  <2>2. training' = [training EXCEPT ![j] = new]
    BY <1>1, <1>2, <1>7, <2>1, <2>0 DEF LoadData, TrainingRecord
  <2>3. Changes(j, t, new)
    BY <1>5, <2>2
  <2>4. /\ new.status = t.status /\ new.at = "starting"
       /\ (new.exported <=> t.exported) /\ (new.stopping <=> t.stopping)
       /\ new.cancel = t.cancel
    BY <2>1 DEF TrainingRecord
  <2>5. t.at = "loading"
    BY <1>1, <1>3, <1>7, <2>0 DEF LoadData, EpochsInv, MarkedInv, VerdictInv, TrainingRecord, Verdicts
  <2>6. WorkerOfTraining(t) = "waiting" /\ WorkerOfTraining(new) = "waiting"
    BY <2>4, <2>5, <2>0 DEF WorkerOfTraining
  <2> QED
    BY <1>3, <2>3, <2>4, <2>5, <2>6, UnseenChange
<1>8. CASE CheckTraining(j)
  <2>1. PICK new : new = [t EXCEPT !.cancel = "mark"]
    OBVIOUS
  <2>2. training' = [training EXCEPT ![j] = new]
    BY <1>1, <1>2, <1>8, <2>1 DEF CheckTraining, TrainingRecord
  <2>3. Changes(j, t, new)
    BY <1>5, <2>2
  <2>4. /\ new.status = t.status /\ new.at = t.at
       /\ (new.exported <=> t.exported) /\ (new.stopping <=> t.stopping)
       /\ new.cancel = "mark"
    BY <2>1 DEF TrainingRecord
  <2>5. t.status \in {"pending", "running"}
    BY <1>1, <1>3, <1>8 DEF CheckTraining, EpochsInv, MarkedInv, VerdictInv, TrainingRecord, Verdicts
  <2>6. WorkerOfTraining(new) = WorkerOfTraining(t)
    BY <2>4, <2>5 DEF WorkerOfTraining
  <2> QED
    BY <1>3, <2>3, <2>4, <2>5, <2>6, LoopStepInLifecycle
<1>9. CASE MarkTraining(j)
  <2>1. PICK new : new = [t EXCEPT !.stopping = TRUE, !.status = "cancelled", !.cancel = "track",
                             !.marked = [at |-> t.at, epochs |-> t.epochs]]
    OBVIOUS
  <2>2. training' = [training EXCEPT ![j] = new]
    BY <1>1, <1>2, <1>9, <2>1 DEF MarkTraining, TrainingRecord
  <2>3. Changes(j, t, new)
    BY <1>5, <2>2
  <2>4. /\ new.status = "cancelled" /\ new.at = t.at
       /\ (new.exported <=> t.exported) /\ new.stopping
       /\ new.cancel = "track"
    BY <2>1 DEF TrainingRecord
  <2>5. t.cancel = "mark"
    BY <1>1, <1>3, <1>9 DEF MarkTraining, EpochsInv, MarkedInv, VerdictInv, TrainingRecord, Verdicts
  <2>6. WorkerOfTraining(new) = WorkerOfTraining(t)
    BY <2>4, <2>5 DEF WorkerOfTraining
  <2> QED
    BY <1>3, <2>3, <2>4, <2>5, <2>6, LoopStepInLifecycle
<1>10. CASE TrackCancel(j)
  <2>1. PICK new : new = [t EXCEPT !.experiment = "cancelled", !.cancel = "none"]
    OBVIOUS
  <2>2. training' = [training EXCEPT ![j] = new]
    BY <1>1, <1>2, <1>10, <2>1 DEF TrackCancel, TrainingRecord
  <2>3. Changes(j, t, new)
    BY <1>5, <2>2
  <2>4. /\ new.status = t.status /\ new.at = t.at
       /\ (new.exported <=> t.exported) /\ (new.stopping <=> t.stopping)
       /\ new.cancel = "none"
    BY <2>1 DEF TrainingRecord
  <2>5. t.cancel = "track"
    BY <1>1, <1>3, <1>10 DEF TrackCancel, EpochsInv, MarkedInv, VerdictInv, TrainingRecord, Verdicts
  <2>6. WorkerOfTraining(new) = WorkerOfTraining(t)
    BY <2>4, <2>5 DEF WorkerOfTraining
  <2> QED
    BY <1>3, <2>3, <2>4, <2>5, <2>6, UnseenChange
<1> QED
  BY <1>6, <1>7, <1>8, <1>9, <1>10

(***************************************************************************)
(* The training engine implements JobLifecycle too: its two records may be *)
(* written one after the other, its jobs cancelled in between, and a model *)
(* is still there before "completed" is, a job cancelled while it loads is *)
(* begun all the same, and only a cancelled one ends without a verdict.    *)
(***************************************************************************)
THEOREM TrainingJobsAlwaysBehave ==
    TrainInit /\ [][TrainNext]_training => TrainingJobsBehave
<1>1. TrainInit => TrainingLifecycle!Init
  <2> SUFFICES ASSUME TrainInit  PROVE TrainingLifecycle!Init
    OBVIOUS
  <2>1. ASSUME NEW j \in Trainings
        PROVE  /\ training[j].status = "absent" /\ training[j].at = "nowhere"
               /\ ~ training[j].exported /\ training[j].cancel = "none"
               /\ ~ training[j].stopping
    BY DEF TrainInit
  <2>2. [j \in Trainings |-> training[j].status] = [j \in Trainings |-> "absent"]
    BY <2>1
  <2>3. [j \in Trainings |-> WorkerOfTraining(training[j])] = [j \in Trainings |-> "none"]
    BY <2>1 DEF WorkerOfTraining
  <2>4. /\ {j \in Trainings : training[j].exported} = {}
       /\ {j \in Trainings : training[j].cancel = "mark"} = {}
       /\ {j \in Trainings : training[j].stopping} = {}
    BY <2>1
  <2> QED
    BY <2>2, <2>3, <2>4 DEF TrainingLifecycle!Init
<1>2. TrainInv /\ [TrainNext]_training =>
          [TrainingLifecycle!Next]_(TrainingLifecycle!vars)
  <2> SUFFICES ASSUME TrainInv, [TrainNext]_training
               PROVE  TrainingLifecycle!Next \/ UNCHANGED TrainingLifecycle!vars
    OBVIOUS
  <2>1. CASE UNCHANGED training
    BY <2>1 DEF TrainingLifecycle!vars, WorkerOfTraining
  <2>2. CASE TrainNext
    BY <2>2, TrainingLoopInLifecycle, TrainingThreadInLifecycle
    DEF TrainNext, TrainingLifecycle!Next
  <2> QED
    BY <2>1, <2>2
<1> QED
  BY <1>1, <1>2, TrainInvInit, TrainInvNext, TrainingAlwaysReported, PTL
  DEF TrainingJobsBehave, TrainingLifecycle!Spec

-----------------------------------------------------------------------------
(***************************************************************************)
(* Firmware rollouts.  The node in hand is the only one left that may have *)
(* the version of its rollout, and those that were left behind were found  *)
(* healthy under it.                                                       *)
(***************************************************************************)

\* A set of numbers has a least element.
LEMMA SmallestOf ==
    ASSUME NEW T \in SUBSET Nat, T # {}
    PROVE  \E i \in T : \A j \in T : i <= j
<1> DEFINE Below(i) == {k \in T : k <= i}
           Segments == {Below(i) : i \in T}
<1>1. \A i \in T : IsFiniteSet(Below(i))
  <2> SUFFICES ASSUME NEW i \in T  PROVE IsFiniteSet(Below(i))
    OBVIOUS
  <2>1. i \in Int /\ 0 \in Int /\ \A k \in Below(i) : k \in 0..i
    OBVIOUS
  <2>2. IsFiniteSet(0..i)
    BY <2>1, FS_Interval
  <2>3. Below(i) \subseteq 0..i
    BY <2>1
  <2> QED
    BY <2>2, <2>3, FS_Subset
<1>2. Segments \subseteq FiniteSubsetsOf(T) /\ Segments # {}
  BY <1>1 DEF FiniteSubsetsOf
<1>3. PICK s \in Segments : \A t \in Segments : ~ (<<t, s>> \in StrictSubsetOrdering(T))
  <2> HIDE DEF Segments
  <2> QED
    BY <1>2, FS_StrictSubsetOrderingWellFounded, WFMin
<1>4. PICK i \in T : s = Below(i)
  OBVIOUS
<1>5. ASSUME NEW j \in T, ~ (i <= j)  PROVE FALSE
  <2>0. j < i
    BY <1>5
  <2>1. i \in Nat /\ j \in Nat /\ \A k \in T : k \in Nat
    OBVIOUS
  <2>2. i \in Below(i) /\ i \notin Below(j)
    BY <2>0, <2>1
  <2>3. ASSUME NEW k \in Below(j)  PROVE k \in Below(i)
    <3>1. k \in T /\ k \in Nat /\ k <= j
      BY <2>1
    <3>2. k <= i
      BY <2>0, <2>1, <3>1
    <3> QED
      BY <3>1, <3>2
  <2>4. <<Below(j), s>> \in StrictSubsetOrdering(T)
    BY <1>4, <2>2, <2>3 DEF StrictSubsetOrdering
  <2> QED
    BY <1>3, <2>4
<1> QED
  BY <1>5

\* The node in hand is one of those left to do.
LEMMA FirstIsThere ==
    ASSUME NEW nodes \in SUBSET OtaNodes, nodes # {}
    PROVE  First(nodes) \in nodes
<1> DEFINE Positions == {i \in DOMAIN NodeOrder : NodeOrder[i] \in nodes}
<1>1. Positions \in SUBSET Nat /\ Positions # {}
  BY OtaAssumption DEF OtaNodes
<1>2. \E i \in Positions : \A j \in Positions : i <= j
  BY <1>1, SmallestOf
<1>3. \E i \in DOMAIN NodeOrder :
          /\ NodeOrder[i] \in nodes
          /\ \A j \in DOMAIN NodeOrder : NodeOrder[j] \in nodes => i <= j
  BY <1>2
<1> QED
  BY <1>3 DEF First

RolloutRecord ==
    [kind : {"none", "rolling", "canary"},
     at : {"idle", "update", "health", "watch", "rollback", "report", "complete",
           "done", "raised", "lost"},
     todo : SUBSET OtaNodes, polls : Nat,
     results : [OtaNodes -> {"none", "updated", "rollback"}], watched : BOOLEAN,
     events : Seq({"started", "failed", "completed"})]

OtaTypes ==
    /\ target \in [OtaNodes -> Rollouts \cup {NoVersion}]
    /\ alive \in SUBSET OtaNodes
    /\ rollout \in [Rollouts -> RolloutRecord]

\* The record of a rollout, by the place it is at.
InHandInv(r, it) ==
    /\ it.at = "idle" => it = Unstarted
    /\ it.at \in {"update", "health", "watch", "rollback", "report"} => it.todo # {}
    /\ it.at = "complete" => it.todo = {}
    /\ it.at \in {"update", "health", "watch"} => it.results[First(it.todo)] # "rollback"
    /\ it.at = "update" => it.results[First(it.todo)] = "none"
    /\ \A n \in it.todo : n # First(it.todo) => it.results[n] = "none"

\* The nodes that have its version: found healthy, or the one in hand.
CarriersInv(r, it) ==
    \A n \in OtaNodes : target[n] = r =>
        /\ it.at # "idle"
        /\ n \notin it.todo => it.results[n] = "updated"
        /\ n \in it.todo => n = First(it.todo)
        /\ n \in it.todo => it.at \notin {"update", "report", "complete", "done"}
        /\ n \in it.todo /\ it.at = "raised" => "redis" \in otaFaults
        /\ it.kind = "canary" /\ ~ it.watched => n \in it.todo

\* A node that was given the version has it until another rollout begins.
HasHad(it, n) ==
    it.results[n] = "updated" \/ (it.at \in {"health", "watch"} /\ n = First(it.todo))
OthersBegan(r) == \E q \in Rollouts \ {r} : rollout[q].at # "idle"

KeptInv(r, it) ==
    /\ it.at = "lost" => "crash" \in otaFaults
    /\ \A i \in DOMAIN it.events : it.events[i] = "completed" => it.at = "done"
    /\ \A n \in OtaNodes :
          otaFaults = {} /\ HasHad(it, n) => target[n] = r \/ OthersBegan(r)

RolloutInv(r, it) == InHandInv(r, it) /\ CarriersInv(r, it) /\ KeptInv(r, it)
OtaInv == OtaTypes /\ \A r \in Rollouts : RolloutInv(r, rollout[r])

LEMMA OtaInvInit == OtaInit => OtaInv
<1> SUFFICES ASSUME OtaInit  PROVE OtaInv
  OBVIOUS
<1>1. Unstarted \in RolloutRecord
  BY DEF Unstarted, RolloutRecord
<1>2. OtaTypes
  BY <1>1 DEF OtaInit, OtaTypes
<1>3. ASSUME NEW r \in Rollouts  PROVE RolloutInv(r, rollout[r])
  <2>1. rollout[r] = Unstarted /\ \A n \in OtaNodes : target[n] # r
    BY OtaAssumption DEF OtaInit
  <2>2. InHandInv(r, Unstarted)
    BY DEF InHandInv, Unstarted
  <2>3. CarriersInv(r, Unstarted)
    BY <2>1 DEF CarriersInv
  <2>4. KeptInv(r, Unstarted)
    BY DEF KeptInv, HasHad, Unstarted
  <2> QED
    BY <2>1, <2>2, <2>3, <2>4 DEF RolloutInv
<1> QED
  BY <1>2, <1>3 DEF OtaInv

\* A step of one rollout, to be judged by what it makes of that rollout.
LEMMA OneMoves ==
    ASSUME OtaInv, NEW r \in Rollouts, NEW new \in RolloutRecord,
           rollout' = [rollout EXCEPT ![r] = new], new.at # "idle",
           target' \in [OtaNodes -> Rollouts \cup {NoVersion}],
           \A n \in OtaNodes : target'[n] \in {target[n], r, NoVersion},
           UNCHANGED <<alive, otaFaults>>,
           InHandInv(r, new), CarriersInv(r, new)', KeptInv(r, new)'
    PROVE  OtaInv'
<1>1. OtaTypes'
  BY DEF OtaInv, OtaTypes
<1>2. rollout'[r] = new /\ RolloutInv(r, new)'
  BY DEF OtaInv, OtaTypes, RolloutInv, InHandInv
<1>3. ASSUME NEW q \in Rollouts, q # r  PROVE RolloutInv(q, rollout[q])'
  <2>1. rollout'[q] = rollout[q] /\ rollout'[r].at # "idle"
    BY <1>3 DEF OtaInv, OtaTypes
  <2>2. PICK it : it = rollout[q]
    OBVIOUS
  <2>3. InHandInv(q, it) /\ CarriersInv(q, it) /\ KeptInv(q, it)
    BY <2>2 DEF OtaInv, RolloutInv
  <2>4. \A n \in OtaNodes : target'[n] = q => target[n] = q
    BY <1>3, OtaAssumption
  <2>5. CarriersInv(q, it)'
    BY <2>3, <2>4 DEF CarriersInv
  <2>6. OthersBegan(q)'
    BY <1>3, <2>1 DEF OthersBegan
  <2>7. KeptInv(q, it)'
    BY <2>3, <2>6 DEF KeptInv
  <2>8. InHandInv(q, it)'
    BY <2>3 DEF InHandInv
  <2> QED
    BY <2>1, <2>2, <2>5, <2>7, <2>8 DEF RolloutInv
<1> QED
  BY <1>1, <1>2, <1>3 DEF OtaInv

LEMMA OtaInvRaise ==
    ASSUME OtaInv, NEW r \in Rollouts, ~ RolloutEnded(r), "redis" \in otaFaults,
           rollout' = [rollout EXCEPT ![r].at = "raised"],
           UNCHANGED <<target, alive, otaFaults>>
    PROVE  OtaInv'
<1>1. PICK it \in RolloutRecord : it = rollout[r]
  BY DEF OtaInv, OtaTypes
<1>2. InHandInv(r, it) /\ CarriersInv(r, it) /\ KeptInv(r, it)
  BY <1>1 DEF OtaInv, RolloutInv
<1>3. PICK new : new = [it EXCEPT !.at = "raised"]
  OBVIOUS
<1>4. rollout' = [rollout EXCEPT ![r] = new] /\ new \in RolloutRecord
  BY <1>1, <1>3 DEF OtaInv, OtaTypes, RolloutRecord
<1>5. /\ new.at = "raised" /\ new.todo = it.todo /\ new.results = it.results
      /\ new.events = it.events /\ new.kind = it.kind /\ new.watched = it.watched
  BY <1>3 DEF RolloutRecord
<1>6. InHandInv(r, new)
  BY <1>2, <1>5 DEF InHandInv
<1>7. CarriersInv(r, new)'
  BY <1>2, <1>5 DEF CarriersInv
<1>8. it.at # "done"
  BY <1>1 DEF RolloutEnded
<1>9. KeptInv(r, new)'
  BY <1>2, <1>5, <1>8 DEF KeptInv, HasHad
<1> QED
  BY <1>4, <1>5, <1>6, <1>7, <1>9, OneMoves DEF OtaInv, OtaTypes

\* An event that is not the last one of a rollout that completed.
LEMMA EventAppended ==
    ASSUME NEW es \in Seq({"started", "failed", "completed"}),
           NEW e \in {"started", "failed", "completed"},
           \A i \in DOMAIN es : es[i] # "completed"
    PROVE  /\ Append(es, e) \in Seq({"started", "failed", "completed"})
           /\ e # "completed" => \A i \in DOMAIN Append(es, e) : Append(es, e)[i] # "completed"
BY AppendProperties

LEMMA OtaInvStart ==
    ASSUME OtaInv, NEW r \in Rollouts, StartRolling(r) \/ StartCanary(r)
    PROVE  OtaInv'
<1>1. /\ rollout[r] = Unstarted /\ UNCHANGED <<target, alive, otaFaults>>
      /\ alive \in SUBSET OtaNodes /\ OtaTypes
  BY DEF StartRolling, StartCanary, OtaInv, RolloutInv, InHandInv, OtaTypes
<1>2. \A n \in OtaNodes : target[n] # r
  BY <1>1 DEF OtaInv, RolloutInv, CarriersInv, Unstarted
<1>3. CASE "redis" \in otaFaults /\ rollout' = [rollout EXCEPT ![r].at = "raised"]
  <2>1. rollout[r].at = "idle"
    BY <1>1 DEF Unstarted
  <2>2. ~ RolloutEnded(r)
    BY <2>1 DEF RolloutEnded
  <2> QED
    BY <1>1, <1>3, <2>2, OtaInvRaise
<1>4. ASSUME NEW nodes \in SUBSET OtaNodes, NEW kind \in {"rolling", "canary"},
             NEW at \in {"update", "complete", "done"}, at # "update" => nodes = {},
             at = "update" => nodes # {},
             NEW es \in {<<>>, <<"started">>},
             rollout' = [rollout EXCEPT ![r] = [Unstarted EXCEPT
                            !.kind = kind, !.todo = nodes, !.at = at, !.events = es]]
      PROVE  OtaInv'
  <2>1. PICK new : new = [Unstarted EXCEPT !.kind = kind, !.todo = nodes, !.at = at,
                                           !.events = es]
    OBVIOUS
  <2>2. /\ new.at = at /\ new.todo = nodes /\ new.kind = kind /\ ~ new.watched
        /\ new.events = es /\ new.results = [n \in OtaNodes |-> "none"] /\ new.polls = 0
    BY <2>1 DEF Unstarted
  <2>3. es \in Seq({"started", "failed", "completed"}) /\ \A i \in DOMAIN es : es[i] # "completed"
    <3>1. CASE es = <<>>
      BY <3>1, EmptySeq
    <3>2. CASE es = <<"started">>
      BY <3>2
    <3> QED
      BY <3>1, <3>2
  <2>4. new \in RolloutRecord
    BY <2>1, <2>3 DEF Unstarted, RolloutRecord
  <2>5. InHandInv(r, new)
    <3>1. nodes # {} => First(nodes) \in OtaNodes
      BY FirstIsThere
    <3> QED
      BY <1>4, <2>2, <3>1 DEF InHandInv
  <2>6. CarriersInv(r, new)'
    BY <1>1, <1>2 DEF CarriersInv
  <2>7. KeptInv(r, new)'
    BY <1>4, <2>2, <2>3 DEF KeptInv, HasHad
  <2> QED
    BY <1>1, <1>4, <2>1, <2>2, <2>4, <2>5, <2>6, <2>7, OneMoves DEF OtaTypes
<1>5. CASE StartRolling(r)
  <2>1. CASE \E nodes \in {OtaNodes, alive} : rollout' = [rollout EXCEPT ![r] =
                  [[Unstarted EXCEPT !.kind = "rolling", !.todo = nodes,
                                     !.at = Onward(nodes)]
                   EXCEPT !.events = Append([Unstarted EXCEPT !.kind = "rolling",
                             !.todo = nodes, !.at = Onward(nodes)].events, "started")]]
    <3>1. PICK nodes \in SUBSET OtaNodes : rollout' = [rollout EXCEPT ![r] =
                  [[Unstarted EXCEPT !.kind = "rolling", !.todo = nodes,
                                     !.at = Onward(nodes)]
                   EXCEPT !.events = Append([Unstarted EXCEPT !.kind = "rolling",
                             !.todo = nodes, !.at = Onward(nodes)].events, "started")]]
      BY <1>1, <2>1
    <3>2. rollout' = [rollout EXCEPT ![r] =
                  [Unstarted EXCEPT !.kind = "rolling", !.todo = nodes,
                                    !.at = Onward(nodes), !.events = <<"started">>]]
      BY <3>1 DEF Unstarted
    <3> QED
      BY <1>4, <3>2 DEF Onward
  <2> QED
    BY <1>3, <1>5, <2>1 DEF StartRolling, Record
<1>6. CASE StartCanary(r)
  <2>1. CASE alive = {} /\ rollout' = [rollout EXCEPT ![r].at = "done", ![r].kind = "canary"]
    <3>1. rollout' = [rollout EXCEPT ![r] = [Unstarted EXCEPT
                          !.kind = "canary", !.todo = {}, !.at = "done", !.events = <<>>]]
      BY <1>1, <2>1 DEF Unstarted, OtaTypes
    <3> QED
      BY <1>4, <3>1
  <2>2. CASE alive # {} /\ rollout' = [rollout EXCEPT ![r] =
                  [[Unstarted EXCEPT !.kind = "canary", !.todo = alive, !.at = "update"]
                   EXCEPT !.events = Append([Unstarted EXCEPT !.kind = "canary",
                             !.todo = alive, !.at = "update"].events, "started")]]
    <3>1. rollout' = [rollout EXCEPT ![r] = [Unstarted EXCEPT
                          !.kind = "canary", !.todo = alive, !.at = "update",
                          !.events = <<"started">>]]
      BY <2>2 DEF Unstarted
    <3> QED
      BY <1>1, <1>4, <2>2, <3>1
  <2> QED
    BY <1>3, <1>6, <2>1, <2>2 DEF StartCanary, Record
<1> QED
  BY <1>5, <1>6

LEMMA OtaInvUpdateNode ==
    ASSUME OtaInv, NEW r \in Rollouts, UpdateNode(r)
    PROVE  OtaInv'
<1>1. PICK it \in RolloutRecord : it = rollout[r]
  BY DEF OtaInv, OtaTypes
<1>2. InHandInv(r, it) /\ CarriersInv(r, it) /\ KeptInv(r, it) /\ OtaTypes
  BY <1>1 DEF OtaInv, RolloutInv
<1>3. PICK n \in it.todo : n = First(it.todo) /\ n = InHand(r) /\ n \in OtaNodes
  BY <1>1, <1>2, FirstIsThere DEF UpdateNode, InHandInv, InHand, RolloutRecord
<1>4. CASE "redis" \in otaFaults /\ rollout' = [rollout EXCEPT ![r].at = "raised"]
           /\ UNCHANGED target
  <2>1. ~ RolloutEnded(r)
    BY DEF RolloutEnded, UpdateNode
  <2> QED
    BY <1>4, <2>1, OtaInvRaise DEF UpdateNode
<1>5. CASE /\ target' = [target EXCEPT ![n] = r]
           /\ rollout' = [rollout EXCEPT ![r].at = "health", ![r].polls = 0]
  <2>1. PICK new : new = [it EXCEPT !.at = "health", !.polls = 0]
    OBVIOUS
  <2>2. rollout' = [rollout EXCEPT ![r] = new] /\ new \in RolloutRecord
    BY <1>1, <1>2, <1>5, <2>1 DEF OtaTypes, RolloutRecord
  <2>3. /\ new.at = "health" /\ new.todo = it.todo /\ new.results = it.results
        /\ new.events = it.events /\ new.kind = it.kind /\ new.watched = it.watched
    BY <2>1 DEF RolloutRecord
  <2>4. it.at = "update" /\ UNCHANGED <<alive, otaFaults>>
    BY <1>1 DEF UpdateNode
  <2>5. /\ target' \in [OtaNodes -> Rollouts \cup {NoVersion}] /\ target'[n] = r
        /\ \A m \in OtaNodes \ {n} : target'[m] = target[m]
    BY <1>2, <1>3, <1>5 DEF OtaTypes
  <2>6. InHandInv(r, new)
    BY <1>2, <2>3, <2>4 DEF InHandInv
  <2>7. CarriersInv(r, new)'
    BY <1>2, <1>3, <2>3, <2>4, <2>5 DEF CarriersInv
  <2>8. KeptInv(r, new)'
    <3>1. OthersBegan(r) => OthersBegan(r)'
      BY <1>2, <2>2 DEF OthersBegan, OtaTypes
    <3> QED
      BY <1>2, <1>3, <2>3, <2>4, <2>5, <3>1 DEF KeptInv, HasHad
  <2> QED
    BY <2>2, <2>3, <2>4, <2>5, <2>6, <2>7, <2>8, OneMoves
<1> QED
  BY <1>3, <1>4, <1>5 DEF UpdateNode

LEMMA OtaInvRollback ==
    ASSUME OtaInv, NEW r \in Rollouts, Rollback(r)
    PROVE  OtaInv'
<1>1. PICK it \in RolloutRecord : it = rollout[r]
  BY DEF OtaInv, OtaTypes
<1>2. InHandInv(r, it) /\ CarriersInv(r, it) /\ KeptInv(r, it) /\ OtaTypes
  BY <1>1 DEF OtaInv, RolloutInv
<1>3. PICK n \in it.todo : n = First(it.todo) /\ n = InHand(r) /\ n \in OtaNodes
  BY <1>1, <1>2, FirstIsThere DEF Rollback, InHandInv, InHand, RolloutRecord
<1>4. CASE "redis" \in otaFaults /\ rollout' = [rollout EXCEPT ![r].at = "raised"]
           /\ UNCHANGED target
  <2>1. ~ RolloutEnded(r)
    BY DEF RolloutEnded, Rollback
  <2> QED
    BY <1>4, <2>1, OtaInvRaise DEF Rollback
<1>5. CASE /\ target' = [target EXCEPT ![n] = NoVersion]
           /\ rollout' = [rollout EXCEPT
                 ![r].at = IF IsCanary(r) THEN "raised" ELSE "report",
                 ![r].results[n] = "rollback"]
  <2>1. PICK at \in {"raised", "report"} : at = IF IsCanary(r) THEN "raised" ELSE "report"
    OBVIOUS
  <2>2. PICK new : new = [it EXCEPT !.at = at, !.results[n] = "rollback"]
    OBVIOUS
  <2>3. rollout' = [rollout EXCEPT ![r] = new] /\ new \in RolloutRecord
    BY <1>1, <1>2, <1>5, <2>1, <2>2 DEF OtaTypes, RolloutRecord
  <2>4. /\ new.at = at /\ new.todo = it.todo /\ new.results = [it.results EXCEPT ![n] = "rollback"]
        /\ new.events = it.events /\ new.kind = it.kind /\ new.watched = it.watched
    BY <2>2 DEF RolloutRecord
  <2>5. it.at = "rollback" /\ UNCHANGED <<alive, otaFaults>>
    BY <1>1 DEF Rollback
  <2>6. /\ target' \in [OtaNodes -> Rollouts \cup {NoVersion}] /\ target'[n] = NoVersion
        /\ \A m \in OtaNodes \ {n} : target'[m] = target[m]
        /\ NoVersion # r
    BY <1>2, <1>3, <1>5, OtaAssumption DEF OtaTypes
  <2>7. /\ new.results[n] = "rollback" /\ it.results \in [OtaNodes -> {"none", "updated", "rollback"}]
        /\ \A m \in OtaNodes \ {n} : new.results[m] = it.results[m]
    BY <1>3, <2>4 DEF RolloutRecord
  <2>8. InHandInv(r, new)
    <3>1. it.todo # {} /\ it.todo \subseteq OtaNodes
      BY <1>2, <2>5 DEF InHandInv, RolloutRecord
    <3>2. \A m \in it.todo : m # n => new.results[m] = "none"
      BY <1>2, <1>3, <2>7, <3>1 DEF InHandInv
    <3> QED
      BY <1>3, <2>1, <2>4, <3>1, <3>2 DEF InHandInv
  <2>9. CarriersInv(r, new)'
    BY <1>2, <1>3, <2>1, <2>4, <2>5, <2>6, <2>7 DEF CarriersInv
  <2>10. KeptInv(r, new)'
    <3>1. OthersBegan(r) => OthersBegan(r)'
      BY <1>2, <2>3 DEF OthersBegan, OtaTypes
    <3> QED
      BY <1>2, <1>3, <2>1, <2>4, <2>5, <2>6, <2>7, <3>1 DEF KeptInv, HasHad
  <2> QED
    BY <2>1, <2>3, <2>4, <2>5, <2>6, <2>8, <2>9, <2>10, OneMoves
<1> QED
  BY <1>3, <1>4, <1>5 DEF Rollback

LEMMA OtaInvRecord ==
    ASSUME OtaInv, NEW r \in Rollouts, RecordFailure(r) \/ RecordCompletion(r)
    PROVE  OtaInv'
<1>1. PICK it \in RolloutRecord : it = rollout[r]
  BY DEF OtaInv, OtaTypes
<1>2. InHandInv(r, it) /\ CarriersInv(r, it) /\ KeptInv(r, it) /\ OtaTypes
  BY <1>1 DEF OtaInv, RolloutInv
<1>3. it.at \in {"report", "complete"} /\ UNCHANGED <<target, alive, otaFaults>>
  BY <1>1 DEF RecordFailure, RecordCompletion
<1>4. CASE "redis" \in otaFaults /\ rollout' = [rollout EXCEPT ![r].at = "raised"]
  <2>1. ~ RolloutEnded(r)
    BY <1>1, <1>3 DEF RolloutEnded
  <2> QED
    BY <1>3, <1>4, <2>1, OtaInvRaise
<1>5. ASSUME NEW at \in {"raised", "done"}, NEW event \in {"failed", "completed"},
             at = "raised" => it.at = "report" /\ event = "failed",
             at = "done" => it.at = "complete",
             rollout' = [rollout EXCEPT ![r] =
                 [[it EXCEPT !.at = at] EXCEPT !.events = Append([it EXCEPT !.at = at].events, event)]]
      PROVE  OtaInv'
  <2>1. PICK new : new = [it EXCEPT !.at = at, !.events = Append(it.events, event)]
    OBVIOUS
  <2>2. rollout' = [rollout EXCEPT ![r] = new]
    BY <1>5, <2>1 DEF RolloutRecord
  <2>3. /\ it.events \in Seq({"started", "failed", "completed"})
        /\ \A i \in DOMAIN it.events : it.events[i] # "completed"
    BY <1>2, <1>3 DEF KeptInv, RolloutRecord
  <2>4. /\ Append(it.events, event) \in Seq({"started", "failed", "completed"})
        /\ event # "completed" => \A i \in DOMAIN Append(it.events, event) :
                                      Append(it.events, event)[i] # "completed"
    BY <2>3, EventAppended
  <2>5. rollout' = [rollout EXCEPT ![r] = new] /\ new \in RolloutRecord
    BY <2>1, <2>2, <2>4 DEF RolloutRecord
  <2>6. /\ new.at = at /\ new.todo = it.todo /\ new.results = it.results
        /\ new.events = Append(it.events, event) /\ new.kind = it.kind
        /\ new.watched = it.watched
    BY <2>1 DEF RolloutRecord
  <2>7. InHandInv(r, new)
    BY <1>2, <1>3, <2>6 DEF InHandInv
  <2>8. CarriersInv(r, new)'
    BY <1>2, <1>3, <1>5, <2>6 DEF CarriersInv, InHandInv
  <2>9. KeptInv(r, new)'
    <3>1. OthersBegan(r) => OthersBegan(r)'
      BY <1>2, <2>5 DEF OthersBegan, OtaTypes
    <3> QED
      BY <1>2, <1>3, <1>5, <2>4, <2>6, <3>1 DEF KeptInv, HasHad
  <2> QED
    BY <1>2, <1>3, <2>5, <2>6, <2>7, <2>8, <2>9, OneMoves DEF OtaTypes
<1>6. CASE RecordFailure(r)
  BY <1>1, <1>4, <1>5, <1>6 DEF RecordFailure, Record
<1>7. CASE RecordCompletion(r)
  BY <1>1, <1>4, <1>5, <1>7 DEF RecordCompletion, Record
<1> QED
  BY <1>6, <1>7

LEMMA OtaInvEnvironment ==
    ASSUME OtaInv, StatusChanges \/ CrashCoordinator
    PROVE  OtaInv'
<1>1. OtaTypes /\ \A r \in Rollouts : RolloutInv(r, rollout[r])
  BY DEF OtaInv
<1>2. CASE StatusChanges
  <2>1. OtaTypes' /\ UNCHANGED <<target, rollout, otaFaults>>
    BY <1>1, <1>2 DEF StatusChanges, OtaTypes
  <2> QED
    BY <1>1, <2>1 DEF OtaInv, RolloutInv, InHandInv, CarriersInv, KeptInv, OthersBegan, HasHad
<1>3. CASE CrashCoordinator
  <2>1. /\ UNCHANGED <<target, alive, otaFaults>> /\ "crash" \in otaFaults
        /\ rollout' = [r \in Rollouts |->
               IF rollout[r].at = "idle" \/ RolloutEnded(r) THEN rollout[r]
               ELSE [rollout[r] EXCEPT !.at = "lost"]]
    BY <1>3 DEF CrashCoordinator
  <2>2. ASSUME NEW r \in Rollouts
        PROVE  /\ rollout'[r] \in RolloutRecord
               /\ rollout[r].at = "idle" <=> rollout'[r].at = "idle"
    <3>1. PICK it \in RolloutRecord : it = rollout[r]
      BY <1>1 DEF OtaTypes
    <3>2. CASE it.at = "idle" \/ RolloutEnded(r)
      BY <2>1, <3>1, <3>2
    <3>3. CASE ~ (it.at = "idle" \/ RolloutEnded(r))
      <4>1. rollout'[r] = [it EXCEPT !.at = "lost"]
        BY <2>1, <3>1, <3>3
      <4>2. [it EXCEPT !.at = "lost"] \in RolloutRecord
        BY DEF RolloutRecord
      <4>3. [it EXCEPT !.at = "lost"].at = "lost"
        BY DEF RolloutRecord
      <4> QED
        BY <3>1, <3>3, <4>1, <4>2, <4>3
    <3> QED
      BY <3>2, <3>3
  <2>3. OtaTypes'
    BY <1>1, <2>1, <2>2 DEF OtaTypes
  <2>4. ASSUME NEW r \in Rollouts  PROVE RolloutInv(r, rollout[r])'
    <3>1. PICK it \in RolloutRecord : it = rollout[r]
      BY <1>1 DEF OtaTypes
    <3>2. InHandInv(r, it) /\ CarriersInv(r, it) /\ KeptInv(r, it)
      BY <1>1, <3>1 DEF RolloutInv
    <3>3. OthersBegan(r)' <=> OthersBegan(r)
      BY <2>2 DEF OthersBegan
    <3>4. CASE rollout'[r] = it
      BY <2>1, <3>2, <3>3, <3>4 DEF RolloutInv, InHandInv, CarriersInv, KeptInv, HasHad
    <3>5. CASE it.at # "idle" /\ it.at # "done" /\ rollout'[r] = [it EXCEPT !.at = "lost"]
      <4>1. PICK new : new = [it EXCEPT !.at = "lost"]
        OBVIOUS
      <4>2. /\ new.at = "lost" /\ new.todo = it.todo /\ new.results = it.results
            /\ new.events = it.events /\ new.kind = it.kind /\ new.watched = it.watched
        BY <4>1 DEF RolloutRecord
      <4>3. InHandInv(r, new)
        BY <3>2, <4>2 DEF InHandInv
      <4>4. CarriersInv(r, new)'
        BY <2>1, <3>2, <4>2 DEF CarriersInv
      <4>5. KeptInv(r, new)'
        BY <2>1, <3>2, <3>3, <3>5, <4>2 DEF KeptInv, HasHad
      <4>6. RolloutInv(r, new)'
        BY <4>3, <4>4, <4>5 DEF RolloutInv, InHandInv
      <4> QED
        BY <3>5, <4>1, <4>6
    <3> QED
      BY <2>1, <3>1, <3>4, <3>5 DEF RolloutEnded
  <2> QED
    BY <2>3, <2>4 DEF OtaInv
<1> QED
  BY <1>2, <1>3

LEMMA OtaInvHealth ==
    ASSUME OtaInv, NEW r \in Rollouts, PollHealth(r) \/ EndWatch(r)
    PROVE  OtaInv'
<1>1. PICK it \in RolloutRecord : it = rollout[r]
  BY DEF OtaInv, OtaTypes
<1>2. InHandInv(r, it) /\ CarriersInv(r, it) /\ KeptInv(r, it) /\ OtaTypes
  BY <1>1 DEF OtaInv, RolloutInv
<1>3. it.at \in {"health", "watch"} /\ UNCHANGED <<target, alive, otaFaults>>
  BY <1>1 DEF PollHealth, EndWatch
<1>4. PICK n \in it.todo : n = First(it.todo) /\ n = InHand(r) /\ n \in OtaNodes
  BY <1>1, <1>2, <1>3, FirstIsThere DEF InHandInv, InHand, RolloutRecord
<1>5. OthersBegan(r) => \A new : rollout' = [rollout EXCEPT ![r] = new] => OthersBegan(r)'
  BY <1>2 DEF OthersBegan, OtaTypes
<1> DEFINE Passed == [it.results EXCEPT ![n] = "updated"]
           Left == it.todo \ {n}
<1>6. /\ Passed \in [OtaNodes -> {"none", "updated", "rollback"}] /\ Passed[n] = "updated"
      /\ \A m \in OtaNodes \ {n} : Passed[m] = it.results[m]
      /\ it.todo \in SUBSET OtaNodes
  BY <1>4 DEF RolloutRecord
\* The node in hand stays in hand.
<1>7. ASSUME NEW at \in {"health", "watch", "rollback"}, NEW polls \in Nat,
             NEW found \in {it.results, Passed}, at = "watch" => found = Passed,
             rollout' = [rollout EXCEPT ![r] =
                 [it EXCEPT !.at = at, !.polls = polls, !.results = found]]
      PROVE  OtaInv'
  <2>1. PICK new : new = [it EXCEPT !.at = at, !.polls = polls, !.results = found]
    OBVIOUS
  <2>2. found \in [OtaNodes -> {"none", "updated", "rollback"}]
    BY <1>6 DEF RolloutRecord
  <2>3. rollout' = [rollout EXCEPT ![r] = new] /\ new \in RolloutRecord
    BY <1>7, <2>1, <2>2 DEF RolloutRecord
  <2>4. /\ new.at = at /\ new.todo = it.todo /\ new.results = found
        /\ new.events = it.events /\ new.kind = it.kind /\ new.watched = it.watched
    BY <2>1 DEF RolloutRecord
  <2>5. /\ \A m \in OtaNodes \ {n} : found[m] = it.results[m]
        /\ found[n] = it.results[n] \/ found[n] = "updated"
    BY <1>6
  <2>6. InHandInv(r, new)
    <3>1. it.results[n] # "rollback" /\ found[n] # "rollback"
      BY <1>2, <1>3, <1>4, <2>5 DEF InHandInv
    <3>2. \A m \in it.todo : m # n => found[m] = "none"
      BY <1>2, <1>4, <1>6, <2>5 DEF InHandInv
    <3> QED
      BY <1>4, <2>4, <3>1, <3>2 DEF InHandInv
  <2>7. CarriersInv(r, new)'
    BY <1>2, <1>3, <1>4, <2>4, <2>5 DEF CarriersInv
  <2>8. KeptInv(r, new)'
    BY <1>2, <1>3, <1>4, <1>5, <2>3, <2>4, <2>5 DEF KeptInv, HasHad
  <2> QED
    BY <1>2, <1>3, <2>3, <2>4, <2>6, <2>7, <2>8, OneMoves DEF OtaTypes
\* It is left behind, found healthy.
<1>8. ASSUME NEW watched \in BOOLEAN, it.watched => watched,
             it.kind = "canary" => watched,
             rollout' = [rollout EXCEPT ![r] =
                 [it EXCEPT !.results = Passed, !.at = Onward(Left), !.todo = Left,
                            !.watched = watched]]
      PROVE  OtaInv'
  <2>1. PICK at \in {"update", "complete"} : at = Onward(Left)
    BY DEF Onward
  <2>2. PICK new : new = [it EXCEPT !.results = Passed, !.at = at, !.todo = Left,
                                    !.watched = watched]
    OBVIOUS
  <2>3. Left \in SUBSET OtaNodes
    BY <1>6
  <2>4. rollout' = [rollout EXCEPT ![r] = new] /\ new \in RolloutRecord
    BY <1>6, <1>8, <2>1, <2>2, <2>3 DEF RolloutRecord
  <2>5. /\ new.at = at /\ new.todo = Left /\ new.results = Passed
        /\ new.events = it.events /\ new.kind = it.kind /\ new.watched = watched
    BY <2>2 DEF RolloutRecord
  <2>6. InHandInv(r, new)
    <3>1. \A m \in Left : Passed[m] = "none"
      BY <1>2, <1>4, <1>6 DEF InHandInv
    <3>2. Left # {} => First(Left) \in Left
      BY <2>3, FirstIsThere
    <3>3. at = "complete" <=> Left = {}
      BY <2>1 DEF Onward
    <3> QED
      BY <2>1, <2>5, <3>1, <3>2, <3>3 DEF InHandInv
  <2>7. CarriersInv(r, new)'
    <3>1. \A m \in OtaNodes : target[m] = r => m \notin Left /\ Passed[m] = "updated"
      BY <1>2, <1>4, <1>6 DEF CarriersInv
    <3> QED
      BY <1>3, <1>8, <2>1, <2>5, <3>1 DEF CarriersInv
  <2>8. KeptInv(r, new)'
    <3>1. \A m \in OtaNodes : HasHad(new, m) => HasHad(it, m)
      BY <1>3, <1>4, <1>6, <2>1, <2>5 DEF HasHad
    <3>2. OthersBegan(r) => OthersBegan(r)'
      BY <1>5, <2>4
    <3>3. \A i \in DOMAIN it.events : it.events[i] # "completed"
      BY <1>2, <1>3 DEF KeptInv
    <3> QED
      BY <1>2, <1>3, <2>1, <2>5, <3>1, <3>2, <3>3 DEF KeptInv
  <2> QED
    BY <1>2, <1>3, <2>1, <2>4, <2>5, <2>6, <2>7, <2>8, OneMoves DEF OtaTypes
<1>9. CASE EndWatch(r)
  <2>1. rollout' = [rollout EXCEPT ![r] =
            [it EXCEPT !.at = "health", !.polls = 0, !.results = it.results]]
    BY <1>1, <1>2, <1>9 DEF EndWatch, OtaTypes, RolloutRecord
  <2> QED
    BY <1>7, <2>1
<1>10. CASE PollHealth(r)
  <2>1. PICK new : /\ rollout' = [rollout EXCEPT ![r] = new]
                   /\ \/ new = [it EXCEPT !.at = "rollback"]
                      \/ new = Healthy(r)
                      \/ new = [it EXCEPT !.polls = it.polls + 1]
    <3>1. CASE it.polls = MaxPolls
      BY <1>1, <1>10, <3>1 DEF PollHealth
    <3>2. CASE it.polls # MaxPolls /\ n \in alive
      BY <1>1, <1>4, <1>10, <3>2 DEF PollHealth
    <3>3. CASE it.polls # MaxPolls /\ n \notin alive
      BY <1>1, <1>4, <1>10, <3>3 DEF PollHealth
    <3> QED
      BY <3>1, <3>2, <3>3
  <2>2. it.polls \in Nat
    BY DEF RolloutRecord
  <2>3. CASE new = [it EXCEPT !.at = "rollback"]
    <3>1. new = [it EXCEPT !.at = "rollback", !.polls = it.polls, !.results = it.results]
      BY <2>3 DEF RolloutRecord
    <3> QED
      BY <1>7, <2>1, <2>2, <3>1
  <2>4. CASE new = [it EXCEPT !.polls = it.polls + 1]
    <3>1. new = [it EXCEPT !.at = "health", !.polls = it.polls + 1, !.results = it.results]
      BY <1>1, <1>10, <2>4 DEF RolloutRecord, PollHealth
    <3>2. it.polls + 1 \in Nat
      BY <2>2
    <3> QED
      BY <1>7, <2>1, <3>1, <3>2
  <2>5. CASE new = Healthy(r)
    <3>1. CASE new = [[it EXCEPT !.results[n] = "updated"] EXCEPT !.at = "watch"]
      <4>1. new = [it EXCEPT !.at = "watch", !.polls = it.polls, !.results = Passed]
        BY <3>1 DEF RolloutRecord
      <4> QED
        BY <1>7, <2>1, <2>2, <4>1
    <3>2. CASE new = [[it EXCEPT !.results[n] = "updated"] EXCEPT !.at = Onward(Left),
                         !.todo = Left,
                         !.watched = it.watched \/ (it.kind = "canary" /\ ~ it.watched)]
      <4>1. PICK watched \in BOOLEAN :
                watched = (it.watched \/ (it.kind = "canary" /\ ~ it.watched))
        OBVIOUS
      <4>2. /\ it.watched => watched
            /\ it.kind = "canary" => watched
        BY <4>1
      <4>3. new = [it EXCEPT !.results = Passed, !.at = Onward(Left), !.todo = Left,
                             !.watched = watched]
        BY <3>2, <4>1 DEF RolloutRecord
      <4> QED
        BY <1>8, <2>1, <4>2, <4>3
    <3> QED
      BY <1>1, <1>4, <2>5, <3>1, <3>2 DEF Healthy, IsCanary
  <2> QED
    BY <2>1, <2>3, <2>4, <2>5
<1> QED
  BY <1>9, <1>10

LEMMA OtaInvNext == OtaInv /\ [OtaNext]_otaVars => OtaInv'
<1> SUFFICES ASSUME OtaInv, [OtaNext]_otaVars  PROVE OtaInv'
  OBVIOUS
<1>1. CASE UNCHANGED otaVars
  BY <1>1 DEF otaVars, OtaInv, OtaTypes, RolloutInv, InHandInv, CarriersInv, KeptInv,
              OthersBegan, HasHad
<1>2. CASE OtaNext
  BY <1>2, OtaInvStart, OtaInvUpdateNode, OtaInvHealth, OtaInvRollback, OtaInvRecord,
     OtaInvEnvironment DEF OtaNext, OtaStep
<1> QED
  BY <1>1, <1>2

(***************************************************************************)
(* Whatever the rollouts, their order and the failures: at most one node   *)
(* has a version that was not found healthy under it, an unproven canary   *)
(* is alone, and a rollout that has ended left only what its outcome says. *)
(***************************************************************************)
THEOREM RolloutsAlwaysSafe ==
    OtaInit /\ [][OtaNext]_otaVars => []RolloutsAreSafe
<1>1. OtaInv => RolloutsAreSafe
  <2> SUFFICES ASSUME OtaInv, NEW r \in Rollouts
               PROVE  /\ \A n, m \in OtaNodes :
                             CarriesUnproven(r, n) /\ CarriesUnproven(r, m) => n = m
                      /\ IsCanary(r) /\ ~ rollout[r].watched =>
                             \A n, m \in OtaNodes : target[n] = r /\ target[m] = r => n = m
                      /\ RolloutEnded(r) =>
                             /\ otaFaults \cap {"redis", "crash"} = {} =>
                                    \A n \in OtaNodes : ~ CarriesUnproven(r, n)
                             /\ rollout[r].at = "done" /\ otaFaults = {} =>
                                    \A n \in OtaNodes : rollout[r].results[n] = "updated" =>
                                        target[n] = r \/ OthersBegan(r)
                             /\ \A i \in DOMAIN rollout[r].events :
                                    rollout[r].events[i] = "completed" =>
                                        rollout[r].at = "done"
    BY DEF RolloutsAreSafe, OneUnprovenNode, EndedRolloutsAreClean, OthersBegan
  <2>1. PICK it \in RolloutRecord : it = rollout[r]
    BY DEF OtaInv, OtaTypes
  <2>2. InHandInv(r, it) /\ CarriersInv(r, it) /\ KeptInv(r, it)
    BY <2>1 DEF OtaInv, RolloutInv
  <2>3. \A n \in OtaNodes : CarriesUnproven(r, n) => n = First(it.todo) /\ n \in it.todo
    BY <2>1, <2>2 DEF CarriesUnproven, CarriersInv
  <2>4. IsCanary(r) /\ ~ rollout[r].watched =>
            \A n \in OtaNodes : target[n] = r => n = First(it.todo)
    BY <2>1, <2>2 DEF IsCanary, CarriersInv
  <2>5. ASSUME RolloutEnded(r), otaFaults \cap {"redis", "crash"} = {},
               NEW n \in OtaNodes, CarriesUnproven(r, n)
        PROVE  FALSE
    BY <2>1, <2>2, <2>3, <2>5 DEF RolloutEnded, CarriesUnproven, CarriersInv, KeptInv
  <2>6. rollout[r].at = "done" /\ otaFaults = {} =>
            \A n \in OtaNodes : rollout[r].results[n] = "updated" =>
                target[n] = r \/ OthersBegan(r)
    BY <2>1, <2>2 DEF KeptInv, HasHad
  <2>7. \A i \in DOMAIN rollout[r].events :
            rollout[r].events[i] = "completed" => rollout[r].at = "done"
    BY <2>1, <2>2 DEF KeptInv
  <2> QED
    BY <2>3, <2>4, <2>5, <2>6, <2>7
<1> QED
  BY <1>1, OtaInvInit, OtaInvNext, PTL

-----------------------------------------------------------------------------

(***************************************************************************)
(* cloud-api.  Rows of a sender's readings are copies of the tries it has  *)
(* made, and what it has committed in this try is stored.                  *)
(***************************************************************************)
CloudRow == [reading : Readings, copy : Nat]

CloudTypes ==
    /\ rows \in SUBSET CloudRow /\ IsFiniteSet(rows)
    /\ sender \in [Senders -> [done : Nat, tries : Nat]]
    /\ accepted \subseteq Senders
    /\ reader \in [at : {"idle", "page", "next", "end"}, offset : Nat,
                   existing : SUBSET CloudRow, seen : SUBSET CloudRow]

StoredInv ==
    \A s \in Senders :
        /\ sender[s].done <= Len(Batches[s])
        /\ \A m \in 1..sender[s].done : Batches[s][m] \subseteq Stored
        /\ \A row \in rows : row.reading \in Sent(s) => row.copy <= sender[s].tries
        /\ s \in accepted => AllSent(s)

\* A row the client has yet to see has at least as many newer ones as it has
\* asked to skip, however many were added since.
Newer(row) == {r \in rows : Time(r) > Time(row)}
Seen(row)  == \E other \in reader.seen : other.reading = row.reading

PagingInv ==
    /\ reader.existing \subseteq rows
    /\ reader.at = "idle" => reader.offset = 0
    /\ "ties" \notin cloudFaults => \A row \in reader.existing :
          Seen(row) \/ (reader.at # "end" /\ Cardinality(Newer(row)) >= reader.offset)

\* Whoever asks for a registration has answers of earlier ones only.
RegistryInv ==
    /\ models \in Seq([state : {"open", "active", "failed", "deleted"}, after : SUBSET Nat])
    /\ answered \subseteq Places
    /\ \A j \in Places : \A i \in models[j].after : i < j

CloudInv == CloudTypes /\ StoredInv /\ PagingInv /\ RegistryInv

LEMMA CloudInvInit == CloudInit => CloudInv
<1> SUFFICES ASSUME CloudInit  PROVE CloudInv
  OBVIOUS
<1>1. CloudTypes
  BY FS_EmptySet DEF CloudInit, CloudTypes, NotReading
<1>2. StoredInv
  <2>1. \A s \in Senders : Len(Batches[s]) \in Nat /\ sender[s].done = 0 /\ 1..0 = {}
    BY CloudAssumption DEF CloudInit, Senders
  <2> QED
    BY <2>1 DEF CloudInit, StoredInv
<1>3. PagingInv
  BY DEF CloudInit, NotReading, PagingInv
<1>4. RegistryInv
  BY DEF CloudInit, RegistryInv, Places
<1> QED
  BY <1>1, <1>2, <1>3, <1>4 DEF CloudInv

\* What is stored stays, and newer rows only push others further back.
LEMMA PagingKept ==
    ASSUME CloudTypes, PagingInv, CloudTypes', rows \subseteq rows',
           UNCHANGED <<reader, cloudFaults>>
    PROVE  PagingInv'
<1>1. \A row \in CloudRow : Time(row)' = Time(row) /\ Seen(row)' = Seen(row)
  BY DEF Time, Seen
<1>2. \A row \in rows : row \in CloudRow
  BY DEF CloudTypes
<1>3. ASSUME NEW row \in reader.existing, Cardinality(Newer(row)) >= reader.offset
      PROVE  Cardinality(Newer(row)') >= reader.offset
  <2>1. Newer(row) \subseteq Newer(row)'
    BY DEF Newer, Time
  <2>2. IsFiniteSet(Newer(row)') /\ IsFiniteSet(Newer(row))
    <3>1. IsFiniteSet(rows') /\ IsFiniteSet(rows) /\ Newer(row)' \subseteq rows' /\ Newer(row) \subseteq rows
      BY DEF CloudTypes, Newer
    <3> QED
      BY <3>1, FS_Subset
  <2>3. Cardinality(Newer(row)) <= Cardinality(Newer(row)')
    BY <2>1, <2>2, FS_Subset
  <2>4. Cardinality(Newer(row)) \in Nat /\ Cardinality(Newer(row)') \in Nat /\ reader.offset \in Nat
    BY <2>2, FS_CardinalityType DEF CloudTypes
  <2> QED
    BY <1>3, <2>3, <2>4
<1>4. reader.existing \subseteq rows'
  BY DEF PagingInv
<1>5. ("ties" \notin cloudFaults => \A row \in reader.existing :
          Seen(row) \/ (reader.at # "end" /\ Cardinality(Newer(row)) >= reader.offset))'
  BY <1>1, <1>2, <1>3, <1>4 DEF PagingInv, CloudTypes
<1> QED
  BY <1>4, <1>5 DEF PagingInv

LEMMA CloudInvSenders ==
    ASSUME CloudInv, NEW s \in Senders, StoreBatch(s) \/ AnswerSender(s) \/ SendAgain(s)
    PROVE  CloudInv'
<1>1. /\ UNCHANGED <<reader, models, answered, cloudFaults>>
      /\ CloudTypes /\ StoredInv /\ PagingInv /\ RegistryInv
  BY DEF StoreBatch, AnswerSender, SendAgain, registryVars, CloudInv
<1>2. RegistryInv'
  BY <1>1 DEF RegistryInv, Places
<1>3. /\ sender[s].done \in Nat /\ sender[s].tries \in Nat
      /\ Batches[s] \in Seq(SUBSET Readings) /\ Len(Batches[s]) \in Nat
      /\ DOMAIN Batches[s] = 1..Len(Batches[s])
  BY <1>1, CloudAssumption DEF CloudTypes, Senders
<1>4. CASE StoreBatch(s)
  <2>1. PICK k \in Nat : k = sender[s].done + 1
    BY <1>3
  <2>2. PICK try \in Nat : try = sender[s].tries
    BY <1>3
  <2>3. PICK new : new = NewRows(Batches[s][k], try)
    OBVIOUS
  <2>4. /\ k \in DOMAIN Batches[s] /\ rows' = rows \cup new
        /\ sender' = [sender EXCEPT ![s].done = k] /\ accepted' = accepted
    BY <1>1, <1>3, <1>4, <2>1, <2>2, <2>3 DEF StoreBatch, AllSent, StoredInv
  <2>5. Batches[s][k] \subseteq Readings /\ Batches[s][k] \subseteq Sent(s)
    BY <1>3, <2>4 DEF Sent
  <2>6. /\ new \in SUBSET CloudRow /\ IsFiniteSet(new)
        /\ \A row \in new : row.reading \in Batches[s][k] /\ row.copy = try
        /\ \A r \in Batches[s][k] : \E row \in new : row.reading = r
    <3>1. new = {[reading |-> r, copy |-> try] : r \in Batches[s][k]}
      BY <2>3 DEF NewRows
    <3>2. IsFiniteSet(Batches[s][k])
      BY <2>5, CloudAssumption, FS_Subset
    <3>3. IsFiniteSet(new)
      <4> DEFINE f == [r \in Batches[s][k] |-> [reading |-> r, copy |-> try]]
      <4>1. \A row \in new : \E r \in Batches[s][k] : f[r] = row
        BY <3>1
      <4>2. \A r \in Batches[s][k] : f[r] \in new
        BY <3>1
      <4>3. f \in Surjection(Batches[s][k], new)
        BY <4>1, <4>2, Fun_IsSurj
      <4> QED
        BY <3>2, <4>3, FS_Surjection
    <3>4. \A row \in new : \E r \in Batches[s][k] : row = [reading |-> r, copy |-> try]
      BY <3>1
    <3>5. \A row \in new : row \in CloudRow /\ row.reading \in Batches[s][k] /\ row.copy = try
      BY <2>5, <3>4 DEF CloudRow
    <3>6. ASSUME NEW r \in Batches[s][k]  PROVE \E row \in new : row.reading = r
      <4>1. [reading |-> r, copy |-> try].reading = r
        OBVIOUS
      <4> QED
        BY <3>1, <4>1
    <3> QED
      BY <3>3, <3>5, <3>6
  <2>7. CloudTypes'
    <3>1. IsFiniteSet(rows')
      BY <1>1, <2>4, <2>6, FS_Union DEF CloudTypes
    <3>2. rows' \in SUBSET CloudRow
      BY <1>1, <2>4, <2>6 DEF CloudTypes
    <3>3. sender' \in [Senders -> [done : Nat, tries : Nat]]
      BY <1>1, <2>4 DEF CloudTypes
    <3> QED
      BY <1>1, <2>4, <3>1, <3>2, <3>3 DEF CloudTypes
  <2>8. PagingInv'
    BY <1>1, <2>4, <2>7, PagingKept
  <2>9. sender'[s].done = k /\ sender'[s].tries = try /\ \A t \in Senders : t # s => sender'[t] = sender[t]
    BY <1>1, <2>2, <2>4 DEF CloudTypes
  <2>10. Stored \subseteq Stored' /\ Batches[s][k] \subseteq Stored'
    BY <2>4, <2>6 DEF Stored
  <2>11. ASSUME NEW t \in Senders
         PROVE  /\ sender'[t].done <= Len(Batches[t])
                /\ \A m \in 1..sender'[t].done : Batches[t][m] \subseteq Stored'
                /\ \A row \in rows' : row.reading \in Sent(t) => row.copy <= sender'[t].tries
                /\ t \in accepted => sender'[t].done = Len(Batches[t])
    <3>1. CASE t = s
      <4>1. k <= Len(Batches[s])
        BY <1>3, <2>4
      <4>2. \A m \in 1..k : m = k \/ m \in 1..sender[s].done
        BY <1>3, <2>1
      <4>3. \A m \in 1..k : Batches[s][m] \subseteq Stored'
        BY <1>1, <2>10, <4>2 DEF StoredInv
      <4>4. \A row \in rows' : row.reading \in Sent(s) => row.copy <= try
        BY <1>1, <2>2, <2>4, <2>6 DEF StoredInv
      <4>5. s \notin accepted
        BY <1>1, <1>4 DEF StoreBatch, StoredInv
      <4> QED
        BY <2>9, <3>1, <4>1, <4>3, <4>4, <4>5
    <3>2. CASE t # s
      <4>1. \A row \in new : row.reading \notin Sent(t)
        BY <2>5, <2>6, <3>2, CloudAssumption
      <4> QED
        BY <1>1, <2>4, <2>9, <2>10, <3>2, <4>1 DEF StoredInv, AllSent
    <3> QED
      BY <3>1, <3>2
  <2>12. StoredInv'
    BY <2>4, <2>11 DEF StoredInv, AllSent
  <2> QED
    BY <1>2, <2>7, <2>8, <2>12 DEF CloudInv
<1>5. CASE AnswerSender(s)
  <2>1. UNCHANGED <<rows, sender>> /\ accepted' = accepted \cup {s} /\ AllSent(s)
    BY <1>5 DEF AnswerSender
  <2>2. CloudTypes'
    BY <1>1, <2>1 DEF CloudTypes
  <2>3. PagingInv'
    BY <1>1, <2>1, <2>2, PagingKept
  <2>4. StoredInv'
    BY <1>1, <2>1 DEF StoredInv, AllSent, Stored
  <2> QED
    BY <1>2, <2>2, <2>3, <2>4 DEF CloudInv
<1>6. CASE SendAgain(s)
  <2>1. PICK try \in Nat : try = sender[s].tries + 1
    BY <1>3
  <2>2. /\ UNCHANGED <<rows, accepted>> /\ s \notin accepted
        /\ sender' = [sender EXCEPT ![s] = [done |-> 0, tries |-> try]]
    BY <1>6, <2>1 DEF SendAgain
  <2>3. CloudTypes'
    BY <1>1, <2>2 DEF CloudTypes
  <2>4. PagingInv'
    BY <1>1, <2>2, <2>3, PagingKept
  <2>5. /\ sender'[s].done = 0 /\ sender'[s].tries = try /\ 1..0 = {}
        /\ \A t \in Senders : t # s => sender'[t] = sender[t]
    BY <1>1, <2>2 DEF CloudTypes
  <2>6. \A row \in rows : row.reading \in Sent(s) => row.copy <= try
    <3>1. \A row \in rows : row.copy \in Nat
      BY <1>1 DEF CloudTypes, CloudRow
    <3>2. \A n \in Nat : n <= sender[s].tries => n <= try
      BY <1>3, <2>1
    <3> QED
      BY <1>1, <3>1, <3>2 DEF StoredInv
  <2>7. StoredInv'
    BY <1>1, <1>3, <2>2, <2>5, <2>6 DEF StoredInv, AllSent, Stored
  <2> QED
    BY <1>2, <2>3, <2>4, <2>7 DEF CloudInv
<1> QED
  BY <1>4, <1>5, <1>6

-----------------------------------------------------------------------------
\* What is asked of a page: so many rows, or all there are.
LEMMA MinOfTwo ==
    ASSUME NEW a \in Nat, NEW b \in Nat
    PROVE  Min({a, b}) = IF a <= b THEN a ELSE b
<1>1. \A x \in {a, b} : (\A y \in {a, b} : x <= y) => x = IF a <= b THEN a ELSE b
  OBVIOUS
<1>2. \E x \in {a, b} : \A y \in {a, b} : x <= y
  OBVIOUS
<1> QED
  BY <1>1, <1>2 DEF Min

\* A page of a set is a part of it, and all of it if the page is not full.
LEMMA SomeIs ==
    ASSUME NEW T, IsFiniteSet(T), NEW n \in Nat, NEW U \in Some(T, n)
    PROVE  /\ U \subseteq T /\ IsFiniteSet(U)
           /\ Cardinality(U) \in Nat /\ Cardinality(U) <= n
           /\ Cardinality(U) < n => U = T
<1>1. Cardinality(T) \in Nat
  BY FS_CardinalityType
<1>2. U \subseteq T /\ Cardinality(U) = Min({n, Cardinality(T)})
  BY DEF Some, kSubset
<1>3. Cardinality(U) = IF n <= Cardinality(T) THEN n ELSE Cardinality(T)
  BY <1>1, <1>2, MinOfTwo
<1>4. IsFiniteSet(U)
  BY <1>2, FS_Subset
<1>5. Cardinality(U) = Cardinality(T) => U = T
  BY <1>2, FS_Subset
<1> QED
  BY <1>1, <1>2, <1>3, <1>4, <1>5

(***************************************************************************)
(* A page.  Nothing that is skipped can be a row not seen yet, nor a copy  *)
(* of it, because enough newer ones are there to fill what is skipped; so  *)
(* it is on the page, or still newer ones fill that too.                   *)
(***************************************************************************)
LEMMA PageMissesNothing ==
    ASSUME CloudTypes, "ties" \notin cloudFaults, NEW offset \in Nat,
           NEW before \in Some(rows, offset), Newest(before),
           NEW page \in Some(rows \ before, Limit), Newest(before \cup page),
           NEW row \in rows, Cardinality(Newer(row)) >= offset
    PROVE  \/ \E other \in page : other.reading = row.reading
           \/ /\ Cardinality(page) = Limit
              /\ Cardinality(Newer(row)) >= offset + Limit
<1> SUFFICES ASSUME \A other \in page : other.reading # row.reading
             PROVE  /\ Cardinality(page) = Limit
                    /\ Cardinality(Newer(row)) >= offset + Limit
  OBVIOUS
<1>1. /\ rows \in SUBSET CloudRow /\ IsFiniteSet(rows) /\ Limit \in Nat \ {0}
      /\ IsFiniteSet(rows \ before)
  BY CloudAssumption, FS_Subset DEF CloudTypes
<1>2. /\ before \subseteq rows /\ IsFiniteSet(before)
      /\ Cardinality(before) \in Nat /\ Cardinality(before) <= offset
      /\ Cardinality(before) < offset => before = rows
  BY <1>1, SomeIs
<1>3. /\ page \subseteq rows \ before /\ IsFiniteSet(page)
      /\ Cardinality(page) \in Nat /\ Cardinality(page) <= Limit
      /\ Cardinality(page) < Limit => page = rows \ before
  BY <1>1, SomeIs
<1>4. /\ Newer(row) \subseteq rows /\ IsFiniteSet(Newer(row)) /\ Cardinality(Newer(row)) \in Nat
  <2>1. Newer(row) \subseteq rows
    BY DEF Newer
  <2> QED
    BY <1>1, <2>1, FS_Subset, FS_CardinalityType
\* Times are numbers, and those of different readings differ.
<1>5. /\ \A r \in rows : Time(r) \in Nat
      /\ \A r, q \in rows : Time(r) = Time(q) => r.reading = q.reading
  BY <1>1, CloudAssumption DEF Time, CloudRow
<1>6. \A c \in before : c.reading # row.reading
  <2> SUFFICES ASSUME NEW c \in before, c.reading = row.reading  PROVE FALSE
    OBVIOUS
  <2>1. Time(c) = Time(row)
    BY <1>2 DEF Time
  <2>2. c \notin Newer(row)
    BY <1>2, <1>5, <2>1 DEF Newer
  <2>3. Newer(row) \subseteq before
    <3> SUFFICES ASSUME NEW r \in Newer(row), r \notin before  PROVE FALSE
      OBVIOUS
    <3>1. r \in rows /\ Time(r) > Time(row)
      BY DEF Newer
    <3>2. Time(c) >= Time(r)
      BY <3>1 DEF Newest
    <3> QED
      BY <1>2, <1>5, <2>1, <3>1, <3>2
  <2>4. /\ IsFiniteSet(Newer(row) \cup {c})
        /\ Cardinality(Newer(row) \cup {c}) = Cardinality(Newer(row)) + 1
    BY <1>4, <2>2, FS_AddElement
  <2>5. Cardinality(Newer(row) \cup {c}) <= Cardinality(before)
    BY <1>2, <2>3, FS_Subset
  <2> QED
    BY <1>2, <1>4, <2>4, <2>5
<1>7. Cardinality(before) = offset
  BY <1>2, <1>6
<1>8. row \notin before \cup page
  BY <1>6
<1>9. Cardinality(page) = Limit
  BY <1>1, <1>3, <1>8
<1>10. before \cup page \subseteq Newer(row)
  <2> SUFFICES ASSUME NEW c \in before \cup page  PROVE c \in Newer(row)
    OBVIOUS
  <2>1. c \in rows /\ c.reading # row.reading
    BY <1>2, <1>3, <1>6
  <2>2. Time(c) >= Time(row)
    BY <1>8 DEF Newest
  <2>3. Time(c) # Time(row)
    BY <1>5, <2>1
  <2> QED
    BY <1>5, <2>1, <2>2, <2>3 DEF Newer
<1>11. before \cap page = {}
  BY <1>3
<1>12. Cardinality(before \cup page) = offset + Limit
  <2>1. Cardinality(before \cap page) = 0
    BY <1>11, FS_EmptySet
  <2>2. Cardinality(before \cup page) = Cardinality(before) + Cardinality(page) - Cardinality(before \cap page)
    BY <1>2, <1>3, FS_Union
  <2> QED
    BY <1>1, <1>2, <1>7, <1>9, <2>1, <2>2
<1>13. Cardinality(before \cup page) <= Cardinality(Newer(row))
  BY <1>4, <1>10, FS_Subset
<1> QED
  BY <1>1, <1>4, <1>9, <1>12, <1>13

LEMMA CloudInvReader ==
    ASSUME CloudInv, CountRows \/ ReadPage
    PROVE  CloudInv'
<1>1. /\ UNCHANGED <<rows, sender, accepted, models, answered, cloudFaults>>
      /\ CloudTypes /\ StoredInv /\ PagingInv /\ RegistryInv
  BY DEF CountRows, ReadPage, telemetryVars, registryVars, CloudInv
<1>2. RegistryInv' /\ StoredInv'
  BY <1>1 DEF RegistryInv, Places, StoredInv, AllSent, Stored
<1> DEFINE ReaderRecord == [at : {"idle", "page", "next", "end"}, offset : Nat,
                            existing : SUBSET CloudRow, seen : SUBSET CloudRow]
<1>3. PICK old \in ReaderRecord : old = reader
  BY <1>1 DEF CloudTypes
<1>4. /\ old.at \in {"idle", "page", "next", "end"} /\ old.offset \in Nat
      /\ old.existing \in SUBSET CloudRow /\ old.seen \in SUBSET CloudRow
      /\ rows \in SUBSET CloudRow /\ IsFiniteSet(rows)
  BY <1>1 DEF CloudTypes
<1>5. /\ old.existing \subseteq rows
      /\ old.at = "idle" => old.offset = 0
      /\ "ties" \notin cloudFaults => \A row \in old.existing :
            \/ \E other \in old.seen : other.reading = row.reading
            \/ old.at # "end" /\ Cardinality(Newer(row)) >= old.offset
  BY <1>1, <1>3 DEF PagingInv, Seen
<1>6. \A row \in CloudRow : Newer(row)' = Newer(row)
  BY <1>1 DEF Newer, Time
<1>7. \A row \in CloudRow : Cardinality(Newer(row)) >= 0
  <2> SUFFICES ASSUME NEW row \in CloudRow  PROVE Cardinality(Newer(row)) >= 0
    OBVIOUS
  <2>1. Newer(row) \subseteq rows
    BY DEF Newer
  <2>2. Cardinality(Newer(row)) \in Nat
    BY <1>4, <2>1, FS_Subset, FS_CardinalityType
  <2> QED
    BY <2>2
\* What the client's record becomes, and what there is to show of it.
<1>8. ASSUME NEW new \in ReaderRecord, reader' = new, new.existing \subseteq rows, new.at # "idle",
             ASSUME "ties" \notin cloudFaults, NEW row \in new.existing
             PROVE  \/ \E other \in new.seen : other.reading = row.reading
                    \/ new.at # "end" /\ Cardinality(Newer(row)) >= new.offset
      PROVE  CloudInv'
  <2>1. CloudTypes'
    BY <1>1, <1>8 DEF CloudTypes
  <2>2. ("ties" \notin cloudFaults => \A row \in reader.existing :
            Seen(row) \/ (reader.at # "end" /\ Cardinality(Newer(row)) >= reader.offset))'
    BY <1>1, <1>6, <1>8 DEF Seen
  <2>3. PagingInv'
    BY <1>1, <1>8, <2>2 DEF PagingInv
  <2> QED
    BY <1>2, <2>1, <2>3 DEF CloudInv
<1>9. CASE CountRows
  <2>1. PICK existing : existing = IF old.at = "idle" THEN rows ELSE old.existing
    OBVIOUS
  <2>2. PICK new : new = [old EXCEPT !.at = "page", !.existing = existing]
    OBVIOUS
  <2>3. reader' = new /\ old.at \in {"idle", "next"}
    BY <1>3, <1>9, <2>1, <2>2 DEF CountRows
  <2>4. existing \in SUBSET CloudRow /\ existing \subseteq rows
    BY <1>4, <1>5, <2>1
  <2>5. /\ new \in ReaderRecord /\ new.at = "page" /\ new.existing = existing
        /\ new.offset = old.offset /\ new.seen = old.seen
    BY <2>2, <2>4
  <2>6. ASSUME "ties" \notin cloudFaults, NEW row \in existing
        PROVE  \/ \E other \in old.seen : other.reading = row.reading
               \/ Cardinality(Newer(row)) >= old.offset
    <3>1. CASE old.at = "idle"
      BY <1>5, <1>7, <2>4, <2>6, <3>1
    <3>2. CASE old.at # "idle"
      BY <1>5, <2>1, <2>6, <3>2
    <3> QED
      BY <3>1, <3>2
  <2> QED
    BY <1>8, <2>3, <2>4, <2>5, <2>6
<1>10. CASE ReadPage
  <2>1. PICK before \in Some(rows, old.offset) :
            /\ Newest(before)
            /\ \E page \in Some(rows \ before, Limit) :
                  /\ Newest(before \cup page)
                  /\ reader' = [reader EXCEPT
                         !.at = IF Cardinality(page) = Limit THEN "next" ELSE "end",
                         !.offset = @ + Limit,
                         !.seen = @ \cup page]
    BY <1>3, <1>10 DEF ReadPage
  <2>2. PICK page \in Some(rows \ before, Limit) :
            /\ Newest(before \cup page)
            /\ reader' = [reader EXCEPT
                   !.at = IF Cardinality(page) = Limit THEN "next" ELSE "end",
                   !.offset = @ + Limit,
                   !.seen = @ \cup page]
    BY <2>1
  <2>3. PICK at \in {"next", "end"} : at = IF Cardinality(page) = Limit THEN "next" ELSE "end"
    OBVIOUS
  <2>4. PICK offset \in Nat : offset = old.offset + Limit
    BY <1>4, CloudAssumption
  <2>5. PICK seen : seen = old.seen \cup page
    OBVIOUS
  <2>6. PICK new : new = [old EXCEPT !.at = at, !.offset = offset, !.seen = seen]
    OBVIOUS
  <2>7. reader' = new /\ old.at = "page"
    BY <1>3, <1>10, <2>2, <2>3, <2>4, <2>5, <2>6 DEF ReadPage
  <2>8. seen \in SUBSET CloudRow
    <3>1. IsFiniteSet(rows \ before) /\ Limit \in Nat
      BY <1>4, CloudAssumption, FS_Subset
    <3>2. page \in Some(rows \ before, Limit)
      BY <2>2
    <3>3. page \subseteq rows \ before
      BY <3>1, <3>2, SomeIs
    <3> QED
      BY <1>4, <2>5, <3>3
  <2>9. /\ new \in ReaderRecord /\ new.at = at /\ new.existing = old.existing
        /\ new.offset = offset /\ new.seen = seen
    BY <2>6, <2>8
  <2>10. ASSUME "ties" \notin cloudFaults, NEW row \in old.existing
         PROVE  \/ \E other \in seen : other.reading = row.reading
                \/ at # "end" /\ Cardinality(Newer(row)) >= offset
    <3>1. CASE \E other \in old.seen : other.reading = row.reading
      BY <2>5, <3>1
    <3>2. CASE Cardinality(Newer(row)) >= old.offset
      <4>1. \/ \E other \in page : other.reading = row.reading
            \/ /\ Cardinality(page) = Limit
               /\ Cardinality(Newer(row)) >= old.offset + Limit
        BY <1>1, <1>4, <1>5, <2>1, <2>2, <2>10, <3>2, PageMissesNothing
      <4> QED
        BY <2>3, <2>4, <2>5, <4>1
    <3> QED
      BY <1>5, <2>10, <3>1, <3>2
  <2> QED
    BY <1>5, <1>8, <2>7, <2>9, <2>10
<1> QED
  BY <1>9, <1>10

LEMMA CloudInvRegistry ==
    ASSUME CloudInv, RegistryNext
    PROVE  CloudInv'
<1>1. /\ UNCHANGED <<rows, sender, accepted, reader, cloudFaults>>
      /\ CloudTypes /\ StoredInv /\ PagingInv /\ RegistryInv
  BY DEF RegistryNext, BeginRegistration, EndRegistration, DeleteModel, telemetryVars, CloudInv
<1>2. CloudTypes' /\ StoredInv' /\ PagingInv'
  BY <1>1 DEF CloudTypes, StoredInv, AllSent, Stored, PagingInv, Seen, Newer, Time
<1> DEFINE Registration == [state : {"open", "active", "failed", "deleted"}, after : SUBSET Nat]
<1>3. /\ models \in Seq(Registration) /\ Places = 1..Len(models) /\ Len(models) \in Nat
      /\ answered \subseteq Places /\ \A j \in Places : \A i \in models[j].after : i < j
  BY <1>1 DEF RegistryInv, Places
<1>4. CASE BeginRegistration
  <2>1. PICK new : new = [state |-> "open", after |-> answered]
    OBVIOUS
  <2>2. models' = Append(models, new) /\ answered' = answered
    BY <1>4, <2>1 DEF BeginRegistration
  <2>3. new \in Registration /\ new.after = answered
    BY <1>3, <2>1
  <2>4. /\ models' \in Seq(Registration) /\ Len(models') = Len(models) + 1
        /\ \A j \in 1..Len(models) : models'[j] = models[j]
        /\ models'[Len(models) + 1] = new
    BY <1>3, <2>2, <2>3, AppendProperties
  <2>5. Places' = 1..Len(models) + 1
    BY <2>4 DEF Places
  <2>6. ASSUME NEW j \in 1..Len(models) + 1, NEW i \in models'[j].after  PROVE i < j
    <3>1. CASE j = Len(models) + 1
      BY <1>3, <2>3, <2>4, <2>6, <3>1
    <3>2. CASE j \in 1..Len(models)
      BY <1>3, <2>4, <2>6, <3>2
    <3> QED
      BY <1>3, <3>1, <3>2
  <2>7. answered' \subseteq Places'
    BY <1>3, <2>2, <2>5
  <2> QED
    BY <1>2, <2>4, <2>5, <2>6, <2>7 DEF CloudInv, RegistryInv
<1>5. ASSUME NEW k \in Places, NEW state \in {"active", "failed", "deleted"},
             models' = [models EXCEPT ![k].state = state],
             answered' \subseteq answered \cup {k}
      PROVE  CloudInv'
  <2>1. models' \in Seq(Registration) /\ Len(models') = Len(models)
    <3>1. PICK new : new = [models[k] EXCEPT !.state = state]
      OBVIOUS
    <3>2. k \in 1..Len(models) /\ models[k] \in Registration
      <4>1. k \in 1..Len(models)
        BY <1>3, <1>5
      <4> HIDE DEF Registration
      <4> QED
        BY <1>3, <4>1
    <3>3. new \in Registration
      BY <3>1, <3>2
    <3>4. models' = [models EXCEPT ![k] = new]
      BY <1>5, <3>1
    <3>5. /\ [models EXCEPT ![k] = new] \in Seq(Registration)
          /\ Len([models EXCEPT ![k] = new]) = Len(models)
      BY <1>3, <3>2, <3>3, ExceptSeq
    <3> QED
      BY <3>4, <3>5
  <2>2. \A j \in Places : models'[j].after = models[j].after
    BY <1>3, <1>5
  <2>3. Places' = Places
    BY <1>3, <2>1 DEF Places
  <2> QED
    BY <1>2, <1>3, <1>5, <2>1, <2>2, <2>3 DEF CloudInv, RegistryInv
<1>6. CASE \E k \in Places : EndRegistration(k) \/ DeleteModel(k)
  BY <1>5, <1>6 DEF EndRegistration, DeleteModel
<1> QED
  BY <1>4, <1>6 DEF RegistryNext

LEMMA CloudInvNext == CloudInv /\ [CloudNext]_cloudVars => CloudInv'
<1> SUFFICES ASSUME CloudInv, [CloudNext]_cloudVars  PROVE CloudInv'
  OBVIOUS
<1>1. CASE UNCHANGED cloudVars
  BY <1>1 DEF cloudVars, CloudInv, CloudTypes, StoredInv, AllSent, Stored, PagingInv, Seen, Newer,
              Time, RegistryInv, Places
<1>2. CASE CloudNext
  BY <1>2, CloudInvSenders, CloudInvReader, CloudInvRegistry DEF CloudNext, TelemetryNext
<1> QED
  BY <1>1, <1>2

(***************************************************************************)
(* Whatever is sent again, breaks off or arrives meanwhile: what a sender  *)
(* was told is stored, a client that pages to the end has missed nothing   *)
(* that was there when it began, and the model served as latest has no     *)
(* active successor.                                                       *)
(***************************************************************************)
THEOREM CloudAnswersAlwaysTrue == CloudSpec => []CloudAnswersAreTrue
<1>1. CloudInv => CloudAnswersAreTrue
  <2> SUFFICES ASSUME CloudInv
               PROVE  AcceptedReadingsAreStored /\ PagingMissesNothing /\ LatestIsNotSuperseded
    BY DEF CloudAnswersAreTrue
  <2>1. CloudTypes /\ StoredInv /\ PagingInv /\ RegistryInv
    BY DEF CloudInv
  <2>2. ASSUME NEW s \in accepted
        PROVE  /\ Sent(s) \subseteq Stored
               /\ sender[s].tries = 1 => NewRows(Sent(s), 2) \cap rows = {}
    <3>1. s \in Senders /\ sender[s].done = Len(Batches[s])
      BY <2>1, <2>2 DEF CloudTypes, StoredInv, AllSent
    <3>2. DOMAIN Batches[s] = 1..Len(Batches[s])
      BY <3>1, CloudAssumption DEF Senders
    <3>3. Sent(s) \subseteq Stored
      BY <2>1, <3>1, <3>2 DEF StoredInv, Sent
    <3>4. ASSUME sender[s].tries = 1, NEW row \in NewRows(Sent(s), 2), row \in rows  PROVE FALSE
      <4>1. row.reading \in Sent(s) /\ row.copy = 2
        BY <3>4 DEF NewRows
      <4>2. row.copy <= 1
        BY <2>1, <3>1, <3>4, <4>1 DEF StoredInv
      <4> QED
        BY <4>1, <4>2
    <3> QED
      BY <3>3, <3>4
  <2>3. PagingMissesNothing
    BY <2>1 DEF PagingInv, PagingMissesNothing, Seen
  <2>4. ASSUME NEW i \in LatestModels, NEW j \in Active, i \in models[j].after  PROVE FALSE
    <3>1. i < j /\ j <= i /\ i \in Nat /\ j \in Nat
      BY <2>1, <2>4 DEF LatestModels, Active, RegistryInv, Places
    <3> QED
      BY <3>1
  <2> QED
    BY <2>2, <2>3, <2>4 DEF AcceptedReadingsAreStored, LatestIsNotSuperseded
<1> QED
  BY <1>1, CloudInvInit, CloudInvNext, PTL DEF CloudSpec

-----------------------------------------------------------------------------

(***************************************************************************)
(* The scheduler, for any nodes, loads and requests.  A report that counts *)
(* is one of the loads, and what is queued is a request.                   *)
(***************************************************************************)
ReportsInv ==
    /\ report \in [EdgeNodes -> [load : {CHOOSE load \in Loads : TRUE} \cup Loads, age : Int]]
    /\ \A n \in EdgeNodes : report[n].age >= 0 => report[n].load \in Loads

TasksInv ==
    /\ DOMAIN placement = Tasks
    /\ \A t \in Queued : queue[t] \in Requests

PlacementInv == ReportsInv /\ TasksInv

\* A share of the latency is between none and all of its weight.
LEMMA LatencyScoreBounds ==
    ASSUME NEW latency \in Nat, NEW limit \in Nat \ {0}
    PROVE  \E share \in Nat : share = LatencyScore(latency, limit) /\ share <= 6000
<1>1. CASE latency >= limit
  BY <1>1 DEF LatencyScore
<1>2. CASE latency < limit
  <2>1. PICK a \in Nat : a = 6000 * (limit - latency)
    BY <1>2
  <2>2. a <= 6000 * limit
    BY <1>2, <2>1
  <2>3. a \div limit \in Nat /\ limit * (a \div limit) <= a
    OBVIOUS
  <2>4. PICK share \in Nat : share = a \div limit
    BY <2>3
  <2>5. limit * share <= 6000 * limit
    BY <2>1, <2>2, <2>3, <2>4
  <2>6. share <= 6000
    BY <2>5
  <2> QED
    BY <1>2, <2>1, <2>4, <2>6 DEF LatencyScore
<1> QED
  BY <1>1, <1>2

\* What the policy that weighs both gives to the cloud, and to a node.
LEMMA CloudScoreBounds ==
    ASSUME NEW q \in Requests
    PROVE  CloudScore(q) \in Nat /\ CloudScore(q) <= IF q.large THEN 8800 ELSE 7200
<1>1. PICK limit \in Nat \ {0} : limit = q.limit
  BY SchedulerAssumption
<1>2. PICK latency \in Nat : latency = 50
  OBVIOUS
<1>3. PICK share \in Nat : share = LatencyScore(latency, limit) /\ share <= 6000
  BY LatencyScoreBounds
<1>6. CloudScore(q) = share + IF q.large THEN 2800 ELSE 1200
  BY <1>1, <1>2, <1>3 DEF CloudScore
<1>4. CASE q.large
  BY <1>3, <1>4, <1>6
<1>5. CASE ~q.large
  BY <1>3, <1>5, <1>6
<1> QED
  BY <1>4, <1>5

LEMMA EdgeScoreIsNatural ==
    ASSUME ReportsInv, NEW q \in Requests, NEW n \in RoomyNodes
    PROVE  EdgeScore(n, q) \in Nat
<1>1. PICK limit \in Nat \ {0} : limit = q.limit
  BY SchedulerAssumption
<1>2. n \in EdgeNodes /\ report[n].age >= 0
  BY SchedulerAssumption DEF RoomyNodes, ResourceMap, ReportsInv
<1>3. Load(n).latency \in Nat
  BY <1>2, SchedulerAssumption DEF ReportsInv, Load
<1>4. PICK latency \in Nat : latency = IF Load(n).latency > 0 THEN Load(n).latency ELSE 10
  BY <1>3
<1>6. PICK share \in Nat : share = LatencyScore(latency, limit) /\ share <= 6000
  BY LatencyScoreBounds
<1>7. EdgeScore(n, q) = share + IF q.large THEN 2000 ELSE 3600
  BY <1>1, <1>4, <1>6 DEF EdgeScore
<1>8. CASE q.large
  BY <1>6, <1>7, <1>8
<1>9. CASE ~q.large
  BY <1>6, <1>7, <1>9
<1> QED
  BY <1>8, <1>9

\* The policies with a node at hand: which nodes they name, and their scores.
LEMMA NearestIsOne == 
    ASSUME NEW nodes, NEW from, NEW n \in NearestOf(nodes, from)
    PROVE  n \in nodes /\ (from \in nodes => n = from)
  BY DEF NearestOf, LeastLoaded

LEMMA LatencyFirstGives ==
    ASSUME NEW q \in Requests, NEW l \in LatencyFirst(q)
    PROVE  \/ RoomyNodes = {} /\ l.on = "cloud"
           \/ /\ l.on \in RoomyNodes
              /\ l.score = IF q.from \in RoomyNodes THEN 9000 ELSE 8000
<1>1. CASE RoomyNodes = {}
  BY <1>1 DEF LatencyFirst, Cloud
<1>2. CASE RoomyNodes # {}
  <2>1. ResourceMap # {}
    BY <1>2 DEF RoomyNodes
  <2>2. PICK n \in NearestOf(RoomyNodes, q.from) :
            l = [on |-> n, score |-> IF n = q.from THEN 9000 ELSE 8000]
    BY <1>2, <2>1 DEF LatencyFirst
  <2>3. n \in RoomyNodes /\ (q.from \in RoomyNodes => n = q.from)
    BY <2>2, NearestIsOne
  <2> QED
    BY <2>2, <2>3
<1> QED
  BY <1>1, <1>2

LEMMA CostAwareGives ==
    ASSUME NEW q \in Requests, NEW c \in CostAware(q)
    PROVE  \/ c.on = "cloud" /\ (RoomyNodes # {} => q.large /\ c.score = 5500)
           \/ c.on \in RoomyNodes /\ ~q.large /\ c.score \in {7500, 8500}
<1>1. CASE ~q.large /\ RoomyNodes # {}
  <2> DEFINE Gives == {[on |-> n, score |-> IF n = q.from THEN 8500 ELSE 7500] :
                           n \in NearestOf(RoomyNodes, q.from)}
  <2>3. CostAware(q) = Gives
    BY <1>1 DEF CostAware
  <2>1. PICK n \in NearestOf(RoomyNodes, q.from) :
            c = [on |-> n, score |-> IF n = q.from THEN 8500 ELSE 7500]
    BY <2>3
  <2>2. n \in RoomyNodes
    BY <2>1, NearestIsOne
  <2> QED
    BY <1>1, <2>1, <2>2
<1>2. CASE q.large /\ RoomyNodes # {}
  <2>1. ResourceMap # {}
    BY <1>2 DEF RoomyNodes
  <2>2. c = Cloud(5500)
    BY <1>2, <2>1 DEF CostAware
  <2> QED
    BY <1>2, <2>2 DEF Cloud
<1>3. CASE RoomyNodes = {}
  BY <1>3 DEF CostAware, Cloud
<1> QED
  BY <1>1, <1>2, <1>3

LEMMA BalancedGives ==
    ASSUME ReportsInv, NEW q \in Requests, NEW b \in Balanced(q)
    PROVE  \/ b.on = "cloud" /\ b.score = CloudScore(q)
           \/ b.on \in RoomyNodes /\ b.score \in Nat
<1>1. CASE b = Cloud(CloudScore(q))
  BY <1>1 DEF Cloud
<1>2. CASE \E n \in RoomyNodes : b = [on |-> n, score |-> EdgeScore(n, q)]
  BY <1>2, EdgeScoreIsNatural
<1>3. b = Cloud(CloudScore(q)) \/ \E n \in RoomyNodes : b = [on |-> n, score |-> EdgeScore(n, q)]
  BY DEF Balanced
<1> QED
  BY <1>1, <1>2, <1>3

\* One of the three, and which.
LEMMA PlacementIs ==
    ASSUME NEW q, NEW p \in Placements(q)
    PROVE  \E l \in LatencyFirst(q), c \in CostAware(q), b \in Balanced(q) :
               \/ p = l
               \/ p = c /\ ~(l.score >= c.score /\ l.score >= b.score) /\ c.score >= b.score
               \/ p = b /\ ~(l.score >= c.score /\ l.score >= b.score) /\ ~(c.score >= b.score)
  BY DEF Placements

LEMMA CloudIsNoNode == "cloud" \notin RoomyNodes
  BY SchedulerAssumption DEF RoomyNodes, ResourceMap

LEMMA PlacedWhereThereIsRoom ==
    ASSUME ReportsInv, NEW q \in Requests, NEW p \in Placements(q)
    PROVE  p.on = "cloud" \/ p.on \in RoomyNodes
  BY PlacementIs, LatencyFirstGives, CostAwareGives, BalancedGives

LEMMA CloudIsJustified == ReportsInv => CloudOnlyWhenItMust
<1> SUFFICES ASSUME ReportsInv,
                    NEW q \in Requests, NEW p \in Placements(q), p.on = "cloud",
                    RoomyNodes # {}, ~(q.large /\ q.from \notin RoomyNodes)
             PROVE  FALSE
  BY DEF CloudOnlyWhenItMust
<1>1. PICK l \in LatencyFirst(q), c \in CostAware(q), b \in Balanced(q) :
          \/ p = l
          \/ p = c /\ ~(l.score >= c.score /\ l.score >= b.score) /\ c.score >= b.score
          \/ p = b /\ ~(l.score >= c.score /\ l.score >= b.score) /\ ~(c.score >= b.score)
  BY PlacementIs
<1>2. l.on \in RoomyNodes /\ l.score = IF q.from \in RoomyNodes THEN 9000 ELSE 8000
  BY LatencyFirstGives
<1>3. CASE p = l
  BY <1>2, <1>3, CloudIsNoNode
<1>4. CASE p = c /\ ~(l.score >= c.score /\ l.score >= b.score) /\ c.score >= b.score
  <2>1. q.large /\ c.score = 5500 /\ l.score = 9000
    BY <1>2, <1>4, CostAwareGives, CloudIsNoNode
  <2>2. b.score \in Nat
    BY BalancedGives, CloudScoreBounds
  <2> QED
    BY <1>4, <2>1, <2>2
<1>5. CASE p = b /\ ~(l.score >= c.score /\ l.score >= b.score) /\ ~(c.score >= b.score)
  <2>1. b.score = CloudScore(q)
    BY <1>5, BalancedGives, CloudIsNoNode
  <2>2. PICK score \in Nat : score = CloudScore(q) /\ score <= IF q.large THEN 8800 ELSE 7200
    BY CloudScoreBounds
  <2>3. CASE q.large
    <3>1. l.score = 9000 /\ c.score = 5500
      BY <1>2, <2>3, CostAwareGives
    <3> QED
      BY <1>5, <2>1, <2>2, <2>3, <3>1
  <2>4. CASE ~q.large
    <3>1. c.score \in {7500, 8500}
      BY <2>4, CostAwareGives
    <3> QED
      BY <1>5, <2>1, <2>2, <2>4, <3>1
  <2> QED
    BY <2>3, <2>4
<1> QED
  BY <1>1, <1>3, <1>4, <1>5

LEMMA PlacementInvInit == SchedulerInit => PlacementInv
  BY DEF SchedulerInit, PlacementInv, ReportsInv, TasksInv, Queued, NothingQueued

LEMMA PlacementInvNext ==
    PlacementInv /\ [SchedulerNext]_schedulerVars => PlacementInv'
<1> SUFFICES ASSUME PlacementInv, [SchedulerNext]_schedulerVars  PROVE PlacementInv'
  OBVIOUS
<1>1. ReportsInv /\ TasksInv
  BY DEF PlacementInv
<1>2. report' = report => ReportsInv'
  BY <1>1 DEF ReportsInv
<1>3. UNCHANGED <<queue, placement>> => TasksInv'
  BY <1>1 DEF TasksInv, Queued
<1>4. ASSUME NEW n \in EdgeNodes, NEW load \in Loads, ReportLoad(n, load)
      PROVE  PlacementInv'
  <2>1. ReportsInv'
    BY <1>1, <1>4 DEF ReportLoad, ReportsInv
  <2> QED
    BY <1>3, <1>4, <2>1 DEF ReportLoad, PlacementInv
<1>5. CASE TimePasses
  <2>1. ASSUME NEW n \in EdgeNodes
        PROVE  /\ report'[n] \in [load : {CHOOSE load \in Loads : TRUE} \cup Loads, age : Int]
               /\ report'[n].age >= 0 => report'[n].load \in Loads
    <3>1. PICK it \in [load : {CHOOSE load \in Loads : TRUE} \cup Loads, age : Int] : it = report[n]
      BY <1>1 DEF ReportsInv
    <3>2. PICK new : new = [it EXCEPT !.age = it.age + 1]
      OBVIOUS
    <3>3. CASE it.age \in 0..StaleAfter
      <4>1. report'[n] = new
        BY <1>5, <3>1, <3>2, <3>3 DEF TimePasses
      <4> QED
        BY <1>1, <3>1, <3>2, <3>3, <4>1, SchedulerAssumption DEF ReportsInv
    <3>4. CASE it.age \notin 0..StaleAfter
      <4>1. report'[n] = it
        BY <1>5, <3>1, <3>4 DEF TimePasses
      <4> QED
        BY <1>1, <3>1, <4>1 DEF ReportsInv
    <3> QED
      BY <3>3, <3>4
  <2>2. report' = [n \in EdgeNodes |-> report'[n]]
    BY <1>5 DEF TimePasses
  <2>3. ReportsInv'
    BY <2>1, <2>2 DEF ReportsInv
  <2> QED
    BY <1>3, <1>5, <2>3 DEF TimePasses, PlacementInv
<1>6. ASSUME NEW t \in Tasks, NEW q \in Asked, SubmitTask(t, q)
      PROVE  PlacementInv'
  <2>1. TasksInv'
    BY <1>1, <1>6 DEF SubmitTask, TasksInv, Queued
  <2> QED
    BY <1>2, <1>6, <2>1 DEF SubmitTask, PlacementInv
<1>7. ASSUME NEW t \in Tasks, NEW q \in Asked, EnqueueTask(t, q)
      PROVE  PlacementInv'
  <2>1. q \in Requests
    BY SchedulerAssumption
  <2>2. TasksInv'
    BY <1>1, <1>7, <2>1 DEF EnqueueTask, TasksInv, Queued
  <2> QED
    BY <1>2, <1>7, <2>2 DEF EnqueueTask, PlacementInv
<1>8. CASE DrainQueue
  <2>1. TasksInv'
    BY <1>1, <1>8 DEF DrainQueue, TasksInv, Queued, NothingQueued
  <2> QED
    BY <1>2, <1>8, <2>1 DEF DrainQueue, PlacementInv
<1>9. CASE ServeAdaptively \/ UNCHANGED schedulerVars
  <2>1. UNCHANGED engineVars
    BY <1>9 DEF ServeAdaptively, RecordLatency, schedulerVars
  <2> QED
    BY <1>2, <1>3, <2>1 DEF engineVars, PlacementInv
<1> QED
  BY <1>4, <1>5, <1>6, <1>7, <1>8, <1>9 DEF SchedulerNext, EngineNext

WellPlaced(t) ==
    \/ placement'[t].on = "cloud"
    \/ /\ report[placement'[t].on].age \in 0..StaleAfter
       /\ HasRoom(placement'[t].on)

PlacedWell(t) == placement'[t] # placement[t] \/ t \in Queued \ Queued' => WellPlaced(t)

LEMMA RoomyIs ==
    ASSUME NEW n \in RoomyNodes
    PROVE  report[n].age \in 0..StaleAfter /\ HasRoom(n)
  BY DEF RoomyNodes, ResourceMap

LEMMA TasksPlacedWell ==
    PlacementInv /\ [SchedulerNext]_schedulerVars => \A t \in Tasks : PlacedWell(t)
<1> SUFFICES ASSUME PlacementInv, [SchedulerNext]_schedulerVars, NEW t \in Tasks,
                    placement'[t] # placement[t] \/ t \in Queued \ Queued'
             PROVE  WellPlaced(t)
  BY DEF PlacedWell
<1>1. ReportsInv /\ TasksInv
  BY DEF PlacementInv
<1>2. ASSUME NEW q \in Requests, placement'[t] \in Placements(q)
      PROVE  WellPlaced(t)
  BY <1>1, <1>2, PlacedWhereThereIsRoom, RoomyIs DEF WellPlaced
<1>3. ASSUME NEW u \in Tasks, NEW q \in Asked, SubmitTask(u, q)
      PROVE  WellPlaced(t)
  <2>1. placement'[t] # placement[t]
    BY <1>3 DEF SubmitTask, Queued
  <2>2. u = t /\ placement'[t] \in Placements(q)
    BY <1>1, <1>3, <2>1 DEF SubmitTask, TasksInv
  <2>3. q \in Requests
    BY SchedulerAssumption
  <2> QED
    BY <1>2, <2>2, <2>3
<1>4. CASE DrainQueue
  <2>1. t \in Queued
    BY <1>1, <1>4 DEF DrainQueue, TasksInv
  <2>2. placement'[t] \in Placements(queue[t]) /\ queue[t] \in Requests
    BY <1>1, <1>4, <2>1 DEF DrainQueue, TasksInv
  <2> QED
    BY <1>2, <2>2
<1>5. placement' # placement \/ ~ (Queued \subseteq Queued')
  OBVIOUS
<1>6. ASSUME NEW u \in Tasks, NEW q \in Asked, EnqueueTask(u, q)
      PROVE  FALSE
  BY <1>5, <1>6 DEF EnqueueTask, Queued
<1>7. ~ UNCHANGED <<queue, placement>>
  BY <1>5 DEF Queued
<1> QED
  BY <1>3, <1>4, <1>6, <1>7
     DEF SchedulerNext, EngineNext, ReportLoad, TimePasses, ServeAdaptively,
         RecordLatency, schedulerVars, engineVars

(***************************************************************************)
(* Whatever the nodes report and the tasks ask, whenever an id is placed,  *)
(* be it new or used before: in the cloud only if no node has room, or if  *)
(* the task is large and the node that asks has none; on a node only if    *)
(* its last report is not out of date and shows room.                      *)
(***************************************************************************)
THEOREM PlacementsAlwaysJustified == SchedulerSpec => PlacementsAreJustified
<1>1. (\A t \in Tasks : PlacedWell(t)) <=>
          \A t \in Tasks : placement'[t] # placement[t] \/ t \in Queued \ Queued' =>
              \/ placement'[t].on = "cloud"
              \/ /\ report[placement'[t].on].age \in 0..StaleAfter
                 /\ HasRoom(placement'[t].on)
  BY DEF PlacedWell, WellPlaced
<1>2. PlacementInv => CloudOnlyWhenItMust
  BY CloudIsJustified DEF PlacementInv
<1> QED
  BY <1>1, <1>2, PlacementInvInit, PlacementInvNext, TasksPlacedWell, PTL
     DEF SchedulerSpec, PlacementsAreJustified, PlacementsHaveRoom

=============================================================================
