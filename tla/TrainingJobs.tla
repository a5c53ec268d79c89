---------------------------- MODULE TrainingJobs ----------------------------
(***************************************************************************)
(* The training engine of ml-training: a task on the event loop loads the  *)
(* data of a job, a thread of the executor trains on it.  The loop cancels *)
(* jobs meanwhile.  The job record and the experiment each keep a status   *)
(* of their own, written one after the other and read by the two APIs.     *)
(***************************************************************************)
EXTENDS Naturals

CONSTANTS
    Trainings,     \* the training jobs that may be started
    EpochCounts,   \* epochs a request may ask for; the schema allows 0
    RowCounts      \* usable rows its data query may find

ASSUME TrainingAssumption == EpochCounts \subseteq Nat /\ RowCounts \subseteq Nat

(***************************************************************************)
(* Of each job: the status of its record and of its experiment, where its  *)
(* task (then its thread) is, the epochs asked for and completed, those    *)
(* with metrics, the rows to train and to validate on, whether the model   *)
(* is exported, whether the id is in _cancelled, where a cancel request    *)
(* is, and, as a history, where task and epochs were when one marked it.   *)
(***************************************************************************)
VARIABLE training

Verdicts == {"completed", "failed", "cancelled"}
NotMarked == [at |-> "nowhere", epochs |-> 0]

TrainInit ==
    \E asked \in [Trainings -> EpochCounts] :
        training = [j \in Trainings |->
            [status |-> "absent", experiment |-> "absent", at |-> "nowhere",
             asked |-> asked[j], epochs |-> 0, metrics |-> 0,
             split |-> [train |-> 0, val |-> 0], exported |-> FALSE,
             stopping |-> FALSE, cancel |-> "none", marked |-> NotMarked]]

\* 80/20; everything but the last row when that leaves one part empty.
SplitSizes(n) ==
    LET idx  == (n * 8) \div 10
        most == IF n > 2 THEN n - 1 ELSE 1
        cut  == IF idx = 0 \/ idx = n THEN most ELSE idx
    IN  [train |-> cut, val |-> n - cut]

Synthetic == [train |-> 1000, val |-> 200]

(***************************************************************************)
(* The event loop.  A cancel request is one handler without an await: a    *)
(* thread may come between its accesses, another handler may not.          *)
(***************************************************************************)
LoopIdle == \A j \in Trainings : training[j].cancel = "none"

StartTraining(j) ==
    /\ LoopIdle
    /\ training[j].status = "absent"
    /\ training' = [training EXCEPT ![j].status = "pending",
                                    ![j].experiment = "pending",
                                    ![j].at = "loading"]

\* No usable row, or a failing database: made-up data instead.
LoadData(j) ==
    /\ LoopIdle
    /\ training[j].at = "loading"
    /\ \E n \in RowCounts :
           training' = [training EXCEPT
               ![j].split = IF n = 0 THEN Synthetic ELSE SplitSizes(n),
               ![j].at = "starting"]

\* Refused after a verdict.
CheckTraining(j) ==
    /\ LoopIdle
    /\ training[j].status \notin Verdicts \cup {"absent"}
    /\ training' = [training EXCEPT ![j].cancel = "mark"]

\* Fault: the id is not put into _cancelled.
MarkTraining_statusOnly(j) ==
    /\ training[j].cancel = "mark"
    /\ training' = [training EXCEPT
           ![j].status = "cancelled", ![j].cancel = "track",
           ![j].marked = [at |-> training[j].at, epochs |-> training[j].epochs]]

MarkTraining(j) ==
    /\ training[j].cancel = "mark"
    /\ training' = [training EXCEPT
           ![j].stopping = TRUE, ![j].status = "cancelled", ![j].cancel = "track",
           ![j].marked = [at |-> training[j].at, epochs |-> training[j].epochs]]

TrackCancel(j) ==
    /\ training[j].cancel = "track"
    /\ training' = [training EXCEPT ![j].experiment = "cancelled", ![j].cancel = "none"]

(***************************************************************************)
(* The thread.                                                             *)
(***************************************************************************)
BeginTraining(j) ==
    /\ training[j].at = "starting"
    /\ training' = [training EXCEPT ![j].status = "running", ![j].at = "building"]

TrackRunning(j) ==
    /\ training[j].at = "building"
    /\ training' = [training EXCEPT ![j].experiment = "running", ![j].at = "epoch"]

\* The head of the epoch loop: the only place where a cancellation is seen.
NextEpoch(j) ==
    /\ training[j].at = "epoch"
    /\ LET t == training[j] IN
       training' = [training EXCEPT ![j].at =
           IF t.epochs = t.asked THEN "exporting"
           ELSE IF t.stopping THEN "done" ELSE "training"]

TrainEpoch(j) ==
    /\ training[j].at = "training"
    /\ training' = [training EXCEPT ![j].epochs = @ + 1, ![j].at = "logging"]

LogMetrics(j) ==
    /\ training[j].at = "logging"
    /\ training' = [training EXCEPT ![j].metrics = @ + 1, ![j].at = "epoch"]

ExportModel(j) ==
    /\ training[j].at = "exporting"
    /\ training' = [training EXCEPT ![j].exported = TRUE, ![j].at = "exported"]

CompleteTraining(j) ==
    /\ training[j].at = "exported"
    /\ training' = [training EXCEPT ![j].status = "completed", ![j].at = "completed"]

\* An exception: an unknown model type, torch, the export.
FailTraining(j) ==
    /\ training[j].at \in {"epoch", "training", "exporting"}
    /\ training' = [training EXCEPT ![j].status = "failed", ![j].at = "failed"]

TrackVerdict(j) ==
    /\ training[j].at \in {"completed", "failed"}
    /\ training' = [training EXCEPT ![j].experiment = training[j].at, ![j].at = "done"]

TrainingStep(j) ==
    \/ BeginTraining(j)
    \/ TrackRunning(j)
    \/ NextEpoch(j)
    \/ TrainEpoch(j)
    \/ LogMetrics(j)
    \/ ExportModel(j)
    \/ CompleteTraining(j)
    \/ FailTraining(j)
    \/ TrackVerdict(j)

TrainNext ==
    \E j \in Trainings :
        \/ StartTraining(j)
        \/ LoadData(j)
        \/ CheckTraining(j)
        \/ MarkTraining(j)
        \/ TrackCancel(j)
        \/ TrainingStep(j)

\* Loading ends, threads run, and the loop finishes the handler it is in.
TrainFairness ==
    \A j \in Trainings :
        /\ WF_training(LoadData(j))
        /\ WF_training(MarkTraining(j) \/ TrackCancel(j))
        /\ WF_training(TrainingStep(j))

TrainSpec == TrainInit /\ [][TrainNext]_training /\ TrainFairness

-----------------------------------------------------------------------------
(***************************************************************************)
(* What it must do.                                                        *)
(***************************************************************************)

\* A cancelled training stops: whatever the thread was doing when it was
\* marked, it finishes at most the epoch in hand, and writes a model only if
\* that was the last.
CancelStopsWithinAnEpoch ==
    \A j \in Trainings :
        LET t == training[j] IN
        t.marked # NotMarked =>
            /\ t.epochs <= t.marked.epochs + 1
            /\ t.exported => t.asked <= t.marked.epochs + 1

\* Once its thread has ended, the two APIs agree on the verdict of a job that
\* nobody cancelled, and a completed one has all its epochs, their metrics,
\* its model, and was trained on at least one row.
SettledRecordsAgree ==
    \A j \in Trainings :
        LET t == training[j] IN
        t.at = "done" /\ t.marked = NotMarked /\ t.cancel = "none" =>
            /\ t.status = t.experiment
            /\ t.status = "completed" =>
                   t.exported /\ t.epochs = t.asked /\ t.metrics = t.asked /\ t.split.train > 0

\* Every training ends, and with a verdict unless it was cancelled while its
\* data was loading or before its thread began: that thread sets "running"
\* over "cancelled", sees the cancellation and returns.
TrainingsEnd ==
    \A j \in Trainings :
        training[j].at = "loading" ~>
            [](/\ training[j].at = "done"
               /\ \/ training[j].status \in Verdicts
                  \/ training[j].marked.at \in {"loading", "starting"})

\* What the two APIs say of a training is what its thread has done.
TrainingIsReported == CancelStopsWithinAnEpoch /\ SettledRecordsAgree

(***************************************************************************)
(* The worker of JobLifecycle is the task and its thread up to the verdict *)
(* in the job record; the experiment's status follows outside of it.  The  *)
(* output is the exported model.                                           *)
(***************************************************************************)
WorkerOfTraining(t) ==
    CASE t.at = "nowhere"                            -> "none"
      [] t.at \in {"loading", "starting"}            -> "waiting"
      [] t.at \in {"completed", "failed", "done"}    -> "ended"
      [] OTHER                                       -> "working"

TrainingLifecycle == INSTANCE JobLifecycle WITH
    Ids     <- Trainings,
    status  <- [j \in Trainings |-> training[j].status],
    worker  <- [j \in Trainings |-> WorkerOfTraining(training[j])],
    output  <- {j \in Trainings : training[j].exported},
    checked <- {j \in Trainings : training[j].cancel = "mark"},
    marked  <- {j \in Trainings : training[j].stopping}

(***************************************************************************)
(* The records tell what the threads do, and each access of loop or thread *)
(* to a job's record is a step of JobLifecycle or changes nothing there.   *)
(***************************************************************************)
TrainingJobsBehave == []TrainingIsReported /\ TrainingLifecycle!Spec

=============================================================================
