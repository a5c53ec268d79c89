------------------------------ MODULE BatchJobs ------------------------------
(***************************************************************************)
(* The job engine of batch-analytics.  The event loop submits jobs and     *)
(* cancels them; a thread of the default executor runs each one.  Both     *)
(* write the status of the same record without a lock, so they interleave  *)
(* between any two of its accesses.  Records and results live in memory.   *)
(***************************************************************************)
EXTENDS Naturals, FiniteSets

CONSTANTS
    Jobs,       \* the jobs that may be submitted
    PoolSize    \* threads of the executor

NoJob == "none"

ASSUME JobsAssumption == PoolSize \in Nat \ {0} /\ NoJob \notin Jobs

VARIABLES
    job,          \* status of each record, "absent" before it is submitted
    thread,       \* where the thread of each job is
    results,      \* the jobs ResultStore holds a result of
    cancelling,   \* the job a cancel request has checked and not yet marked
    cancelledAt   \* where the thread of each job was when it was last marked

batchVars == <<job, thread, results, cancelling, cancelledAt>>

Ended     == {"completed", "failed", "cancelled"}
OnAThread == {"spark", "computed", "raised", "storing", "stored", "failing"}
AtWork    == {"spark", "computed", "raised"}    \* before the status is read

BatchInit ==
    /\ job = [j \in Jobs |-> "absent"]
    /\ thread = [j \in Jobs |-> "none"]
    /\ results = {}
    /\ cancelling = NoJob
    /\ cancelledAt = [j \in Jobs |-> "none"]

(***************************************************************************)
(* The event loop.  A handler has no await between its first and its last  *)
(* access to a record: another handler never runs in between, a thread may.*)
(***************************************************************************)
SubmitJob(j) ==
    /\ cancelling = NoJob
    /\ job[j] = "absent"
    /\ job' = [job EXCEPT ![j] = "pending"]
    /\ thread' = [thread EXCEPT ![j] = "queued"]
    /\ UNCHANGED <<results, cancelling, cancelledAt>>

\* The router's check; any other status is answered 404 or 409.
CheckCancellable(j) ==
    /\ cancelling = NoJob
    /\ job[j] \in {"pending", "running"}
    /\ cancelling' = j
    /\ UNCHANGED <<job, thread, results, cancelledAt>>

MarkCancelled(j) ==
    /\ cancelling = j
    /\ job' = [job EXCEPT ![j] = "cancelled"]
    /\ cancelledAt' = [cancelledAt EXCEPT ![j] = thread[j]]
    /\ cancelling' = NoJob
    /\ UNCHANGED <<thread, results>>

\* GET /results/{id} and its download.
ResultResponse(j) ==
    CASE job[j] = "absent"                            -> "unknown job"
      [] job[j] \notin {"absent", "completed"}        -> "not completed"
      [] job[j] = "completed" /\ j \notin results     -> "no result"
      [] job[j] = "completed" /\ j \in results        -> "result"

(***************************************************************************)
(* The thread.  At its first step it does not look at the status it        *)
(* overwrites.                                                             *)
(***************************************************************************)
StartJob(j) ==
    /\ thread[j] = "queued"
    /\ Cardinality({i \in Jobs : thread[i] \in OnAThread}) < PoolSize
    /\ thread' = [thread EXCEPT ![j] = "spark"]
    /\ job' = [job EXCEPT ![j] = "running"]
    /\ UNCHANGED <<results, cancelling, cancelledAt>>

\* The work of one of the four jobs of spark_jobs/: a result or an exception.
RunSpark(j) ==
    /\ thread[j] = "spark"
    /\ \E outcome \in {"computed", "raised"} :
           thread' = [thread EXCEPT ![j] = outcome]
    /\ UNCHANGED <<job, results, cancelling, cancelledAt>>

CheckCancelled(j) ==
    /\ thread[j] \in {"computed", "raised"}
    /\ thread' = [thread EXCEPT ![j] =
           CASE job[j] = "cancelled"                            -> "done"
             [] job[j] # "cancelled" /\ thread[j] = "computed"  -> "storing"
             [] job[j] # "cancelled" /\ thread[j] = "raised"    -> "failing"]
    /\ UNCHANGED <<job, results, cancelling, cancelledAt>>

StoreResult(j) ==
    /\ thread[j] = "storing"
    /\ results' = results \cup {j}
    /\ thread' = [thread EXCEPT ![j] = "stored"]
    /\ UNCHANGED <<job, cancelling, cancelledAt>>

CompleteJob(j) ==
    /\ thread[j] = "stored"
    /\ job' = [job EXCEPT ![j] = "completed"]
    /\ thread' = [thread EXCEPT ![j] = "done"]
    /\ UNCHANGED <<results, cancelling, cancelledAt>>

\* Fault: the exception is logged and the record left as it is.
FailJob_logOnly(j) ==
    /\ thread[j] = "failing"
    /\ thread' = [thread EXCEPT ![j] = "done"]
    /\ UNCHANGED <<job, results, cancelling, cancelledAt>>

FailJob(j) ==
    /\ thread[j] = "failing"
    /\ job' = [job EXCEPT ![j] = "failed"]
    /\ thread' = [thread EXCEPT ![j] = "done"]
    /\ UNCHANGED <<results, cancelling, cancelledAt>>

ThreadStep(j) ==
    \/ StartJob(j)
    \/ RunSpark(j)
    \/ CheckCancelled(j)
    \/ StoreResult(j)
    \/ CompleteJob(j)
    \/ FailJob(j)

BatchNext ==
    \E j \in Jobs :
        \/ SubmitJob(j)
        \/ CheckCancellable(j)
        \/ MarkCancelled(j)
        \/ ThreadStep(j)

\* Threads run, and the loop finishes the handler it is in.
BatchFairness ==
    \A j \in Jobs : WF_batchVars(ThreadStep(j)) /\ WF_batchVars(MarkCancelled(j))

BatchSpec == BatchInit /\ [][BatchNext]_batchVars /\ BatchFairness

-----------------------------------------------------------------------------
(***************************************************************************)
(* What it must do.                                                        *)
(***************************************************************************)

\* A reader who finds a job completed finds its result: the result is stored
\* before the status says so, and no cancellation in between undoes that.
NoMissingResult == \A j \in Jobs : ResultResponse(j) # "no result"

\* A job that is cancelled while its Spark work runs, before its thread has
\* read the status, stays cancelled and leaves no result (cancel_job: "the
\* thread will check the status flag and stop at the next safe point").
\* One cancelled while it waits for a thread is run all the same.
CancelledWorkIsDropped ==
    \A j \in Jobs :
        cancelledAt[j] \in AtWork => job[j] = "cancelled" /\ j \notin results

\* Every job submitted ends with a verdict that stays, whatever cancel
\* requests its thread meets.
JobsReachAVerdict ==
    \A j \in Jobs :
        job[j] = "pending" ~> [](thread[j] = "done" /\ job[j] \in Ended)

\* Results and verdicts belong together, for readers and for cancellers.
ResultsMatchVerdicts == NoMissingResult /\ CancelledWorkIsDropped

\* The worker of JobLifecycle is the thread; its output is the result.
WorkerOfJob(j) ==
    CASE thread[j] = "none"      -> "none"
      [] thread[j] = "queued"    -> "waiting"
      [] thread[j] \in OnAThread -> "working"
      [] thread[j] = "done"      -> "ended"

BatchLifecycle == INSTANCE JobLifecycle WITH
    Ids     <- Jobs,
    status  <- job,
    worker  <- [j \in Jobs |-> WorkerOfJob(j)],
    output  <- results,
    checked <- {j \in Jobs : cancelling = j},
    marked  <- {j \in Jobs : cancelledAt[j] # "none"}

(***************************************************************************)
(* Without a lock between loop and thread: results and verdicts match, and *)
(* each access of either to a record is a step of JobLifecycle or changes  *)
(* nothing there.                                                          *)
(***************************************************************************)
BatchJobsBehave == []ResultsMatchVerdicts /\ BatchLifecycle!Spec

=============================================================================
