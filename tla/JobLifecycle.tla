---------------------------- MODULE JobLifecycle ----------------------------
(***************************************************************************)
(* What both job engines, batch analytics and model training, promise      *)
(* about a job, whoever cancels it and whenever: its worker begins once    *)
(* and ends once, leaves its output before it says "completed", and ends   *)
(* without a verdict only if the job was cancelled.  The cancelling is in  *)
(* two steps, so the mark of a cancel request may fall on a record whose   *)
(* worker has begun, or has ended, since the request looked at it.         *)
(***************************************************************************)
CONSTANT Ids

VARIABLES
    status,    \* of the record, as the API shows it
    worker,    \* "none", "waiting", "working", then "ended"
    output,    \* the jobs that have left a result or a model
    checked,   \* the jobs a cancel request has looked at and will mark
    marked     \* the jobs a cancel request has marked

vars == <<status, worker, output, checked, marked>>

Init ==
    /\ status = [j \in Ids |-> "absent"]
    /\ worker = [j \in Ids |-> "none"]
    /\ output = {}
    /\ checked = {}
    /\ marked = {}

Submit(j) ==
    /\ worker[j] = "none"
    /\ status' = [status EXCEPT ![j] = "pending"]
    /\ worker' = [worker EXCEPT ![j] = "waiting"]
    /\ UNCHANGED <<output, checked, marked>>

\* Whatever the record says by now.
Begin(j) ==
    /\ worker[j] = "waiting"
    /\ status' = [status EXCEPT ![j] = "running"]
    /\ worker' = [worker EXCEPT ![j] = "working"]
    /\ UNCHANGED <<output, checked, marked>>

Produce(j) ==
    /\ worker[j] = "working"
    /\ output' = output \cup {j}
    /\ UNCHANGED <<status, worker, checked, marked>>

\* The worker's own verdict.
Conclude(j) ==
    /\ worker[j] = "working"
    /\ status' = [status EXCEPT ![j] = IF j \in output THEN "completed" ELSE "failed"]
    /\ worker' = [worker EXCEPT ![j] = "ended"]
    /\ UNCHANGED <<output, checked, marked>>

\* The worker sees the cancellation: no output and no verdict of its own.
GiveUp(j) ==
    /\ worker[j] = "working"
    /\ j \in marked /\ j \notin output
    /\ worker' = [worker EXCEPT ![j] = "ended"]
    /\ UNCHANGED <<status, output, checked, marked>>

CheckCancel(j) ==
    /\ status[j] \in {"pending", "running"}
    /\ checked' = checked \cup {j}
    /\ UNCHANGED <<status, worker, output, marked>>

MarkCancel(j) ==
    /\ j \in checked
    /\ status' = [status EXCEPT ![j] = "cancelled"]
    /\ checked' = checked \ {j}
    /\ marked' = marked \cup {j}
    /\ UNCHANGED <<worker, output>>

JobStep(j) ==
    \/ Submit(j) \/ Begin(j) \/ Produce(j) \/ Conclude(j) \/ GiveUp(j)
    \/ CheckCancel(j) \/ MarkCancel(j)

Next == \E j \in Ids : JobStep(j)

Spec == Init /\ [][Next]_vars

-----------------------------------------------------------------------------
(***************************************************************************)
(* What follows for the reader of a record.  A job shown as completed has  *)
(* its output.  Once its worker has ended, the record of a job that was    *)
(* never marked tells whether there is an output, and an output is shown   *)
(* as failed in no case.                                                   *)
(***************************************************************************)
RecordIsTrue(j) ==
    /\ status[j] = "completed" => j \in output
    /\ status[j] = "failed" => j \notin output
    /\ worker[j] = "ended" /\ j \notin marked =>
           status[j] = IF j \in output THEN "completed" ELSE "failed"

RecordsAreTrue == \A j \in Ids : RecordIsTrue(j)

(***************************************************************************)
(* What a job has come to stays: nothing is produced after the end, and    *)
(* the record changes only to "cancelled", by a request that looked at it  *)
(* before.                                                                 *)
(***************************************************************************)
EndIsFinal ==
    [][\A j \in Ids : worker[j] = "ended" =>
           /\ worker'[j] = "ended"
           /\ j \in output' <=> j \in output
           /\ status'[j] = status[j] \/ (j \in checked /\ status'[j] = "cancelled")]_vars

=============================================================================
