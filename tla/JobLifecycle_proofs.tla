------------------------- MODULE JobLifecycle_proofs -------------------------
(***************************************************************************)
(* What JobLifecycle promises to the reader of a record follows from its   *)
(* steps, for any set of jobs.                                             *)
(***************************************************************************)
EXTENDS JobLifecycle, TLAPS

Statuses == {"absent", "pending", "running", "completed", "failed", "cancelled"}

(***************************************************************************)
(* The inductive invariant.  A verdict of the worker's own is written as   *)
(* it ends, an output left while it works, and nobody cancels a job that   *)
(* was never submitted.                                                    *)
(***************************************************************************)
LifecycleInv ==
    /\ status \in [Ids -> Statuses]
    /\ worker \in [Ids -> {"none", "waiting", "working", "ended"}]
    /\ \A j \in Ids :
          /\ RecordIsTrue(j)
          /\ worker[j] = "none" <=> status[j] = "absent"
          /\ status[j] \in {"completed", "failed"} => worker[j] = "ended"
          /\ j \in output => worker[j] \in {"working", "ended"}
          /\ j \in checked => worker[j] # "none"

LEMMA LifecycleStep ==
    ASSUME LifecycleInv, NEW j \in Ids, JobStep(j)  PROVE LifecycleInv'
<1> USE DEF LifecycleInv, RecordIsTrue, Statuses
<1>1. CASE Submit(j)
  BY <1>1 DEF Submit
<1>2. CASE Begin(j)
  BY <1>2 DEF Begin
<1>3. CASE Produce(j)
  BY <1>3 DEF Produce
<1>4. CASE Conclude(j)
  BY <1>4 DEF Conclude
<1>5. CASE GiveUp(j)
  BY <1>5 DEF GiveUp
<1>6. CASE CheckCancel(j)
  BY <1>6 DEF CheckCancel
<1>7. CASE MarkCancel(j)
  BY <1>7 DEF MarkCancel
<1> QED
  BY <1>1, <1>2, <1>3, <1>4, <1>5, <1>6, <1>7 DEF JobStep

LEMMA LifecycleAlways == Spec => []LifecycleInv
<1>1. Init => LifecycleInv
  BY DEF Init, LifecycleInv, RecordIsTrue, Statuses
<1>2. LifecycleInv /\ [Next]_vars => LifecycleInv'
  <2> SUFFICES ASSUME LifecycleInv, [Next]_vars  PROVE LifecycleInv'
    OBVIOUS
  <2>1. CASE UNCHANGED vars
    BY <2>1 DEF vars, LifecycleInv, RecordIsTrue
  <2> QED
    BY <2>1, LifecycleStep DEF Next
<1> QED
  BY <1>1, <1>2, PTL DEF Spec

(***************************************************************************)
(* A job shown as completed has its output, one shown as failed has none,  *)
(* and the record of a job that no request marked tells, once its worker   *)
(* has ended, which of the two it is.                                      *)
(***************************************************************************)
THEOREM RecordsAlwaysTrue == Spec => []RecordsAreTrue
<1>1. LifecycleInv => RecordsAreTrue
  BY DEF LifecycleInv, RecordsAreTrue
<1> QED
  BY <1>1, LifecycleAlways, PTL

(***************************************************************************)
(* Once the worker of a job has ended, its output stays and its record     *)
(* changes only to "cancelled", by a request that had looked at it.        *)
(***************************************************************************)
THEOREM EndsAreFinal == Spec => EndIsFinal
<1> DEFINE Final(j) ==
        /\ worker'[j] = "ended"
        /\ j \in output' <=> j \in output
        /\ status'[j] = status[j] \/ (j \in checked /\ status'[j] = "cancelled")
<1>1. ASSUME LifecycleInv, [Next]_vars, NEW i \in Ids, worker[i] = "ended"
      PROVE  Final(i)
  <2>1. CASE UNCHANGED vars
    BY <1>1, <2>1 DEF vars
  <2>2. ASSUME NEW j \in Ids, JobStep(j)  PROVE Final(i)
    <3> USE DEF LifecycleInv
    <3>1. CASE Submit(j)
      BY <1>1, <3>1 DEF Submit
    <3>2. CASE Begin(j)
      BY <1>1, <3>2 DEF Begin
    <3>3. CASE Produce(j)
      BY <1>1, <3>3 DEF Produce
    <3>4. CASE Conclude(j)
      BY <1>1, <3>4 DEF Conclude
    <3>5. CASE GiveUp(j)
      BY <1>1, <3>5 DEF GiveUp
    <3>6. CASE CheckCancel(j)
      BY <1>1, <3>6 DEF CheckCancel
    <3>7. CASE MarkCancel(j)
      BY <1>1, <3>7 DEF MarkCancel
    <3> QED
      BY <2>2, <3>1, <3>2, <3>3, <3>4, <3>5, <3>6, <3>7 DEF JobStep
  <2> QED
    BY <1>1, <2>1, <2>2 DEF Next
<1>2. LifecycleInv /\ [Next]_vars =>
          [\A j \in Ids : worker[j] = "ended" => Final(j)]_vars
  BY <1>1
<1> QED
  BY <1>2, LifecycleAlways, PTL DEF Spec, EndIsFinal

=============================================================================
