----------------------------- MODULE MCAdaptive ------------------------------
(***************************************************************************)
(* One node that always has room, for the adaptive policy of Scheduler.    *)
(***************************************************************************)
EXTENDS Scheduler

CONSTANT n1

IdleOnly    == {[cpu |-> 20, memory |-> 50, latency |-> 0]}
OneRequest  == {[from |-> n1, large |-> FALSE, limit |-> 100]}

=============================================================================
