------------------------ MODULE MCStreamToPostgres ------------------------
(***************************************************************************)
(* Model values and fault sets for the runs of StreamToPostgres.           *)
(***************************************************************************)
EXTENDS StreamToPostgres, TLC

CONSTANTS w1, w2

TwoWorkers == {w1, w2}
OneWorker  == {w1}

WorkerSymmetry == Permutations(TwoWorkers)

\* Everything at once, evictions with some of it, and what the conditional
\* properties ask for.
AnyFailure ==
    {DisruptionKinds \ {"evict"}, {"evict", "crash", "read_lost", "commit_lost"},
     FlushFailures \cup {"evict"}, {"shutdown", "malformed", "evict"}}

SurvivedFailures ==
    {{"malformed", "commit_refused"}, {"ack_refused", "ack_lost", "commit_refused"},
     {"crash", "evict"}}

OnlyCrash      == {{"crash"}}
OnlyCommitLost == {{"commit_lost"}}

=============================================================================
