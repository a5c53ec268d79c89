-------------------------- MODULE MCLeaderElection --------------------------
(***************************************************************************)
(* Leader election where nothing fails and nodes shut down in an orderly   *)
(* way.                                                                    *)
(***************************************************************************)
EXTENDS LeaderElection

OnlyShutdown == {{"shutdown"}}

=============================================================================
