---------------------------- MODULE MCCoordination ----------------------------
(***************************************************************************)
(* The coordination service in one run: leader election, the replicated    *)
(* configuration, the membership and the version vectors.  They share no   *)
(* state (nothing in the service asks is_leader() before it writes the     *)
(* configuration), so a behaviour exercises one while the others are idle. *)
(***************************************************************************)
EXTENDS LeaderElection, ConfigSync, Membership, VersionVector

VARIABLE part    \* the one a behaviour exercises; fixed

\* Everything at once, and everything but orderly shutdowns.
AnyElectFailure == {ElectDisruptions, {"failure", "crash"}}

\* No failure, and all of them with overlapping writes or with starting nodes.
AnyConfigFailure ==
    {{}, {"overlap", "failure", "disconnect"}, {"start", "failure", "disconnect"}}

\* Gossip with a client, and peers that join and leave; gossip without one, as
\* main() runs it, and peers that crash, or that also just come back.
AnyMemberFailure ==
    {{"publish"}, {"crash", "no_client"}, {"crash", "return", "no_client"}}

coordinationVars == <<electVars, configVars, memberVars, vectorVars, part>>

Init ==
    /\ part \in {"election", "configuration", "membership", "vectors"}
    /\ ElectInit
    /\ part = "election" \/ electFaults = ElectDisruptions
    /\ ConfigInit
    /\ part = "configuration" \/ configFaults = {}
    /\ MemberInit
    /\ part = "membership" \/ memberFaults = {"crash", "no_client"}
    /\ VectorInit

Next ==
    /\ UNCHANGED part
    /\ \/ /\ part = "election" /\ ElectNext
          /\ UNCHANGED <<configVars, memberVars, vectorVars>>
       \/ /\ part = "configuration" /\ ConfigNext
          /\ UNCHANGED <<electVars, memberVars, vectorVars>>
       \/ /\ part = "membership" /\ MemberNext
          /\ UNCHANGED <<electVars, configVars, vectorVars>>
       \/ /\ part = "vectors" /\ VectorNext
          /\ UNCHANGED <<electVars, configVars, memberVars>>

\* The fairness of the parts, where they are exercised.
Spec ==
    /\ Init
    /\ [][Next]_coordinationVars
    /\ WF_electDataVars(part = "election" /\ Tick)
    /\ \A n \in Nodes :
          /\ WF_electDataVars(part = "election" /\ LoopProgress(n))
          /\ WF_electDataVars(StopProgress(n))
    /\ ConfigFairness
    /\ SF_memberDataVars(part = "membership" /\ TimePasses)
    /\ WF_memberDataVars(part = "membership" /\ CheckTimeouts)
    /\ PeerFairness

(***************************************************************************)
(* AnotherTakesOver, of nodes that do run an election.                     *)
(***************************************************************************)
LeadersAreReplaced == part = "election" => AnotherTakesOver

=============================================================================
