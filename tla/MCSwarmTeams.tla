---------------------------- MODULE MCSwarmTeams ----------------------------
(* Small instances of SwarmTeams for TLC. *)
EXTENDS SwarmTeams, TLC

CONSTANTS a1, a2, a3, a4, t1, t2

\* A phased team (two agents plan, one executes, the last phase has nobody and
\* waits for an artifact) and a legacy one, whose agent declares no phase.
TwoTeams == a1 :> t1 @@ a2 :> t1 @@ a3 :> t1 @@ a4 :> t2
Seats == a1 :> 1 @@ a2 :> 1 @@ a3 :> 2 @@ a4 :> 0
LastOnArtifact == [t \in Teams |-> <<"default", "default", IF t = t1 THEN "artifact" ELSE "default">>]
=============================================================================
