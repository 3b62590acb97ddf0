----------------------------- MODULE AgentLife -----------------------------
(***************************************************************************)
(* What the sub-agent runtime promises of one agent id, whatever tasks,    *)
(* heartbeats and recoveries it takes: an agent is spawned once, works,    *)
(* may be recovered at most Limit times, and once removed from the         *)
(* registry is never seen again.  Teams of agents are built on this.       *)
(***************************************************************************)
EXTENDS Naturals

CONSTANTS Agents, Limit

ASSUME LimitAssumption == Limit \in Nat

VARIABLES phase,   \* what the registry shows of each agent
          tries    \* recoveries of each agent so far

lifeVars == <<phase, tries>>

Phases == {"absent", "live", "finished", "failed", "gone"}

LifeTypeOK == phase \in [Agents -> Phases] /\ tries \in [Agents -> 0..Limit]

LifeInit == phase = [a \in Agents |-> "absent"] /\ tries = [a \in Agents |-> 0]

Become(a, p) == phase' = [phase EXCEPT ![a] = p]

Appear(a) == phase[a] = "absent" /\ Become(a, "live") /\ UNCHANGED tries

Finish(a) == phase[a] = "live" /\ Become(a, "finished") /\ UNCHANGED tries

\* An error of the graph.  Recovery does not look at failed agents by itself.
Fail(a) == phase[a] = "live" /\ Become(a, "failed") /\ UNCHANGED tries

\* The decision to recover is taken on a live agent and carried out later: by
\* then the agent may have finished or failed, and is put back to work.
Recover(a) ==
  /\ phase[a] \in {"live", "finished", "failed"} /\ tries[a] < Limit
  /\ Become(a, "live")
  /\ tries' = [tries EXCEPT ![a] = @ + 1]

\* Recall, abort, rollback, shutdown.
Remove(a) == phase[a] \in {"live", "finished", "failed"} /\ Become(a, "gone") /\ UNCHANGED tries

LifeNext ==
  \E a \in Agents : Appear(a) \/ Finish(a) \/ Fail(a) \/ Recover(a) \/ Remove(a)

LifeSpec == LifeInit /\ [][LifeNext]_lifeVars
=============================================================================
