--------------------------- MODULE RuntimeHistory ---------------------------
(***************************************************************************)
(* SubAgentRuntime with a history variable: how many cycles each agent has *)
(* really made, over all its runs.  The health monitor has only            *)
(* AgentInfo.iteration for this, which it overwrites with whatever the     *)
(* last beat in the store says, of the run before a respawn perhaps.       *)
(***************************************************************************)
EXTENDS SubAgentRuntime

VARIABLE cycles   \* chunks of the stream that the runs of each agent have consumed

hvars == <<vars, cycles>>

HInit == Init /\ cycles = [a \in Agents |-> 0]

Stepped(a, k) == run[a][k] = "streaming" /\ run'[a][k] = "stepping"

Counted == [a \in Agents |-> IF \E k \in Attempts : Stepped(a, k) THEN cycles[a] + 1 ELSE cycles[a]]

HNext == Next /\ cycles' = Counted

HSpec == HInit /\ [][HNext]_hvars

\* check_all has given a reason, and handle_failure is about to act on it.
Condemned(a, reason) == a \in agents /\ handler[a] = "queued" /\ verdict[a] = reason

\* The iteration limit condemns an agent only for cycles it has made, in its
\* first run or after any number of respawns, whichever run the beat that the
\* monitor copied was from: none is counted that was not made, but for the beat
\* written before the first one (health.py: check_agent; registry.py:
\* sync_from_store; spawner.py: the iteration that a respawned run goes on from).
LimitIsEarned ==
  \A a \in Agents : Condemned(a, "iteration_limit") => cycles[a] >= MaxIterations

(* The inductive invariant behind it: the AgentInfo and the store are at most *)
(* one beat ahead of the cycles.                                              *)
IsTold(a) ==
  /\ info[a].iteration <= cycles[a] + 1 /\ heartbeat[a].iteration <= cycles[a] + 1
  /\ handler[a] = "queued" /\ verdict[a] = "iteration_limit" => cycles[a] >= MaxIterations

HInv == cycles \in [Agents -> Nat] /\ \A a \in Agents : IsTold(a)
=============================================================================
