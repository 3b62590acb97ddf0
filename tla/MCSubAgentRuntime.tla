------------------------- MODULE MCSubAgentRuntime -------------------------
(* Small instances of SubAgentRuntime for TLC. *)
EXTENDS SubAgentRuntime, TLC

\* Bound of RuntimeAdverse: the third and fourth run of an agent
\* meet nothing that the second does not.
OneRespawn == \A a \in Agents : info[a].retry <= 1
=============================================================================
