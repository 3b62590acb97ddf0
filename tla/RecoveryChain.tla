--------------------------- MODULE RecoveryChain ---------------------------
(***************************************************************************)
(* The pure decision logic of src/subagent/recovery.py: which recovery a   *)
(* failed sub-agent gets, from its retry count and its LLM tier.           *)
(***************************************************************************)
EXTENDS Naturals, Sequences

CONSTANT MaxRetries   \* RecoveryChain(max_retries=...): failures allowed per stage

ASSUME MaxRetriesAssumption == MaxRetries \in Nat

TierOrder == <<"lite", "standard", "advanced", "expert">>

KnownTiers == {TierOrder[i] : i \in 1..4}

NoTier == "none"

\* next_tier: the tier after the given one in the order, or none at the top and
\* for a name that is not in the order (spawn_agent does not validate tiers).
NextTier(tier) ==
  IF \E i \in 1..3 : TierOrder[i] = tier
    THEN TierOrder[(CHOOSE i \in 1..3 : TierOrder[i] = tier) + 1]
    ELSE NoTier

\* RecoveryChain.decide_action, with its early returns.
DecideAction(retries, tier) ==
  IF retries < MaxRetries THEN "retry"
  ELSE IF NextTier(tier) # NoTier /\ retries < MaxRetries * 2 THEN "escalate"
  ELSE IF retries < MaxRetries * 3 THEN "reassign"
  ELSE "abort"

\* The tier the agent is respawned at (handle_failure raises it on escalation).
TierAfter(retries, tier) ==
  IF DecideAction(retries, tier) = "escalate" THEN NextTier(tier) ELSE tier
=============================================================================
