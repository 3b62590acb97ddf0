CONSTANTS
  a1 = a1
  Agents = {a1}
  Tiers = {"expert"}
  MaxRetries = 1
  MaxIterations = 0
  StepBound = 1
  StoreSuspends = FALSE
  IgnoresCancel = FALSE
  SpawnCanRaise = FALSE
SPECIFICATION FairSpec
PROPERTIES EveryAgentSettles TickEnds ShutdownCompletes
CHECK_DEADLOCK FALSE
