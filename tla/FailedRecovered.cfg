CONSTANTS
  a1 = a1
  Agents = {a1}
  Tiers = {"expert"}
  MaxRetries = 1
  MaxIterations = 1
  StepBound = 2
  StoreSuspends = FALSE
  IgnoresCancel = FALSE
  SpawnCanRaise = FALSE
SPECIFICATION FairSpec
PROPERTY FailedIsRecovered
CHECK_DEADLOCK FALSE
