CONSTANTS
  a1 = a1
  Agents = {a1}
  Tiers = {"standard", "expert"}
  MaxRetries = 1
  MaxIterations = 0
  StepBound = 1
  StoreSuspends = TRUE
  IgnoresCancel = TRUE
  SpawnCanRaise = TRUE
SPECIFICATION Spec
CONSTRAINT OneRespawn
INVARIANTS NoZombie
CHECK_DEADLOCK FALSE
