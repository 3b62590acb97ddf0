CONSTANTS
  a1 = a1
  Agents = {a1}
  Tiers = {"expert"}
  MaxRetries = 1
  MaxIterations = 1
  StepBound = 2
  StoreSuspends = FALSE
  IgnoresCancel = FALSE
  SpawnCanRaise = TRUE
SPECIFICATION HSpec
INVARIANTS LimitIsEarned OneWorkingRun NoOrphanRun SettledMeansOver
PROPERTIES ReplacedRunIsSilent GoneStaysGone ImplementsLife
CHECK_DEADLOCK FALSE
