CONSTANTS
  a1 = a1
  a2 = a2
  a3 = a3
  a4 = a4
  t1 = t1
  t2 = t2
  Agents = {a1, a2, a3, a4}
  Limit = 1
  Teams = {t1, t2}
  PhaseCount = 3
  TeamOf <- TwoTeams
  SeatPhase <- Seats
  ExplicitGates <- LastOnArtifact
  SpawnRaises = TRUE
  Recalls = TRUE
  SpawnSuspends = TRUE
SPECIFICATION FairSpec
INVARIANTS LaunchAllOrNothing PhasesInStep CompleteOnce
PROPERTIES AdvanceWaits TeamsSettle
CHECK_DEADLOCK FALSE
