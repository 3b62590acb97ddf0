CONSTANTS
  Keys = {"a", "b"}
  Requests = {r}
  MaxSeen = 2
  Lag = 1
  MaxUpdates = 3
SPECIFICATION Spec
INVARIANTS UpdatesOnce NothingForgotten
PROPERTIES ResetStartsFresh
CHECK_DEADLOCK FALSE
