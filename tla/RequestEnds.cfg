CONSTANTS
  Keys = {"a", "b"}
  Requests = {r}
  MaxSeen = 2
  Lag = 1
  MaxUpdates = 1
SPECIFICATION FairSpec
PROPERTIES RequestEnds
CHECK_DEADLOCK FALSE
