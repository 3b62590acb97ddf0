CONSTANTS
  Users = {"u"}
  Projects = {"p", "q"}
  Here = "q"
  AllowedCwd = {"p", "q", "none", "nowhere"}
  Models = {}
  Dated = {1, 2}
  OldSessions = 2
  MaxSessions = 3
  MaxFailures = 0
  PageSize = 2
  MaxShown = 4
  Calls = {"a", "b"}
  MaxStored = 1
  MaxBlocks = 4
SPECIFICATION Spec
CONSTRAINT OneAtATime
INVARIANTS DetailsAreOwn AnswersAreTrue
PROPERTIES ButtonsActAsShown
CHECK_DEADLOCK FALSE
