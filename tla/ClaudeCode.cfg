CONSTANTS
  Users = {"u"}
  Projects = {"p", "q"}
  Here = "q"
  AllowedCwd = {"none", "nowhere", "q"}
  Models = {"opus"}
  Dated = {}
  OldSessions = 1
  MaxSessions = 2
  MaxFailures = 1
  MaxRequests = 2
SPECIFICATION FairSpec
INVARIANTS StoreAgrees SessionOfProject
PROPERTIES RequestsAnswered
CHECK_DEADLOCK FALSE
