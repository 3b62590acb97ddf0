CONSTANTS
  once = once
  interval = interval
  cron = cron
  Tasks = {once, interval, cron}
  Type <- Types
  Value <- Values
  Addressed = {once, interval}
  Horizon = 3
SPECIFICATION FairSpec
INVARIANTS OnceAtMostOnce RunsAreSpaced FileRemembers
PROPERTIES CancelledStayQuiet NextRunIsKept DueTasksStart 
CHECK_DEADLOCK FALSE
