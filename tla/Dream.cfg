CONSTANTS
  Dreamers = {"loop", "command"}
  Loop = "loop"
  MaxBatch = 2
  MaxEntries = 3
  MaxFaults = 2
SPECIFICATION FairSpec
INVARIANTS NoneSkipped NotesAreKept
PROPERTIES HistoryIsDreamt
CHECK_DEADLOCK FALSE
