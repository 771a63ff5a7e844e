SPECIFICATION FairSpec
CONSTANTS
  Faults <- Fragments
  KeepRecent = 1
  NotesEnabled = FALSE
  CallsPerAttempt = 1
  WriterCalls = 1
  MaxEntries = 4
  MaxRuns = 2
  MaxCompactions = 1
  MaxEvents = 2
INVARIANTS
  OnePaidAttemptPerInterval
  CountedOrGap
PROPERTIES
  PreparationEnds
CHECK_DEADLOCK FALSE
