SPECIFICATION Spec
CONSTANTS
  Faults <- NoFaults
  KeepRecent = 1
  NotesEnabled = TRUE
  CallsPerAttempt = 1
  WriterCalls = 1
  MaxEntries = 8
  MaxRuns = 1
  MaxCompactions = 2
  MaxEvents = 1
INVARIANTS
  TypeOK
  OriginalsSurvive
  NotesRestOnTheirBranch
CHECK_DEADLOCK FALSE
