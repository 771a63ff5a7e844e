SPECIFICATION Spec
CONSTANTS
  Faults <- TornLine
  KeepRecent = 1
  NotesEnabled = FALSE
  CallsPerAttempt = 1
  WriterCalls = 1
  MaxEntries = 4
  MaxRuns = 2
  MaxCompactions = 1
  MaxEvents = 2
INVARIANTS
  InterruptedStaysVisible
CHECK_DEADLOCK FALSE
