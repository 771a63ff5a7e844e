SPECIFICATION Spec
CONSTANTS
  Calls <- OneEdit
  SafeCalls <- Nothing
  Hosts = {"steer", "reset", "withdraw", "abort", "compact", "background"}
  MaxSubmissions = 3
  MaxTurns = 1
  MaxAttempts = 1
  MaxCompactions = 1
  MaxRaw = 0
  MaxFaults = 0
INVARIANTS
  SubmissionsAccounted
PROPERTIES
  HeadsOnlyAdvance
CHECK_DEADLOCK FALSE
