SPECIFICATION FairSpec
CONSTANTS
  Calls <- EditRead
  SafeCalls <- Read
  Hosts = {"abort", "sequential", "unavailable"}
  MaxSubmissions = 1
  MaxTurns = 1
  MaxAttempts = 2
  MaxCompactions = 1
  MaxRaw = 1
  MaxFaults = 1
INVARIANTS
  RunHasItsGeneration
  CallsAnswered
  PairsStayTogether
  UnsafeRunsOnce
PROPERTIES
  InputsSettle
CHECK_DEADLOCK FALSE
