SPECIFICATION Spec
CONSTANTS
  Faults <- AllFaults
  Env <- AllEnv
  MaxEntries = 3
  MaxAttempts = 2
  MaxEdits = 0
INVARIANTS
  TypeOK
  UnconfirmedStaysOnRecord
  WriterRunsOnRecord
  NoRequestOnUnconfirmed
PROPERTIES
  ClaimsOutliveFailures
  NoNativeCompactionOverClaim
  FirstCauseIsKept
