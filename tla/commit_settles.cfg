SPECIFICATION FairSpec
CONSTANTS
  Faults <- SessionFaults
  Env <- Others
  MaxEntries = 4
  MaxAttempts = 2
  MaxEdits = 1
PROPERTIES
  ConfirmedMeansReadBack
  CompactionSettles
