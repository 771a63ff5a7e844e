SPECIFICATION Spec
CONSTANTS
  Targets = {"file"}
  ResultSizes = {2, 5}
  LineSize = 1
  Ratio = 1
  Lifetimes = {0, 1}
  CallSize = 1
  MaxRecords = 7
  MaxCalls = 3
  MaxNotes = 2
  MaxCheckpoints = 1
INVARIANTS
  FactsCorrectedNotLost
PROPERTIES
  ReductionOnlyGrows
  SoleEvidenceStays
CHECK_DEADLOCK FALSE
