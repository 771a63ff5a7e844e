SPECIFICATION Spec
CONSTANTS
  Docs <- LatestDoc
  Histories <- RewindableDoc
  Works <- OneTask
  MaxCommits = 3
  MaxFaults = 2
  Groups <- Together
INVARIANTS
  NeverRefused
PROPERTIES
  ImplementsCommitLog
CHECK_DEADLOCK FALSE
