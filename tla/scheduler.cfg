SPECIFICATION Spec
CONSTANTS
  root = root
  sub = sub
  Root = root
  Convs <- TwoConvs
  Homes <- Pairs
  Definitions = {0, 1, 2}
  N = 2
  Inputs = {"abort", "abortConversation", "allSettled", "failFast"}
  Faults = {"crash", "close", "reject"}
  MaxFaults = 1
INVARIANTS
  OrphanNeverHolds
  NothingForgotten
PROPERTIES
  FinishedMeansDrained
  AbortsRunBottomUp
CHECK_DEADLOCK FALSE
