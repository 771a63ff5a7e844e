SPECIFICATION FairSpec
CONSTANTS
  MaxChunks = 3
  Facts <- AllFacts
  Instructions <- Rules
  NextSteps <- Steps
INVARIANTS
  TypeOK
  CallsAreBounded
  ReservationsSettle
  
PROPERTIES
  WriterEnds
CHECK_DEADLOCK FALSE
