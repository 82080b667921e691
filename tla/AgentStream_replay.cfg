SPECIFICATION FairSpec
CONSTANTS
  Streams = {s1}
  MaxSteps = 2
  MaxRetries = 2
  MaxBreaks = 4
  MaxCrashes = 1
CHECK_DEADLOCK FALSE
INVARIANTS
  TypeOK
  ShownUpToCursor
  NothingMissing
PROPERTIES
  ImplementsReplayLog DoneIsDelivered
