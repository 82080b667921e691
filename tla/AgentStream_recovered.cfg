SPECIFICATION Spec
CONSTANTS
  Streams = {s1}
  MaxSteps = 1
  MaxRetries = 1
  MaxBreaks = 2
  MaxCrashes = 1
CHECK_DEADLOCK FALSE
CONSTRAINT NothingExpires
INVARIANTS
  RecoveredIsResumed
