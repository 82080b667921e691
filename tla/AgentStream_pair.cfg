SPECIFICATION Spec
CONSTANTS
  Streams = {s1, s2}
  MaxSteps = 1
  MaxRetries = 0
  MaxBreaks = 1
  MaxCrashes = 1
CHECK_DEADLOCK FALSE
SYMMETRY StreamSymmetry
INVARIANTS
  ActiveNotCompleted
