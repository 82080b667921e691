SPECIFICATION Spec
CONSTANTS
  Jobs = {j1, j2}
  Sessions = {s1}
  Unreviewed = {}
  NoSession = NoSession
  Steps = 3
  MaxItems = 2
  MaxFaults = 1
  MaxCrashes = 1
SYMMETRY JobSymmetry
INVARIANTS
  TypeOK
  NoWorkBehindTerminal
  CancelStopsTools
  CancelDecidesOutcome
  PendingWasCanceled
