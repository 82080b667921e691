SPECIFICATION Spec
CONSTANTS
  Jobs = {j1, j2, j3, j4}
  Sessions = {s1}
  Unreviewed = {s1}
  NoSession = NoSession
  Steps = 1
  MaxItems = 1
  MaxFaults = 0
  MaxCrashes = 1
SYMMETRY JobSymmetry
CONSTRAINT FewRuns
INVARIANTS
  MemoryMirrorsTable
