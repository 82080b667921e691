SPECIFICATION FairSpec
CONSTANTS
  Jobs = {j1, j2}
  Sessions = {s1}
  Unreviewed = {s1}
  NoSession = NoSession
  Steps = 2
  MaxItems = 0
  MaxFaults = 1
  MaxCrashes = 0
PROPERTIES
  StartedIsReported
