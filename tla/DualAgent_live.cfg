SPECIFICATION FairSpec
CONSTANTS
  r1 = r1
  r2 = r2
  Phases <- MCPhases
  AutoPhase = 5
  Titles = {"tracing", "telemetry"}
  MaxTasks = 2
  MaxBacklog = 2
  Runs <- MCOne
  Verdicts = {"APPROVED", "NEEDS_REVISION", "HUMAN_REVIEW_REQUIRED"}
  InitialPlans <- MCPlans
  MaxRounds = 3
  MaxActs = 2
  MaxCrashes = 1
PROPERTY RunEnds
CHECK_DEADLOCK FALSE
