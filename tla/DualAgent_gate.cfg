SPECIFICATION Spec
CONSTANTS
  r1 = r1
  r2 = r2
  Phases <- MCPhases
  AutoPhase = 5
  Titles = {"tracing"}
  MaxTasks = 1
  MaxBacklog = 1
  Runs <- MCOne
  Verdicts = {"APPROVED"}
  InitialPlans <- MCPlans
  MaxRounds = 1
  MaxActs = 0
  MaxCrashes = 0
PROPERTY HeldBackBeforeApproval
CHECK_DEADLOCK FALSE
