SPECIFICATION Spec
CONSTANTS
  r1 = r1
  r2 = r2
  Phases <- MCPhases
  AutoPhase = 5
  Titles = {"tracing"}
  MaxTasks = 2
  MaxBacklog = 1
  Runs <- MCTwo
  Verdicts = {"APPROVED", "NEEDS_REVISION", "HUMAN_REVIEW_REQUIRED"}
  InitialPlans <- MCPlans
  MaxRounds = 2
  MaxActs = 1
  MaxCrashes = 1
SYMMETRY Sym
INVARIANTS TypeOK ActiveIsCurrent StrandedIsAdHoc CompletedOnce PausedIsQueued
           AdvanceIsLoop
PROPERTY ImplementsTaskBoard
CHECK_DEADLOCK FALSE
