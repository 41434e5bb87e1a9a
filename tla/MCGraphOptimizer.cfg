SPECIFICATION Spec
CONSTANTS
  PlannerIds <- mcPlannerIds
  Final = 3
  ReplanIds <- mcSplitIds
  NoNode = NoNode
  Budgets <- mcUnlimited
  TopUps = {1}
  Cost = 0
  Concurrency = 2
  ReplanCap = 2
  OptimizerEnabled = TRUE
  MaxGraphs = 1
  MaxTopUps = 0
  MaxGoals = 0
  MaxFailures = 0
  MaxCancels = 0
  MaxCrashes = 0
CHECK_DEADLOCK FALSE
INVARIANTS DependencyOrder WedgeHasCause
VIEW mcNoDisk
