SPECIFICATION FairSpec
CONSTANTS
  PlannerIds <- mcPlannerIds
  Final = 3
  ReplanIds <- mcReplanIds
  NoNode = NoNode
  Budgets = {2}
  TopUps = {1}
  Cost = 1
  Concurrency = 2
  ReplanCap = 1
  OptimizerEnabled = FALSE
  MaxGraphs = 1
  MaxTopUps = 0
  MaxGoals = 0
  MaxFailures = 1
  MaxCancels = 2
  MaxCrashes = 0
CHECK_DEADLOCK FALSE
INVARIANTS ActiveHasDriver
PROPERTIES TurnsSettle
ACTION_CONSTRAINT mcDiskIdle
