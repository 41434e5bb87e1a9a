SPECIFICATION Spec
CONSTANTS
  PlannerIds <- mcPlannerIds
  Final = 3
  ReplanIds <- mcReplanIds
  NoNode = NoNode
  Budgets <- mcUnlimited
  TopUps = {1}
  Cost = 0
  Concurrency = 1
  ReplanCap = 2
  OptimizerEnabled = FALSE
  MaxGraphs = 1
  MaxTopUps = 0
  MaxGoals = 0
  MaxFailures = 2
  MaxCancels = 0
  MaxCrashes = 1
CHECK_DEADLOCK FALSE
INVARIANTS TypeOK FinalGate BaselineBeforeWork ActiveHasDriver EngineRunsCurrentNode
