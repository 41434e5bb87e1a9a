SPECIFICATION Spec
CONSTANTS
  PlannerIds <- mcPlannerIds
  Final = 3
  ReplanIds <- mcReplanIds
  NoNode = NoNode
  Budgets = {3}
  TopUps = {1}
  Cost = 1
  Concurrency = 2
  ReplanCap = 1
  OptimizerEnabled = FALSE
  MaxGraphs = 1
  MaxTopUps = 1
  MaxGoals = 1
  MaxFailures = 1
  MaxCancels = 2
  MaxCrashes = 0
CHECK_DEADLOCK FALSE
INVARIANTS NoDoubleCharge DependencyOrder DeadBranchStaysDead
PROPERTIES TerminalIsForever
VIEW mcNoDisk
