SPECIFICATION FairSpec
CONSTANTS
  PlannerIds <- mcPlannerIds
  Final = 3
  ReplanIds = {}
  NoNode = NoNode
  Concurrency = 2
  Rounds = 3
  MaxCommits = 1
CHECK_DEADLOCK FALSE
INVARIANTS TypeOK VerifierChecksWorkersTree MergeBaseIsFanout
PROPERTIES ImplementsBatchRun BatchSettles
