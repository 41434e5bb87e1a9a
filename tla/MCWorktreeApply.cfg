SPECIFICATION Spec
CONSTANTS
  Files = {f, g}
  Nested = {g}
  Contents = {x, y}
  Absent = Absent
  Trees = {1, 2}
  MaxEdits = 1
  MaxCommits = 1
  MaxWork = 2
  MaxFaults = 1
CHECK_DEADLOCK FALSE
INVARIANTS TypeOK UncommittedWorkKept RetryIsNoOp MergeIsThreeWay
