SPECIFICATION Spec
CONSTANTS
  Files = {f}
  Nested = {}
  Contents = {x, y}
  Absent = Absent
  Trees = {1}
  MaxEdits = 1
  MaxCommits = 0
  MaxWork = 2
  MaxFaults = 0
CHECK_DEADLOCK FALSE
INVARIANT ChangesLand
