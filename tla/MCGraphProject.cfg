SPECIFICATION Spec
CONSTANTS
  Sessions = {a, b}
  NoSession = NoSession
  Nodes = 1
  MaxGraphs = 2
  MaxFaults = 1
  MaxEdits = 1
SYMMETRY mcSymmetry
CHECK_DEADLOCK FALSE
INVARIANTS TypeOK OneDriver WriterIsProjected
PROPERTIES UnfinishedKept
