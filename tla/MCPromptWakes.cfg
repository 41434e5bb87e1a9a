SPECIFICATION Spec
CONSTANTS
  None = None
  MaxItems = 3
  MaxEdits = 1
  MaxNotes = 1
INVARIANTS
  NoSilentCompletion
CHECK_DEADLOCK FALSE
