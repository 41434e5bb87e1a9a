SPECIFICATION Spec
CONSTANTS
  None = None
  MaxItems = 3
  MaxEdits = 1
  MaxNotes = 1
INVARIANTS
  TypeOK
  RunningIsFront
  PromptKept
  PinIsRunning
  EditRuns
  QueueIsDriven
  InterjectionsLand
PROPERTIES
  RunsOnce
CHECK_DEADLOCK FALSE
VIEW mcPresent
