SPECIFICATION Spec
CONSTANTS
  Procs = {a, b}
  NoProc = none
  Tasks = {r1, r2}
  Inodes = {i1, i2, i3, i4, i5}
  NoInode = none_i
  Callers = {"auth", "tick"}
  MaxGrants = 2
  MaxEvents = 1
  Events = {"lost", "refused", "unsaved", "crash", "drop", "login", "logout", "sleep"}
SYMMETRY mcSymmetry
CHECK_DEADLOCK FALSE
INVARIANTS TypeOK OneSpenderUnlessBroken TombstoneHasCause StoredTokenIsLive NoRefreshAcrossSleep
