SPECIFICATION FairSpec
CONSTANTS
  Procs = {a, b}
  NoProc = none
  Tasks = {r1, r2}
  Inodes = {i1, i2, i3}
  NoInode = none_i
  Callers = {"recover"}
  MaxGrants = 1
  MaxEvents = 0
  Events = {}
CHECK_DEADLOCK FALSE
PROPERTIES Answered
