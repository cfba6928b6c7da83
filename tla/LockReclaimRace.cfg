SPECIFICATION Spec
CONSTANTS
  Procs = {p1, p2, p3}
  NoProc = NoProc
  STALE = 2
  WAIT = 1
  MaxLag = 0
  MaxNow = 4
  MaxCrashes = 1
  Timely = TRUE
PROPERTY LiveLocksNeverReclaimed
CHECK_DEADLOCK FALSE
