SPECIFICATION FairSpec
CONSTANTS
  Procs = {p1, p2}
  NoProc = NoProc
  STALE = 2
  WAIT = 1
  MaxLag = 1
  MaxNow = 5
  MaxCrashes = 1
  Timely = TRUE
INVARIANTS MutualExclusion HolderKeepsLock
PROPERTIES NeverWedged CallsEnd
CHECK_DEADLOCK FALSE
