SPECIFICATION Spec
CONSTANTS
  f1 = f1
  f2 = f2
  Precedes <- MCPrecedes
  o1 = o1
  o2 = o2
  r1 = r1
  r2 = r2
  Files = {f1}
  Contents <- MCContents
  Fix <- MCFix
  Tokens = {t1, t2}
  Procs = {p1}
  NoToken = NoToken
  NoContent = NoContent
  Concurrent = FALSE
  Edits = {}
  MaxFails = 0
  MaxCrashes = 0
  MaxApplied = 2
SYMMETRY Symmetry
INVARIANTS TokenAppliesOnce
CHECK_DEADLOCK FALSE
