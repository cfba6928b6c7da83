SPECIFICATION Spec
CONSTANTS
  Surfaces = {s1}
  Contents = {c1, c2}
  Recipes = {r1}
  Digests = {d1,d2}
  Procs = {p1}
  NoDigest = NoDigest
  MIN_AGE = 1
  MIN_STARTS = 1
  RETAIN = 2
  MAX_RECORDS = 1
  MaxIds = 3
  MaxStarts = 1
  MaxNow = 1
  MaxMeasures = 2
INVARIANT KnownGoodAvailable
CHECK_DEADLOCK FALSE
