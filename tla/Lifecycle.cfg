SPECIFICATION Spec
CONSTANTS
  Surfaces = {s1}
  Contents = {c1, c2}
  Recipes = {r1}
  Digests = {d1}
  Procs = {p1, p2}
  NoDigest = NoDigest
  MIN_AGE = 1
  MIN_STARTS = 1
  RETAIN = 1
  MAX_RECORDS = 1
  MaxIds = 2
  MaxStarts = 1
  MaxNow = 2
  MaxMeasures = 1
SYMMETRY Symmetry
CONSTRAINT MeasuredMakesOne
INVARIANTS PrunedOnlyWhenDue RecommendNeedsMeasurement RetainsLastN ReportedIsKept
CHECK_DEADLOCK FALSE
