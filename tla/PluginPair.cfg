SPECIFICATION Spec
CONSTANTS
  good = good
  bad = bad
  own = own
  NoContent = NoContent
  Contents <- MCContents
  Trusted = good
  Manifests <- MCManifests
  Installs <- MCInstalls
  Tokens = {t1, t2}
  NoToken = NoToken
  NoManifest = NoManifest
  Edits = {"between", "during"}
  MaxFails = 1
  MaxCrashes = 1
SYMMETRY Symmetry
INVARIANTS TypeOK BytesKept PairRollbackable NothingPending
PROPERTIES PairRestored ResolvedSurvivesCycle
CHECK_DEADLOCK FALSE
