SPECIFICATION Spec
CONSTANTS
  Nonces = {n1, n2}
  Actors = {a1, a2}
  NoNonce = NoNonce
  CAPACITY = 1
  TTL = 1
  MaxNow = 2
  Busy = {"parse", "cancel", "cancelAgain", "claim", "settle"}
  Crashes = TRUE
SYMMETRY Symmetry
INVARIANTS AtMostOneExecute ClaimIsFinal OneOutcome
PROPERTIES InFlightKept CancelBlocksClaim ImplementsOneShot
CHECK_DEADLOCK FALSE
