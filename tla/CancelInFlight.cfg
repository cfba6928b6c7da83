SPECIFICATION Spec
CONSTANTS
  Nonces = {n1}
  Actors = {a1, a2}
  NoNonce = NoNonce
  CAPACITY = 1
  TTL = 1
  MaxNow = 1
  Busy = {}
  Crashes = FALSE
PROPERTY CancelOnlyFromRegistered
CHECK_DEADLOCK FALSE
