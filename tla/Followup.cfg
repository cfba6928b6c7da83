SPECIFICATION Spec
CONSTANTS
  i1 = i1
  i2 = i2
  i3 = i3
  b1 = b1
  b2 = b2
  Issues = {i1, i2, i3}
  Says <- MCSays
  Ids = {e1, e2, e3}
  NoIssue = NoIssue
  Nothing = Nothing
  MAX_SUBSCRIPTIONS = 2
  MAX_EVENTS_PER_ISSUE = 1
  CAPACITY = 2
  REFRESH_MIN = 1
  MaxNow = 1
SYMMETRY Symmetry
INVARIANTS WithinCaps ReplayChangesNothing
PROPERTIES FollowedOn FairShare
CHECK_DEADLOCK FALSE
