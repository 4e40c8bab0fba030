\* The endmarker comes when the peer closes the channel, and blocked users wake up.
SPECIFICATION FairSpec
CONSTANTS
  User = {u1, u2}
  Setter = {u1, u2}
  Getter = {u1, u2}
  Waiter = {u1, u2}
  Closer = {u1, u2}
  MaxItems = 1
  MaxCalls = 1
  MayRaise = TRUE
  EndMarker = EndMarker
CHECK_DEADLOCK FALSE
PROPERTIES EndmarkerAfterPeer WaitersWakeUp
