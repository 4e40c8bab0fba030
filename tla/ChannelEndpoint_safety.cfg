\* Two users call whatever they like.
SPECIFICATION Spec
CONSTANTS
  User = {u1, u2}
  Setter = {u1, u2}
  Getter = {u1, u2}
  Waiter = {u1, u2}
  Closer = {u1, u2}
  MaxItems = 2
  MaxCalls = 2
  MayRaise = TRUE
  EndMarker = EndMarker
SYMMETRY Symmetry
CHECK_DEADLOCK FALSE
INVARIANTS
  TypeOK EndmarkerOnce ItemsInOrder
  WaitCloseAfterEndmarker FailureIsReported AllClosedWhenDone PeerIsTold
