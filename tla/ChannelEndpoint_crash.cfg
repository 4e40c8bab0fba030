\* A callback that raises for an item of a deleted channel.
SPECIFICATION Spec
CONSTANTS
  User = {u1}
  Setter = {u1}
  Getter = {}
  Waiter = {}
  Closer = {}
  MaxItems = 1
  MaxCalls = 1
  MayRaise = TRUE
  EndMarker = EndMarker
CHECK_DEADLOCK FALSE
INVARIANTS ReceiverSurvives
