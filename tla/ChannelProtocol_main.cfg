\* Two channels, both ways, one sent over the other.
SPECIFICATION Spec
CONSTANTS
  MaxId = 2
  MaxItems = 2
  MaxWire = 3
  MaxCalls = 7
  Passing = TRUE
  Early = FALSE
CHECK_DEADLOCK FALSE
INVARIANTS
  TypeOK NothingLost SidesAgree EndTellsAll
PROPERTIES CloseMeansDeaf
