\* A task fails, and the requests after it are refused for ever.
SPECIFICATION FairSpec
CONSTANTS
  MaxRequests <- TwoOrThree
  Receiver = Receiver
  None = None
CHECK_DEADLOCK FALSE
PROPERTIES NoFalseRefusal
