\* A worker that gets requests and loses its connection at any time.
SPECIFICATION FairSpec
CONSTANTS
  MaxRequests <- TwoOrThree
  Receiver = Receiver
  None = None
CHECK_DEADLOCK FALSE
INVARIANTS TypeOK NeverOvertaken NormalExitMeansIdle
PROPERTIES NoFalseRefusalUnlessFailed ProcessEnds RequestsAnswered
