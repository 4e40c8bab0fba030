\* All ways to start a gateway, with a pipe that the source fits into or not.
SPECIFICATION FairSpec
CONSTANTS
  MaxCap = 2
  MaxSent = 5
CHECK_DEADLOCK FALSE
INVARIANTS NothingSwallowed
PROPERTIES BootstrapEnds
