\* exit() and terminate() of one thread; the sub and the forwarder end at any time.
SPECIFICATION FairSpec
CONSTANTS
  Cap = 1
  MaxSend = 2
  MaxReply = 2
  Concurrent = FALSE
CHECK_DEADLOCK FALSE
INVARIANTS RepliesComplete WaitMeansEnded
PROPERTIES CallsReturn
