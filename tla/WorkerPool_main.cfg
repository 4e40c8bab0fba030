\* All kinds of pools; two callers that spawn, wait with timeouts and shut down.
SPECIFICATION FairSpec
CONSTANTS
  None = None
  Task = {t1, t2, t3}
  Caller = {c1, c2}
  Kinds = {"plain", "thread", "main_thread_only"}
  Timeouts = TRUE
  MaxWaits = 1
CHECK_DEADLOCK FALSE
INVARIANTS TypeOK NoLostHandOver
PROPERTIES ImplementsTaskPool AcceptedExecutes WaitallReturnsWhileOpen
