\* One thread terminates the group while another one uses it.
SPECIFICATION FairSpec
CONSTANTS
  Gateway = {g1, g2}
  Thread = {main, user}
  Terminator = {main}
  Names = {0}
  MaxCalls = 4
  None = None
CHECK_DEADLOCK FALSE
INVARIANTS TypeOK TerminateIsThorough
PROPERTIES ProxiedFirst TerminateEnds
