\* A directory is sent to two targets, or to one of them twice.
SPECIFICATION FairSpec
CONSTANTS
  Targets = 2
  Path <- SmallPath
  Kinds <- SmallKinds
  Data = {1, 2}
  Callback = FALSE
  Link <- SmallLink
  Cwd <- Outside
  MaxChange = 1
  MaxSend = 2
  MaxTrouble = 2
  MaxWork = 4
  MaxDeath = 1
CHECK_DEADLOCK FALSE
INVARIANTS TypeOK NoMixUp
PROPERTIES FinishedMeansSynced SendEnds
