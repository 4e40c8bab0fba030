\* Streams that are whole, followed by another, cut off, changed, or left by a failure.
SPECIFICATION Spec
CONSTANTS
  Objects <- AllObjects
  Configs <- AllConfigs
CHECK_DEADLOCK FALSE
INVARIANTS RoundTrip NoPartialLoad
