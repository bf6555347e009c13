CONSTANTS
  Bytes <- SomeBytes
  TIMER_PERIOD = 39
  Settings <- AtTheLimit
  QUIET = 4
SPECIFICATION Spec
INVARIANTS
  HeardBeforeFrameEnds
PROPERTIES
  EachByteHeardIntact
