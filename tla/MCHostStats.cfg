SPECIFICATION FairSpec
CONSTANTS
  PerFlush = 3
  MaxSample = 8
CHECK_DEADLOCK FALSE
INVARIANTS
  ExactlyOnce
  NoneLost
PROPERTIES
  ImplementsSampleLog
  Stops
