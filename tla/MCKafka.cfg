SPECIFICATION FairSpec
CONSTANTS
  t1 = t1
  t2 = t2
  f1 = f1
  k1 = k1
  k2 = k2
  Topic = {t1, t2}
  Filter = {f1}
  Column = {k1, k2}
  Config <- MCConfig
  Message <- MCMessage
  MaxListener = 2
  MaxMessage = 2
  MaxStage = 3
CHECK_DEADLOCK FALSE
INVARIANTS
  Tracked
  KillsOwn
  RowsUnderHeader
  NoDuplicates
PROPERTIES
  ImplementsService
  Subscribes
