SPECIFICATION Spec
CONSTANTS
  Client = {c1, c2}
  VM = {v1, v2}
  Windows = {}
  AppFilter = {}
  MaxJob = 2
CHECK_DEADLOCK FALSE
INVARIANT ScopedByVM
