SPECIFICATION FairSpec
CONSTANTS
  Client = {c1}
  VM = {v1, v2}
  Windows = {v2}
  AppFilter = {{v1}}
  MaxJob = 3
CHECK_DEADLOCK FALSE
INVARIANTS
  RunsWhereAsked
  ScriptFirst
  OwnResult
  FailStopsStage
  Unmounted
PROPERTY StageEnds
