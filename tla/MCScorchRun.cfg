SPECIFICATION Spec
CONSTANTS
  VM <- MCVM
  Windows <- MCWindows
  Scenario <- MCScenario
  Kind <- MCKind
  Program <- MCProgram
  Duration <- MCDuration
  MaxRun = 2
  MaxFault = 1
INVARIANTS
  NothingLeft
  OthersSurvive
  Fresh
  Complete
  Schedule
  AttackInsideRun
  RecordComplete
CHECK_DEADLOCK FALSE
