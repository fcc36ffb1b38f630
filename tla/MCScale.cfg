SPECIFICATION FairSceptreSpec
CONSTANTS
  Scenarios <- AllScenarios
  Experiments <- AllExperiments
  Plants <- Settings
  Vlans = {"exp"}
  Broker <- MCBroker
  MaxStage = 3
  MaxMark = 1
CHECK_DEADLOCK FALSE
INVARIANTS
  EveryContainer
  OwnAddresses
  OwnConfig
  BrokersCounted
  ServersUsable
  PointsReached
  FilesReady
PROPERTIES
  Repeatable
  Launched
