SPECIFICATION SceptreSpec
CONSTANTS
  Scenarios <- OnlyFarm
  Experiments <- FarmAlone
  Plants <- NoPlants
  Vlans = {"exp"}
  Broker <- MCBroker
  MaxStage = 1
  MaxMark = 0
CHECK_DEADLOCK FALSE
INVARIANT FederatesCounted
