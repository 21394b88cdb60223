SPECIFICATION SchedSpec
CONSTANTS
  Vehicles = {1, 2, 3}
  Nodes = {n1, n2}
  NoVehicle = NoVehicle
  NoNode = NoNode
  RowTimes = {0, 2, 4, 6, 8}
  AppStart = 4
  SimTime = 6
  AllowGaps = FALSE
  MinRows = 2
INVARIANTS SchedTypeOK NoRuntimeAbort ActiveFollowsTracks EveryActiveVehicleHeard
PROPERTY EveryVehicleServed
CHECK_DEADLOCK FALSE
