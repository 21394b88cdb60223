SPECIFICATION SchedSpec
CONSTANTS
  Vehicles = {1, 2, 3}
  Nodes = {n1, n2}
  NoVehicle = NoVehicle
  NoNode = NoNode
  RowTimes = {0, 2, 4, 6, 8}
  AppStart = 4
  SimTime = 6
  AllowGaps = TRUE
  MinRows = 2
INVARIANT NoRuntimeAbort
CHECK_DEADLOCK FALSE
