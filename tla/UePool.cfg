SPECIFICATION Spec
CONSTANTS
  Vehicles = {v1, v2, v3}
  Nodes = {n1, n2}
  NoVehicle = NoVehicle
  NoNode = NoNode
INVARIANTS TypeOK MappingsInverse FreeListExact LayersAgree OnAirExactly
PROPERTY AirSpec
CHECK_DEADLOCK FALSE
