SPECIFICATION Spec
CONSTANTS
  Vehicles = {v1, v2}
  NoVehicle = NoVehicle
  RowTimes = {0, 2, 4}
  Speeds = {0, 4}
  MaxRows = 3
  MaxTime = 5
  AppStart = 1
  TicksPerSecond = 20
INVARIANTS AccelerationIsRate
CHECK_DEADLOCK FALSE
