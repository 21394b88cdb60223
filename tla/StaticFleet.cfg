SPECIFICATION FleetSpec
CONSTANTS
  Vehicles = {v1, v2}
  NoVehicle = NoVehicle
  RowTimes = {0, 2, 4}
  Speeds = {0, 4}
  MaxRows = 3
  MaxTime = 6
  AppStart = 1
  TicksPerSecond = 20
  Parking = 8
  SimTimes = {3, 6}
INVARIANTS
  FleetTypeOK CursorInvisible PlacedOnTrack CamVelocityOfTrack AscendingTracksRun
CHECK_DEADLOCK FALSE
