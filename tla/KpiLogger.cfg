SPECIFICATION KpiSpec
CONSTANTS
  Vehicles = {v1, v2, v3}
  Nodes = {n1, n2, n3}
  NoVehicle = NoVehicle
  NoNode = NoNode
  KpiWindow = 2
  SampleTime = 1
  EvalStart = 1
  EvalEnd = 4
  MaxTime = 4
  MaxCams = 2
CONSTRAINT Bounded
SYMMETRY Symmetry
INVARIANTS TxKeysUnique FilterExact CountedOnce CreditedToListener PirExact
PROPERTY SampleExact
CHECK_DEADLOCK FALSE
