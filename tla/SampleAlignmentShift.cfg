SPECIFICATION Spec
CONSTANTS
  Powers = {1, 2}
  InitPower = 1
  KpiWindow = 2
  UpdatePeriod = 1
  EvalStart = 1
  EvalEnd = 7
  SimEnd = 8
  PastHorizon = 3
  FutureHorizon = 1
INVARIANTS HistoriesMatchColumns
CHECK_DEADLOCK FALSE
