SPECIFICATION Spec
CONSTANTS
  PastHorizon = 2
  MinPower = 1
  MaxPower = 2
  InitPower = 2
  EvalStart = 1
  EvalEnd = 5
  SimEnd = 6
  Controllers = {"osqp", "matlab", "fixed", "hold"}
  MaxRuns = 2
  MaxCrashes = 1
INVARIANTS TypeOK PowerWithinBounds HistoryTruthful EveryInstantControlled AnswersOwnRequest
PROPERTIES RunEnds LoopCompletes
CHECK_DEADLOCK FALSE
