SPECIFICATION Spec
CONSTANTS
  PastHorizon = 2
  MinPower = 1
  MaxPower = 2
  InitPower = 2
  EvalStart = 1
  EvalEnd = 5
  SimEnd = 6
  Controllers = {"osqp", "fixed"}
  MaxRuns = 2
  MaxCrashes = 0
INVARIANTS AnswersThisRun
CHECK_DEADLOCK FALSE
