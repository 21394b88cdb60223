SPECIFICATION Spec
CONSTANTS
  Nodes = {n1, n2}
  Window = 2
  Step = 2
  EvalStart = 3
  EvalEnd = 6
  MaxDuration = 3
  MaxTime = 11
  MaxRetained = 3
INVARIANTS BusyTimeExact BacklogBounded ReportsAgree
CHECK_DEADLOCK FALSE
