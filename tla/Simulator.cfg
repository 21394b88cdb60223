SPECIFICATION Spec
CONSTANTS
  Delays = {0, 1}
  MaxUid = 7
  MaxPosts = 2
  MaxDestroy = 1
  MaxRuns = 2
INVARIANTS TypeOK ExpiredExact EventsConserved
PROPERTIES AgendaSpec PostedTaken
CHECK_DEADLOCK FALSE
