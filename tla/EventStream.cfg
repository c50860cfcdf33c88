SPECIFICATION FairSpec
CONSTANTS
  Task = {t1, t2}
  Cap = 2
  MaxDeltas = 5
  LosesCancel = TRUE
CHECK_DEADLOCK FALSE
INVARIANTS
  EndingIsTrue
  BoundariesTrue
PROPERTIES
  LeavingEnds
  KeepsStreamContract
