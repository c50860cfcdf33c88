SPECIFICATION Spec
CONSTANTS
  Table <- MCTable
  MaxModels = 3
  MaxVerified = 2
  Estimates = {256, 3008}
  MaxPieces = 1
  Cap = 2
  MaxAttempts = 3
  MinGroundedChecks = 2
INVARIANTS
  RankingIsFair
  WalkIsComplete
  AnswerIsTrue
CHECK_DEADLOCK FALSE
