SPECIFICATION Spec
CONSTANTS
  Table <- MCTable
  MaxModels = 1
  MaxVerified = 2
  Estimates = {256}
  MaxPieces = 2
  Cap = 2
  MaxAttempts = 3
  MinGroundedChecks = 2
INVARIANT PipeIsNoFailure
CHECK_DEADLOCK FALSE
