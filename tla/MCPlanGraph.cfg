SPECIFICATION Spec
CONSTANTS
  Name = {a, b, c}
  Plan <- MCPlan
  MaxTasks = 3
CHECK_DEADLOCK FALSE
INVARIANTS
  VerdictIsExact
