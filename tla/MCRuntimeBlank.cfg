CONSTANTS
  a = a
  b = b
  c = c
  plus = plus
  card = card
  Unknown = Unknown
  Task <- MCTask
  Position <- MCPosition
  Agentic = {b}
  Model <- MCModel
  Subscription = {plus}
  Plans <- MCPlans
  Rankings <- MCRankings
  PlanningModels <- MCPlanningModels
  SynthesisModels <- MCSynthesisModels
  PlanCalls = 2
  SynthesisCalls = 1
  FanOut = 1
  MaxRetries = 1
  MaxTurns = 1
  DefaultCap = 16
  Caps = {1, 3}
  Preflight = 1
  Assembles = FALSE
  VerifyAnswer = TRUE
SPECIFICATION Spec
INVARIANT BlankAnswerReroutes
