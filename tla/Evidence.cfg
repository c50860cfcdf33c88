SPECIFICATION Spec
CONSTANTS
  c1 = c1
  c2 = c2
  r = r
  w = w
  a = a
  p1 = p1
  p2 = p2
  NoGoal = NoGoal
  Null = Null
  Goals <- MCGoals
  Repo <- MCRepo
  TypeOf <- MCTypeOf
  Blank <- MCBlank
  Unsafe <- MCUnsafe
  Named <- MCNamed
  Wires <- MCWires
  KnownWires <- MCKnownWires
  Scores = {0, 100}
  MaxRuns = 5
  Suites <- MCSuites
  Settings <- MCSettings
  MaxModels = 2
  Overrides <- MCOverrides
  ProfileFiles <- MCProfileFiles
  Asked <- MCAsked
INVARIANTS
  EveryModelServed
  PhasesStayDeterministic
  ToolsAreReal
  EvidenceIsTrue
  NoScorerSurvives
  VerdictIsEarned
CHECK_DEADLOCK FALSE
