SPECIFICATION FairPhaseSpec
CONSTANTS
  Model = {"plus", "card", "spare"}
  Candidates <- MCCandidates
  Subscription = {"plus"}
  Cap = 3
  Deadline = 6
  Grace = 3
  MaxPlanAttempts = 3
INVARIANTS
  PhaseIsFair
PROPERTIES
  KeepsPhaseContract
