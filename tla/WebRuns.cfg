SPECIFICATION WebFairSpec
CONSTANTS
  Id = {r1, r2, r3}
  Max = 2
CHECK_DEADLOCK FALSE
INVARIANTS
  LimitIsExact
  RunHoldsSlot
PROPERTY SlotsComeBack
