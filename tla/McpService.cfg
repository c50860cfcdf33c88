SPECIFICATION FairSpec
CONSTANTS
  Calls <- MCCalls
  Others <- MCOthers
  Records <- MCRecords
  Objectives = {"quality", "cheap"}
  Cap = 2
  MaxAttempts = 3
  MaxUse = 1
  MaxResets = 1
  None = None
  RecordBytes = 2
  Chunk = 3
  MaxLine = 4
  Limit = 2
INVARIANTS
  NewestFirst
  ProbesShared
  BillsAddUp
PROPERTIES
  CallsEnd
CHECK_DEADLOCK FALSE
