SPECIFICATION FairSpec
CONSTANTS
  Kinds = {"claude", "codex", "host", "docker", "fetch"}
  PipeRoom = 1
  MaxLines = 3
  Limit = 2
  MaxCalls = 2
INVARIANTS
  NoOrphans
  OutcomesAreTrue
  QuietWorkspace
PROPERTIES
  CallsEnd
