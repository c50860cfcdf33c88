SPECIFICATION LoopSpec
CONSTANTS
  Known = {"run", "fetch"}
  Batches <- MCBatches
  Results <- MCResults
  Refusal <- MCRefusal
  Prompts <- MCPrompts
  ReplySizes = {2}
  NudgeSize = 2
  Budget <- MCBudget
  MaxIters = 4
  MaxRetries = 1
  MaxToolCalls = 2
  MaxNudges = 1
CHECK_DEADLOCK FALSE
INVARIANTS
  AnswerHasEvidence
  NoCallUnanswered
  StuckIsStopped
  ToolsNeverOverflow
PROPERTIES
  KeepsAgentContract
