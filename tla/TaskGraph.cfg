\* Two rounds of at most two subtasks before the limit, one retry, in memory.
SPECIFICATION FairSpec
CONSTANTS
  Width = 2
  MaxLoop = 3
  MaxParallel = 4
  MaxRetries = 1
  MaxAgain = 1
  Durable = FALSE
INVARIANTS TypeOK WaitHasWork ContextComplete NoSuccessOverOpenWork ToolsAccountedFor
PROPERTIES RunEnds FlowAsPromised
CHECK_DEADLOCK FALSE
