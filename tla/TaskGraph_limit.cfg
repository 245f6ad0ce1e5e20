\* The smallest limit that lets a round through, in a database.
SPECIFICATION Spec
CONSTANTS
  Width = 1
  MaxLoop = 2
  MaxParallel = 1
  MaxRetries = 0
  MaxAgain = 0
  Durable = TRUE
INVARIANTS LimitLeavesAllRounds
CHECK_DEADLOCK FALSE
