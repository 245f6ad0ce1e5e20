\* A task that may be rerun and the one that waits for it, whose round has two humans; a server that stays up.
SPECIFICATION UpSpec
CONSTANTS
  t1 = t1
  t2 = t2
  Tasks = {t1, t2}
  Workflow = {t1}
  Deps <- ChainDeps
  Threads = {p, q}
  Slots = {g, h}
  Keys = {k1, k2}
  NoKey = NoKey
  NoThread = NoThread
  Failures = {"failed", "blocked"}
  MaxAttempts <- AttemptsOfChain
  MaxRounds <- RoundsOfChain
  Resubmit = FALSE
  Durable = TRUE
INVARIANTS PauseDiscipline ClaimExclusive
PROPERTIES StartsAfterPrerequisites ReadyTaskRunsUnlessRerun FlowSettles
CHECK_DEADLOCK FALSE
