\* A task and the one that waits for it, with reruns of the prerequisite.
SPECIFICATION UpSpec
CONSTANTS
  t1 = t1
  t2 = t2
  Tasks = {t1, t2}
  Workflow = {}
  Deps <- ChainDeps
  Threads = {p, q}
  Slots = {}
  Keys = {k1, k2}
  NoKey = NoKey
  NoThread = NoThread
  Failures = {"failed"}
  MaxAttempts <- TwoEach
  MaxRounds <- NoRounds
  Resubmit = FALSE
  Durable = TRUE
PROPERTIES ReadyTaskRuns
CHECK_DEADLOCK FALSE
