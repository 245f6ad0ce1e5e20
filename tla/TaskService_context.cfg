\* A sync confirmation that meets the completion of its prerequisite.
SPECIFICATION Spec
CONSTANTS
  t1 = t1
  t2 = t2
  Tasks = {t1, t2}
  Workflow = {}
  Deps <- ChainDeps
  Threads = {p, q}
  Slots = {}
  Keys = {k1, k2}
  NoKey = NoKey
  NoThread = NoThread
  Failures = {"failed"}
  MaxAttempts <- OneEach
  MaxRounds <- NoRounds
  Resubmit = FALSE
  Durable = TRUE
SYMMETRY ThreadSymmetry
PROPERTIES StartsWithDependencyContext
CHECK_DEADLOCK FALSE
