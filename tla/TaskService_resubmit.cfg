\* A human result posted again after its round was merged.
SPECIFICATION Spec
CONSTANTS
  t1 = t1
  t2 = t2
  Tasks = {t1}
  Workflow = {}
  Deps <- NoDeps
  Threads = {p, q}
  Slots = {h}
  Keys = {k1, k2}
  NoKey = NoKey
  NoThread = NoThread
  Failures = {"failed"}
  MaxAttempts <- OneEach
  MaxRounds <- TwoEach
  Resubmit = TRUE
  Durable = TRUE
SYMMETRY ThreadSymmetry
INVARIANTS PauseDiscipline
CHECK_DEADLOCK FALSE
