\* One task: reruns, repeated and late results, crashes.
SPECIFICATION Spec
CONSTANTS
  t1 = t1
  t2 = t2
  Tasks = {t1}
  Workflow = {}
  Deps <- NoDeps
  Threads = {p, q}
  Slots = {h}
  Keys = {k1, k2}
  NoKey = NoKey
  NoThread = NoThread
  Failures = {"failed"}
  MaxAttempts <- ThreeEach
  MaxRounds <- OneEach
  Resubmit = TRUE
  Durable = TRUE
SYMMETRY ThreadSymmetry
INVARIANTS TypeOK HistoryOK KeysUnique
PROPERTIES FinishedFrozen ResultsLandOnOwnExecution ImplementsLedger
CHECK_DEADLOCK FALSE
