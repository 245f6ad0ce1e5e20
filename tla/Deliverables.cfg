\* Two executions of a task, two contents a file or an output may have.
SPECIFICATION Spec
CONSTANTS
  Contents = {c1, c2}
  Empty = Empty
  Gone = Gone
  None = None
  MaxAttempts = 2
  MaxChanges = 2
SYMMETRY ContentSymmetry
INVARIANTS DeliveryStands
PROPERTIES EvidenceStands NoSilentLoss
CHECK_DEADLOCK FALSE
