\* Two calls, two brokers on the same files, two deaths.
SPECIFICATION Spec
CONSTANTS
  Calls = {c1, c2}
  Brokers = {b1, b2}
  NoCall = NoCall
  MaxCrashes = 2
SYMMETRY Symmetry
INVARIANTS TypeOK AtMostOnce SuccessIsExecution
PROPERTIES WithdrawnNeverRuns
CHECK_DEADLOCK FALSE
