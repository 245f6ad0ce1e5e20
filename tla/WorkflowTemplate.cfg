\* Every graph over a few edges, every decision and every failure.
SPECIFICATION Spec
CONSTANTS
  Nodes <- MCNodes
  Kind <- MCKind
  Outcomes = {"plain", "yes"}
  Plain = "plain"
  Always = {"always"}
  Graphs <- MCGraphs
  MaxAgain = 1
INVARIANTS NodesRunOnce RunsOnLivePath JoinsWait EverythingDecided
PROPERTIES SkippedForGood FlowAsExpected
CHECK_DEADLOCK FALSE
