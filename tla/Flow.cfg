SPECIFICATION Spec
CONSTANTS
  Classes = {"A", "B", "C"}
  Comparison <- MCComparison
  RealVersion <- MCVersion
  Declared = {"A", "B"}
  Tests <- MCTests
  LoopTargets = {"A", Other}
  Other = Other
  MaxStatements = 5
  MaxDepth = 4
INVARIANTS FlagStaysInside FalseReportsExplained VisitedIsCollected
PROPERTIES NarrowingUndone
CHECK_DEADLOCK FALSE
