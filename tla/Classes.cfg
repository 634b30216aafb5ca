SPECIFICATION ClassSpec
CONSTANTS
  Node <- MCNode
  Graphs <- MCGraphs
  Programs <- MCPrograms
  MaxBases = 2
INVARIANTS DependenciesFirst NothingLost LoopsReported
INVARIANTS MroExplained AssignableToAncestors ClassAndInstanceAgree EveryClassResolved
PROPERTY ClassesEnd
CHECK_DEADLOCK FALSE
