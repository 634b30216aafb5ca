SPECIFICATION ClassSpec
CONSTANTS
  Node <- MCNode
  Graphs <- MCGraphs
  Programs <- MCPrograms
  MaxBases = 2
CHECK_DEADLOCK FALSE
INVARIANT MroIsC3
