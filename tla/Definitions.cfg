SPECIFICATION Spec
CONSTANTS
  Name <- MCName
  Blocks <- MCBlocks
  MaxLine = 4
  MaxDepth = 1
INVARIANTS TablesFollowPriority LossesReported LookupsAgree SkippedIsSuperseded
CHECK_DEADLOCK FALSE
