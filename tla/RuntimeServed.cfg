SPECIFICATION BFairSpec
CONSTANTS
  Tasks = {1, 2, 3, 4, 5, 6}
  Main = main
  Rounds = 1
  SizeA = 4
  SizeB = 4
  Retry = TRUE
  MayAbort = FALSE
  MaxNoops = 1
  main = main
  Blocks = {}
  PerOp = 0
  MayLeave = FALSE
CHECK_DEADLOCK FALSE
INVARIANT CleanEnd
PROPERTY ClientEnds
