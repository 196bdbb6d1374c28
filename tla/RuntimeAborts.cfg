SPECIFICATION BFairSpec
CONSTANTS
  Tasks = {1, 2, 3}
  Main = main
  Rounds = 2
  SizeA = 2
  SizeB = 4
  Retry = FALSE
  MayAbort = TRUE
  MaxNoops = 1
  main = main
  Blocks = {b1, b2, b3}
  PerOp = 1
  MayLeave = TRUE
CHECK_DEADLOCK FALSE
INVARIANTS
  BTypeOK
  RequestsKnown
  NeverOutOfCapacity
  NobodyForgotten
  OwnResponse
PROPERTIES
  RefinesLending
  Recycled
