SPECIFICATION Spec
CONSTANTS
  Tasks = {1, 2, 3}
  Main = main
  Rounds = 1
  SizeA = 2
  SizeB = 2
  Retry = FALSE
  MayAbort = FALSE
  MaxNoops = 1
  main = main
CHECK_DEADLOCK FALSE
INVARIANT NeverOutOfCapacity
