SPECIFICATION Spec
CONSTANTS
  Tasks = {1, 2, 3}
  Main = main
  Rounds = 2
  SizeA = 2
  SizeB = 2
  Retry = TRUE
  MayAbort = FALSE
  MaxNoops = 1
  main = main
CHECK_DEADLOCK FALSE
INVARIANT NeverStranded
