SPECIFICATION FairSpec
CONSTANTS
  CapA = 2
  CapB = 1
  MaxSend = 3
CHECK_DEADLOCK FALSE
INVARIANTS
  TypeOK
  CountExact
  ExactlyOnce
  TeardownOrdered
  FreedOnce
PROPERTIES
  DisconnectedIsFinal
  Reclaimed
