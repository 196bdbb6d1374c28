SPECIFICATION FairSpec
CONSTANTS
  Tasks = {t1, t2}
  Root = root
  None = none
  MaxQueue = 3
  Fuel = 1
  MaxDepth = 1
CHECK_DEADLOCK FALSE
INVARIANT PopSucceeds
PROPERTIES
  RootPolled
  QueuedPolled
