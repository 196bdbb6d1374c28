SPECIFICATION Spec
CONSTANTS
  Ops = {o1, o2, o3}
  Wakers = {w1, w2}
  None = none
  Capacity = 1
  MaxKeys = 2
  Hold = FALSE
  o1 = o1
  o2 = o2
  o3 = o3
  w1 = w1
  w2 = w2
  none = none
SYMMETRY Symmetric
CHECK_DEADLOCK FALSE
INVARIANTS
  TypeOK
  NeverPanics
  EntryExact
  ResourcesHeld
  VerdictExact
  LatestWoken
PROPERTY KeepsPromise
