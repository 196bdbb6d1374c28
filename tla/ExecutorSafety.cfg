SPECIFICATION Spec
CONSTANTS
  Tasks = {t1, t2}
  Root = root
  None = none
  MaxQueue = 3
  Fuel = 2
  MaxDepth = 2
  t1 = t1
  t2 = t2
  root = root
  none = none
SYMMETRY TaskSymmetry
CHECK_DEADLOCK FALSE
INVARIANTS
  TypeOK
  NoLostWakeup
  JoinsAlive
