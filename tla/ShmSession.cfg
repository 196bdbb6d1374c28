SPECIFICATION FairSpec
CONSTANTS
  Server = server
  Clients = {c1, c2}
  Heirs = {c2}
  MaxFiles = 2
  c1 = c1
  c2 = c2
  server = server
CHECK_DEADLOCK FALSE
INVARIANTS
  TypeOK
  OneTaker
  LastIsAlone
  UnlinksItsOwn
PROPERTY NameFreed
