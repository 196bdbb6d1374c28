SPECIFICATION FairSpec
CONSTANTS
  Size = 4
  Values = {v1, v2}
  Uninit = uninit
  MaxSend = 6
  v1 = v1
  v2 = v2
  uninit = uninit
INVARIANTS
  TypeOK
  NoDataRace
  FullEmptyExact
  LenBounds
PROPERTIES
  RefinesChannel
  EverythingArrives
