SPECIFICATION DeliverySpec
CONSTANTS
  n1 = n1
  c1 = c1
  Nid = {n1}
  Pod = {p1}
  JanitorPod = {p1}
  TrimmerPod = {}
  MaintainerPod = {}
  Home <- MCHome
  Skew <- MCSkew
  MaxSkew = 0
  TTL = 2
  Second = 1
  Day = 4
  MaxLen = 2
  BatchLimit = 1
  RetentionInput = {0, 1, 3}
  MaxDays = 2
  DefaultDays = 2
  MaxAcks = 1
  MaxFaults = 0
  MaxTime = 3
  Conn = {c1}
  SyncLimit = {1, 2}
  HistoryCount = 2
  NoNid = NoNid
  MaxErrors = 1
  p1 = p1
INVARIANTS
  ReadWasShown
PROPERTIES
  RepositorySpec
  ClearedIsExpired
  LifeRefined
SYMMETRY Symmetry
CHECK_DEADLOCK FALSE
