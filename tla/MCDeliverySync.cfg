SPECIFICATION DeliverySpec
CONSTANTS
  n1 = n1
  n2 = n2
  c1 = c1
  c2 = c2
  Nid = {n1, n2}
  Pod = {p1}
  JanitorPod = {}
  TrimmerPod = {}
  MaintainerPod = {}
  Home <- MCHome
  Skew <- MCSkew
  MaxSkew = 0
  TTL = 3
  Second = 2
  Day = 4
  MaxLen = 2
  BatchLimit = 2
  RetentionInput = {}
  MaxDays = 2
  DefaultDays = 2
  MaxAcks = 0
  MaxFaults = 0
  MaxTime = 1
  Conn = {c1, c2}
  SyncLimit = {}
  HistoryCount = 2
  NoNid = NoNid
  MaxErrors = 0
  p1 = p1
INVARIANTS
  InitialSyncComplete
  NoGap
  TakenOnce
  LiveInOrder
SYMMETRY Symmetry
CHECK_DEADLOCK FALSE
