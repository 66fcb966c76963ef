SPECIFICATION FairSpec
CONSTANTS
  n1 = n1
  NoNid = NoNid
  n2 = n2
  Nid = {n1, n2}
  Pod = {p1, p2}
  JanitorPod = {p1}
  TrimmerPod = {}
  MaintainerPod = {}
  Home <- MCHome
  Skew <- MCNoSkew
  MaxSkew = 0
  TTL = 3
  Second = 2
  Day = 4
  MaxLen = 2
  BatchLimit = 1
  RetentionInput = {}
  MaxDays = 2
  DefaultDays = 2
  MaxAcks = 0
  MaxFaults = 1
  MaxTime = 6
  p1 = p1
  p2 = p2
PROPERTIES
  ExpiredEventuallyCleaned
CHECK_DEADLOCK FALSE
