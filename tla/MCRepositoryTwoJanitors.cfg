SPECIFICATION Spec
CONSTANTS
  n1 = n1
  NoNid = NoNid
  n2 = n2
  Nid = {n1, n2}
  Pod = {p1, p2}
  JanitorPod = {p1, p2}
  TrimmerPod = {}
  MaintainerPod = {}
  Home <- MCHome
  Skew <- MCSkew
  MaxSkew = 1
  TTL = 5
  Second = 2
  Day = 6
  MaxLen = 2
  BatchLimit = 1
  RetentionInput = {}
  MaxDays = 2
  DefaultDays = 2
  MaxAcks = 0
  MaxFaults = 1
  MaxTime = 8
  p1 = p1
  p2 = p2
INVARIANTS
  NoEarlyExpiry
  ScheduledUntilDeleted
PROPERTIES
  MailboxRefined
SYMMETRY Symmetry
CHECK_DEADLOCK FALSE
