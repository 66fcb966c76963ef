SPECIFICATION Spec
CONSTANTS
  n1 = n1
  NoNid = NoNid
  n2 = n2
  Nid = {n1, n2}
  Pod = {p1, p2}
  JanitorPod = {}
  TrimmerPod = {p1}
  MaintainerPod = {p2}
  Home <- MCHome
  Skew <- MCNoSkew
  MaxSkew = 0
  TTL = 2
  Second = 1
  Day = 2
  MaxLen = 1
  BatchLimit = 1
  RetentionInput = {2, 3}
  MaxDays = 2
  DefaultDays = 1
  MaxAcks = 1
  MaxFaults = 1
  MaxTime = 4
  p1 = p1
  p2 = p2
INVARIANTS
  TypeOK
  NoLostEntry
  ConfirmedNotPending
PROPERTIES
  LiveEntryKept
  MailboxRefined
  ContractRefined
SYMMETRY Symmetry
CHECK_DEADLOCK FALSE
CONSTRAINTS
  OneCallAfterFailure
  NoEmptyMark
