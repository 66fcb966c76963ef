SPECIFICATION FairSpec
CONSTANTS
  c1 = c1
  c2 = c2
  c3 = c3
  c4 = c4
  p1 = p1
  p2 = p2
  k1 = k1
  NoKey = NoKey
  Call = {c1, c2, c3, c4}
  Pod = {p1, p2}
  Key = {k1}
  Home <- MCHome
  KeyOf <- MCKeyOf
  Body <- MCBody
  Targets <- MCTargets
  ResultTTL = 1
  MaxFaults = 2
  MaxTime = 4
INVARIANTS
  TypeOK
  EveryTargetTried
  RetryCreatesNothing
PROPERTIES
  NotifyRefined
  ContractKept
  EveryCallEnds
CHECK_DEADLOCK FALSE
