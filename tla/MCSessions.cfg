SPECIFICATION SessionsFairSpec
CONSTANTS
  c1 = c1
  c2 = c2
  p1 = p1
  p2 = p2
  Conn = {c1, c2}
  Pod = {p1, p2}
  Route <- MCRoute
  NoConn = NoConn
  NoPod = NoPod
  LockTTL = 2
  MaxFaults = 1
INVARIANTS
  LockKept
  LockHasHolder
  RegisteredIsServed
  ReportsNeverWait
PROPERTIES
  LifeRefined
  AllEnd
  LockFreed
CHECK_DEADLOCK FALSE
