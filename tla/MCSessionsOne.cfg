SPECIFICATION SessionsSpec
CONSTANTS
  c1 = c1
  c2 = c2
  c3 = c3
  p1 = p1
  Conn = {c1, c2, c3}
  Pod = {p1}
  Route <- MCRoute
  NoConn = NoConn
  NoPod = NoPod
  LockTTL = 2
  MaxFaults = 0
INVARIANTS
  OneConnectionPerPod
CHECK_DEADLOCK FALSE
