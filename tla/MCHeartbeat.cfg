SPECIFICATION HeartbeatSpec
CONSTANTS
  p1 = p1
  p2 = p2
  Pod = {p1, p2}
  Skew <- MCSkew
  Delay <- MCDelay
  MaxSkew = 1
  Interval = 3
  StaleAfter = 9
  Second = 2
  Latency = 1
  MaxFaults = 1
  MaxTime = 23
INVARIANTS
  BeatingPodListed
  DeadPodForgotten
CHECK_DEADLOCK FALSE
