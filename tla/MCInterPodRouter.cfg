SPECIFICATION RouterFairSpec
CONSTANTS
  Letter = {"b"}
  Target <- MCTarget
  Key <- MCKey
  BatchSize = 2
  MaxMessages = 3
  MaxSessions = 2
  MaxFaults = 1
INVARIANTS
  WrittenInOrder
  RoutedToAddressee
  AckedIffWritten
PROPERTIES
  RouterGetsThrough
CHECK_DEADLOCK FALSE
