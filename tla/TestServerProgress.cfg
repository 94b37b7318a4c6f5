CONSTANTS
  c1 = c1
  c2 = c2
  c3 = c3
  None = None
  Conns <- OneConn
  MaxConnections = 1
  MaxSeq = 3
  MaxForces = 2
  MaxStarts = 1
  Faults = {"slow", "silent", "shutdown"}
SPECIFICATION FairSpec
PROPERTIES GoneClientReleased EmptyShutdownReturns
CHECK_DEADLOCK FALSE
