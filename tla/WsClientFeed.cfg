CONSTANTS
  u1 = u1
  u2 = u2
  c1 = c1
  c2 = c2
  c3 = c3
  NoConn = NoConn
  Callers <- OneCaller
  Closers <- Nobody
  Conns <- TwoConns
  MaxGen = 1
  MaxReconnectTries = 1
  MaxSeq = 2
  Faults = {"cut", "restart"}
  MaxFaults = 1
SPECIFICATION Spec
SYMMETRY ConnSymmetry
CHECK_DEADLOCK FALSE

PROPERTY ImplementsFeed
