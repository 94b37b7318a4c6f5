CONSTANTS
  u1 = u1
  u2 = u2
  c1 = c1
  c2 = c2
  c3 = c3
  NoConn = NoConn
  Callers <- OneCaller
  Closers <- Nobody
  Conns <- TwoConns
  MaxGen = 2
  MaxReconnectTries = 1
  MaxSeq = 2
  Faults = {"cut", "refuse"}
  MaxFaults = 2
SPECIFICATION Spec
INVARIANT MonotoneDelivery
CHECK_DEADLOCK FALSE
