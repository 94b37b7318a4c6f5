CONSTANTS
  u1 = u1
  u2 = u2
  c1 = c1
  c2 = c2
  c3 = c3
  NoConn = NoConn
  Callers <- OneCaller
  Closers <- OneCaller
  Conns <- TwoConns
  MaxGen = 1
  MaxReconnectTries = 1
  MaxSeq = 0
  Faults = {"cut"}
  MaxFaults = 1
SPECIFICATION Spec
INVARIANT CloseTwiceIsHarmless
CHECK_DEADLOCK FALSE
