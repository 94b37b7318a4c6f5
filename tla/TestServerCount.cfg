CONSTANTS
  c1 = c1
  c2 = c2
  c3 = c3
  None = None
  Conns <- OneConn
  MaxConnections = 1
  MaxSeq = 1
  MaxForces = 0
  MaxStarts = 1
  Faults = {}
SPECIFICATION Spec
SYMMETRY ConnSymmetry
INVARIANT CountReturnsToZero
CHECK_DEADLOCK FALSE
