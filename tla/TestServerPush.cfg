CONSTANTS
  c1 = c1
  c2 = c2
  c3 = c3
  None = None
  Conns <- TwoConns
  MaxConnections = 1
  MaxSeq = 3
  MaxForces = 0
  MaxStarts = 1
  Faults = {"slow", "random", "shutdown"}
SPECIFICATION Spec
SYMMETRY ConnSymmetry
INVARIANTS NoPushGaps NoSpuriousRefusal
CHECK_DEADLOCK FALSE
PROPERTIES ImplementsPeer ShutdownWaitsForAdmitted
