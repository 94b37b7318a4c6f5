--------------------------- MODULE MCTestServer ----------------------------
(* Instances of TestServer for TLC.                                        *)
EXTENDS TestServer, TLC

CONSTANTS c1, c2, c3

OneConn == {c1}
TwoConns == {c1, c2}
ThreeConns == {c1, c2, c3}

ConnSymmetry == Permutations(Conns)
=============================================================================
