---------------------------- MODULE MCWsClient -----------------------------
(* Instances of WsClient for TLC.                                          *)
EXTENDS WsClient, TLC

CONSTANTS u1, u2, c1, c2, c3

Nobody == {}
OneCaller == {u1}
TwoCallers == {u1, u2}
OneConn == {c1}
TwoConns == {c1, c2}
ThreeConns == {c1, c2, c3}

ConnSymmetry == Permutations(Conns)
Symmetry == Permutations(Conns) \cup Permutations(Callers)
=============================================================================
