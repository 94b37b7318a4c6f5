------------------------- MODULE MCSessionReplayer --------------------------
(* Instances of SessionReplayer for TLC.                                   *)
EXTENDS SessionReplayer, TLC

CONSTANTS u1, u2, l1, l2

OneUser == {u1}
TwoUsers == {u1, u2}
OneLoop == {l1}
TwoLoops == {l1, l2}

UserSymmetry == Permutations(Users)
=============================================================================
