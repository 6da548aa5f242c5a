---------------------------- MODULE MCComponents ----------------------------
(***************************************************************************)
(* A small instance of every component.  The model values x1, x2 and       *)
(* y1, y2 are interchangeable; z1 and z2 stand for what is not.            *)
(***************************************************************************)
EXTENDS Components, TLC

CONSTANTS x1, x2, y1, y2, z1, z2

TwoX == {x1, x2}
TwoY == {y1, y2}
OneX == {x1}
OneY == {y1}
OneZ == {z1}
OtherZ == {z2}
XAndZ == {x1, x2, z1}
XAndTwoZ == {x1, x2, z1, z2}
UpToTwo == 1..2
UpToFour == 1..4
NoneRenamed == {}
Symmetry == Permutations(TwoX) \cup Permutations(TwoY)
=============================================================================
