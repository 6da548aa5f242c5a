---------------------------- MODULE MCAudioCall ----------------------------
(* Two devices and the calls they make of each other, interchangeable.     *)
EXTENDS AudioCall, TLC

CONSTANTS d1, d2, c1, c2, c3

TwoDevices == {d1, d2}
OneCall == {c1}
TwoCalls == {c1, c2}
ThreeCalls == {c1, c2, c3}
Symmetry == Permutations({d1, d2}) \cup Permutations({c1, c2, c3})
=============================================================================
