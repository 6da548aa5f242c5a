---------------------------- MODULE MCChatState ----------------------------
(* Messages and pending calls as model values, interchangeable.            *)
EXTENDS ChatState, TLC

CONSTANTS i1, i2, o1, c1, c2

OneIncoming == {i1}
TwoIncoming == {i1, i2}
OneOwn == {o1}
NoOwn == {}
NoneRenamed == {}
TwoCalls == {c1, c2}
Symmetry == Permutations({i1, i2}) \cup Permutations({c1, c2})
=============================================================================
