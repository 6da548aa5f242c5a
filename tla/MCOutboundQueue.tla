-------------------------- MODULE MCOutboundQueue --------------------------
(* Messages and overlapping calls as model values, interchangeable.        *)
EXTENDS OutboundQueue, TLC

CONSTANTS m1, m2, m3, w1, w2

TwoMessages == {m1, m2}
ThreeMessages == {m1, m2, m3}
OneWorker == {w1}
TwoWorkers == {w1, w2}
Symmetry == Permutations({m1, m2, m3}) \cup Permutations({w1, w2})
=============================================================================
