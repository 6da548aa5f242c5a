------------------------- MODULE MCSessionLifecycle -------------------------
(* Three nodes, so that a session is started again and again, and three    *)
(* calls that may be pending at once.                                      *)
EXTENDS SessionLifecycle, TLC

CONSTANTS n1, n2, n3, f1, f2, f3

ThreeNodes == {n1, n2, n3}
ThreeFlows == {f1, f2, f3}
=============================================================================
