-------------------------- MODULE MCMailboxDrain --------------------------
(* Envelopes with two dates and small pages, so that a walk takes several  *)
(* pulls; two drains, so that a cancelled one overlaps the next.           *)
EXTENDS MailboxDrain, TLC

CONSTANTS e1, e2, e3, d1, d2

TwoEnvelopes == {e1, e2}
ThreeEnvelopes == {e1, e2, e3}
OneDrain == {d1}
TwoDrains == {d1, d2}
MCSentAts == {1, 2}
MCExpiries == {1}
NoExpiries == {}
Symmetry == Permutations({e1, e2, e3}) \cup Permutations({d1, d2})
=============================================================================
