---------------------------- MODULE MCOnboarding ----------------------------
(* Identities as model values, interchangeable.                            *)
EXTENDS Onboarding, TLC

CONSTANTS i1, i2

TwoIds == {i1, i2}
Symmetry == Permutations({i1, i2})
=============================================================================
