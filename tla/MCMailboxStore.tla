-------------------------- MODULE MCMailboxStore --------------------------
(* Two recipients, three envelope ids, queues of two, a clock of three.    *)
EXTENDS MailboxStore, TLC

CONSTANTS p1, p2, e1, e2, e3

MCPeers == {p1, p2}
MCEnvelopeIds == {e1, e2, e3}
MCSentAts == {1}
MCExpiries == {2}
Symmetry == Permutations(MCPeers) \cup Permutations(MCEnvelopeIds)
=============================================================================
