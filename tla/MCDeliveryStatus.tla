-------------------------- MODULE MCDeliveryStatus --------------------------
(* One message and two flows: a retry may run beside the flow it follows.  *)
EXTENDS DeliveryStatus, TLC

CONSTANTS f1, f2

TwoFlows == {f1, f2}
Symmetry == Permutations(TwoFlows)
=============================================================================
