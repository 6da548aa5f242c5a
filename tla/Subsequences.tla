---------------------------- MODULE Subsequences ----------------------------
(***************************************************************************)
(* Parts of sequences, taken at a set of positions.  They are the filter   *)
(* of the code's lists and its sorting of numbers, without a recursion     *)
(* that could not be reasoned about: see SubsequencesProofs.               *)
(***************************************************************************)
EXTENDS Naturals, FiniteSets

\* The numbers of I in ascending order.
Ascending(I) ==
    CHOOSE at \in [1..Cardinality(I) -> I] :
        \A j, k \in 1..Cardinality(I) : j < k => at[j] < at[k]

\* The entries of s at the positions of I, in their order.
Subsequence(s, I) == [k \in 1..Cardinality(I) |-> s[Ascending(I)[k]]]
=============================================================================
