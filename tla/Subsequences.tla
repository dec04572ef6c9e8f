----------------------------- MODULE Subsequences -----------------------------
(***************************************************************************)
(* What is left of a sequence when some of its elements are taken out.     *)
(* JavaScript's Map and Python's OrderedDict and deque keep what they have *)
(* in the order of insertion, and drop entries from anywhere.              *)
(***************************************************************************)
EXTENDS Naturals, Sequences, FiniteSets, Functions

(* The elements of a sequence at the positions in S, in their order.       *)
Subsequence(seq, S) == [n \in 1..Cardinality(S) |->
    seq[CHOOSE i \in S : Cardinality({j \in S : j <= i}) = n]]

(* The elements of a sequence that are members of a set.                   *)
Keep(seq, T) == Subsequence(seq, {i \in 1..Len(seq) : seq[i] \in T})
=============================================================================
