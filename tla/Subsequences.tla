---------------------------- MODULE Subsequences ----------------------------
(***************************************************************************)
(* A sequence with some of its elements left out.  SelectSeq and the sorts *)
(* of the libraries would say the same, but are closed to proofs.          *)
(***************************************************************************)
EXTENDS Naturals, FiniteSets, Sequences

\* How many elements of a set of numbers are not above i.
Rank(S, i) == Cardinality({j \in S : j <= i})

\* The k-th smallest element of a finite set of numbers.
Nth(S, k) == CHOOSE i \in S : Rank(S, i) = k

\* The elements of s at the places in keep, in their order.
Subsequence(s, keep) == [k \in 1..Cardinality(keep) |-> s[Nth(keep, k)]]
=============================================================================
