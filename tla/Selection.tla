------------------------------- MODULE Selection -------------------------------
(***************************************************************************)
(* Some elements of a sequence, in their order: what a list comprehension     *)
(* with a condition returns. The definitions do without recursion, so that    *)
(* lemmas can say what they compute for every sequence.                      *)
(***************************************************************************)
EXTENDS Integers, Sequences, FiniteSets

\* How many of the positions P come up to k, and the i-th of them.
Rank(P, k) == Cardinality({j \in P : j <= k})
Position(P, i) == CHOOSE k \in P : Rank(P, k) = i

\* The elements of s at the positions P.
Among(s, P) == [i \in 1..Cardinality(P) |-> s[Position(P, i)]]
=============================================================================
