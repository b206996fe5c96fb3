------------------------------- MODULE Filters -------------------------------
(***************************************************************************)
(* A Go loop that appends the elements it keeps to a new slice, as the     *)
(* rate limiter and eligibleValidatorsLocked do: the elements of s at the  *)
(* places K, in the order they have in s.                                  *)
(***************************************************************************)
EXTENDS Integers, Sequences, FiniteSets

\* The place of K that has j places of K up to itself.
Nth(K, j) == CHOOSE i \in K : Cardinality({k \in K : k <= i}) = j

Kept(s, K) == [j \in 1..Cardinality(K) |-> s[Nth(K, j)]]
=============================================================================
