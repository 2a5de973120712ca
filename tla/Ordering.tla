------------------------------- MODULE Ordering -------------------------------
(***************************************************************************)
(* The elements of a finite set of numbers in their order, as a function   *)
(* that proofs can reason about: the k-th is the one that has k of them up *)
(* to it.  The code gets them from sort.Strings, and in order from loops.  *)
(***************************************************************************)
EXTENDS Naturals, FiniteSets

UpTo(S, x) == {y \in S : y <= x}
InOrder(S) == [k \in 1..Cardinality(S) |-> CHOOSE x \in S : Cardinality(UpTo(S, x)) = k]
=============================================================================
