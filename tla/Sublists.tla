------------------------------ MODULE Sublists ------------------------------
(***************************************************************************)
(* List comprehensions: [x for x in s if Test(x)] keeps the entries that   *)
(* pass, in their order.  What is kept is said by positions - the k-th is  *)
(* the one with k positions up to it - so that it can be reasoned about    *)
(* without recursion.                                                      *)
(***************************************************************************)
EXTENDS Integers, Sequences, FiniteSets

Nth(I, k) == CHOOSE i \in I : Cardinality({j \in I : j <= i}) = k

\* The entries of s at the positions I.
Sublist(s, I) == [k \in 1..Cardinality(I) |-> s[Nth(I, k)]]

Kept(s, Test(_)) == Sublist(s, {i \in DOMAIN s : Test(s[i])})
=============================================================================
