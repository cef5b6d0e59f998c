------------------------------ MODULE Ordered ------------------------------
(***************************************************************************)
(* The elements of a finite set in an order, by rank: each at the place    *)
(* that says how many come before it. The parts of a sequence are what is  *)
(* left of it at some of its indices, in their order.                      *)
(***************************************************************************)
EXTENDS Naturals, Sequences, FiniteSets

\* The elements of a finite set in a total order.
Sorted(S, precedes(_, _)) ==
  [i \in 1 .. Cardinality(S) |->
     CHOOSE d \in S : Cardinality({e \in S : precedes(e, d)}) = i - 1]

\* The elements of s at the indices in I, in their order.
At(s, I) ==
  LET index == Sorted(I, <)
  IN [k \in DOMAIN index |-> s[index[k]]]

\* Those that are in S, and those that are not.
Within(s, S)  == At(s, {i \in DOMAIN s : s[i] \in S})
Without(s, S) == At(s, {i \in DOMAIN s : s[i] \notin S})

=============================================================================
