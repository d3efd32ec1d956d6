------------------------------- MODULE Sublist -------------------------------
(* What is left of a list when the elements at some positions are erased.     *)
EXTENDS Naturals, Sequences, FiniteSets

\* The n-th smallest of a set of positions.
Nth(positions, n) ==
  CHOOSE p \in positions : Cardinality({q \in positions : q <= p}) = n

Kept(list, positions) ==
  [n \in 1 .. Cardinality(positions) |-> list[Nth(positions, n)]]

\* One list is another with some of its elements erased.
IsSublist(part, list) ==
  \E at \in [DOMAIN part -> DOMAIN list] :
    /\ \A n \in DOMAIN part : part[n] = list[at[n]]
    /\ \A m, n \in DOMAIN part : m < n => at[m] < at[n]
=============================================================================
