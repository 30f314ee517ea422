------------------------------ MODULE Positions ------------------------------
(***************************************************************************)
(* Loops of internal/session/session.go that go over a slice and keep some *)
(* of its entries, in order: what they keep, by its positions.             *)
(***************************************************************************)
EXTENDS Integers, Sequences, FiniteSets

\* Of a set of positions the one that has n of them up to it.
Nth(positions, n) ==
  CHOOSE i \in positions : Cardinality({h \in positions : h <= i}) = n

\* The entries of s at these positions.
Pick(s, positions) ==
  [n \in 1 .. Cardinality(positions) |-> s[Nth(positions, n)]]

=============================================================================
