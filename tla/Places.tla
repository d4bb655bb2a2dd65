------------------------------- MODULE Places -------------------------------
(***************************************************************************)
(* Positions of a sequence that are picked out of it, in their order.      *)
(***************************************************************************)
EXTENDS Integers, FiniteSets

\* The place of p in a set of positions, from 1.
Place(positions, p) == Cardinality({q \in positions : q <= p})

\* The elements of a sequence at some of its positions.
Keeping(seq, positions) ==
    [n \in 1..Cardinality(positions) |-> seq[CHOOSE p \in positions : Place(positions, p) = n]]
=============================================================================
