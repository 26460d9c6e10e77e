-------------------------------- MODULE Positions --------------------------------
(***************************************************************************)
(* Some of a sequence's elements, by their positions: what is left of a    *)
(* list of jobs when those with an id are erased, or the packets among the *)
(* records of a buffer.  SelectSeq says the same, but the provers cannot   *)
(* unfold it.                                                              *)
(***************************************************************************)
EXTENDS Integers, Sequences, FiniteSets

\* How many of the positions S do not lie behind i.
Rank(S, i) == Cardinality({j \in S : j <= i})

\* The k-th of the positions S.
Position(S, k) == CHOOSE i \in S : Rank(S, i) = k

\* The elements of s at the positions S, in the order of s.
Picked(s, S) == [k \in 1..Cardinality(S) |-> s[Position(S, k)]]
=============================================================================
