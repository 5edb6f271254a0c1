---------------------------- MODULE Subsequences ----------------------------
(***************************************************************************)
(* Selecting elements of a sequence, in order, by their places.            *)
(***************************************************************************)
EXTENDS Naturals, Sequences, FiniteSets

(* How many elements of a set of places are at or before i.                *)
Rank(S, i) == Cardinality({j \in S : j <= i})

(* The elements of q at the places S: the k-th of them is the one with k   *)
(* places of S at or before it.                                            *)
Picked(q, S) == [k \in 1 .. Cardinality(S) |-> q[CHOOSE i \in S : Rank(S, i) = k]]
=============================================================================
