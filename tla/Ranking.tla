------------------------------- MODULE Ranking -------------------------------
(***************************************************************************)
(* The elements of a set as a list, each after those that come before it,  *)
(* and the elements of a list that stand at chosen places.                 *)
(***************************************************************************)
EXTENDS Naturals, FiniteSets

Ranked(set, before(_, _)) ==
    [k \in 1 .. Cardinality(set) |->
        CHOOSE x \in set : Cardinality({y \in set : before(y, x)}) = k - 1]

Picked(list, places) ==
    LET at == Ranked(places, LAMBDA i, j : i < j)
    IN  [k \in 1 .. Cardinality(places) |-> list[at[k]]]
=============================================================================
