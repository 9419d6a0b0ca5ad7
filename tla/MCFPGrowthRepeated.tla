------------------------- MODULE MCFPGrowthRepeated -------------------------
(***************************************************************************)
(* A dataset that has a transaction twice, with dicts that list items in   *)
(* one order.                                                              *)
(***************************************************************************)
EXTENDS FPGrowth

MCItems == 1 .. 3

Repeated == {<<{1, 2}, {1, 2}, {1, 3}>>}

Two == {2}

Sorted == {[p \in SUBSET MCItems |-> <<1, 2, 3>>]}
=============================================================================
