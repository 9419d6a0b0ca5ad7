----------------------------- MODULE MCFPGrowth -----------------------------
(***************************************************************************)
(* All datasets of three different transactions over three items (an empty *)
(* one among them, perhaps), and two over four items, with dicts that list *)
(* items of the same support in one of two orders, another one for every   *)
(* tree.                                                                   *)
(***************************************************************************)
EXTENDS FPGrowth

MCItems == 1 .. 4

MCDatasets ==
  {SetToSeq(F) : F \in {G \in SUBSET SUBSET (1 .. 3) : Cardinality(G) = 3}}
  \cup {<<{1, 2, 3, 4}, {2, 3, 4}, {1, 3}>>, <<{1, 2, 3}, {2, 3, 4}, {1, 4}, {4}>>}

MCMinSupports == 1 .. 3

MCListings == {[p \in SUBSET MCItems |-> <<1, 2, 3, 4>>],
               [p \in SUBSET MCItems |-> <<4, 2, 1, 3>>]}

\* The two orders do not depend on the pattern that is listed.
ASSUME MCListingsConsistent == \A list \in MCListings : ConsistentListing(list)

\* What is found is compared with the dataset, of which nothing is overwritten.
ASSUME MCNoRepeats == NoRepeats
=============================================================================
