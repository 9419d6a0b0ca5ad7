------------------------------ MODULE MCApriori ------------------------------
(***************************************************************************)
(* Every dataset of at most three transactions over five items, mined at   *)
(* every threshold, with sets that are iterated in one of three orders     *)
(* (another one at every merge).  A dataset is only counted in, so one     *)
(* order of its transactions stands for all of them.                       *)
(*                                                                         *)
(* Rules are generated from four datasets of four transactions with        *)
(* frequent itemsets of up to four items.  Their confidences lie between   *)
(* 1/4 and 1: below, on and above each of the three thresholds.            *)
(***************************************************************************)
EXTENDS AprioriRules

MCItems == 1 .. 5

\* A number for every transaction, to sort them by.
Code(S) == LET Bit(x) == IF x \in S THEN 2 ^ (x - 1) ELSE 0
           IN  Bit(1) + Bit(2) + Bit(3) + Bit(4) + Bit(5)

DatasetsToMine ==
  UNION {{D \in [1 .. n -> SUBSET MCItems] :
            \A i, j \in 1 .. n : i < j => Code(D[i]) <= Code(D[j])} : n \in 0 .. 3}

DatasetsWithRules ==
  {<<{1, 2, 3}, {1, 2, 3, 4}, a, b>> :
     a \in {{2, 3}, {1, 2, 4}}, b \in {{}, {2, 4}}}

MCDatasets == DatasetsToMine \cup DatasetsWithRules

MCMinCounts == 1 .. 3

MCMinConfs == {<<1, 2>>, <<2, 3>>, <<1, 1>>}

\* The last item of each set when the items are iterated by ascending rank.
LastBy(rank) ==
  [S \in (SUBSET MCItems) \ {{}} |->
     CHOOSE x \in S : \A y \in S : rank[y] <= rank[x]]

MCOrders == {LastBy(<<1, 2, 3, 4, 5>>), LastBy(<<5, 4, 3, 2, 1>>), LastBy(<<2, 4, 1, 5, 3>>)}

\* What is explored: of the datasets of at most three transactions the search for
\* itemsets, for which one minConf is enough, and of the others the rules too.
Explored ==
  Len(dataset) <= 3 => minConf = <<1, 1>> /\ rpc = "nextLevel" /\ level = 1
=============================================================================
