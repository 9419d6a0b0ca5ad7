------------------------------- MODULE Apriori -------------------------------
(***************************************************************************)
(* generateFrequentItemsets of examples/mlia/src/fpm/apriori.py: the       *)
(* levels D -> C1 -> L1 -> C2 -> L2 ... until a level is empty.            *)
(*                                                                         *)
(* One step is one call of a helper: createC1, filterCToFormL together     *)
(* with the bookkeeping of the loop that called it, mergeLToFormLargerC.   *)
(* The iteration order of the frozensets is chosen from Orders at every    *)
(* merge.                                                                  *)
(***************************************************************************)
EXTENDS Itemsets

CONSTANTS Datasets,     \* the datasets that may be mined
          MinCounts,    \* the support thresholds, as counts
          Orders        \* the iteration orders that frozensets may have

ASSUME DatasetsAssumption == Datasets \subseteq Seq(Itemset)
ASSUME MinCountsAssumption == MinCounts \subseteq Nat \ {0}
ASSUME OrdersAssumption == \A last \in Orders : IsLastItem(last)

VARIABLES dataset,      \* argument: the transactions
          minCount,     \* argument minSupport, as a count
          pc,           \* the helper that is called next
          C,            \* candidate itemset -> how often it is in the list C
          L,            \* the frequent itemsets of the current level
          L_list,       \* [L1, L2, ...]
          supports      \* itemset -> support count

vars == <<dataset, minCount, pc, C, L, L_list, supports>>

Init ==
  /\ dataset \in Datasets
  /\ minCount \in MinCounts
  /\ pc = "createC1"
  /\ C = EmptyDict
  /\ L = {}
  /\ L_list = <<>>
  /\ supports = EmptyDict

\* A faulty variant: only the items of the first transaction.
SingleItemsets_OfFirst(D) == {{x} : x \in UNION {D[t] : t \in DOMAIN D \cap {1}}}

SingleItemsets(D) == {{x} : x \in UNION {D[t] : t \in DOMAIN D}}

\* All single item itemsets, each once.
CreateC1 ==
  /\ pc = "createC1"
  /\ C' = [S \in SingleItemsets(dataset) |-> 1]
  /\ pc' = "filter"
  /\ UNCHANGED <<dataset, minCount, L, L_list, supports>>

\* supportCounts[S] goes up for every transaction that contains S and every
\* place that S has in the list; an itemset that is never counted has no key.
SupportCounts(cand, D) ==
  [S \in {T \in DOMAIN cand : Count(T, D) > 0} |-> cand[S] * Count(S, D)]

\* A faulty variant: > for >=.
IsLarge_Strict(support) == support > minCount

IsLarge(support) == support >= minCount

\* Count the candidates, keep those that reach the threshold, record both
\* results and test whether the loop goes on.
FilterCToFormL ==
  /\ pc = "filter"
  /\ LET supportL == SupportCounts(C, dataset)
     IN  /\ L' = {S \in DOMAIN supportL : IsLarge(supportL[S])}
         /\ supports' = UpdateDict(supports, supportL)
  /\ L_list' = Append(L_list, L')
  /\ pc' = IF L' = {} THEN "returned" ELSE "merge"
  /\ UNCHANGED <<dataset, minCount, C>>

MergeL ==
  /\ pc = "merge"
  /\ \E last \in Orders : C' = MergeLToFormLargerC(L, last)
  /\ pc' = "filter"
  /\ UNCHANGED <<dataset, minCount, L, L_list, supports>>

Next == CreateC1 \/ FilterCToFormL \/ MergeL

Spec == Init /\ [][Next]_vars

-----------------------------------------------------------------------------
\* The types of the variables.
TypeOK ==
  /\ dataset \in Seq(Itemset)
  /\ minCount \in Nat \ {0}
  /\ pc \in {"createC1", "filter", "merge", "returned"}
  /\ DOMAIN C \subseteq Itemset \ {{}} /\ \A S \in DOMAIN C : C[S] \in Nat
  /\ L \subseteq Itemset
  /\ L_list \in Seq(SUBSET Itemset)
  /\ DOMAIN supports \subseteq Itemset /\ \A S \in DOMAIN supports : supports[S] \in Nat

\* A recorded support is the number of transactions that contain the itemset:
\* no candidate is counted twice, by one merge or by two levels.
SupportsExact ==
  \A S \in DOMAIN supports : supports[S] = Count(S, dataset)

\* Level k of the result is exactly the set of frequent itemsets of k items,
\* although level k+1 is searched only among the merges of level k.
LevelsExact ==
  \A k \in 1 .. Len(L_list) : L_list[k] = FrequentOfSize(k, dataset, minCount)

Listed == UNION {L_list[k] : k \in DOMAIN L_list}

\* The loop stops at the first empty level, and no frequent itemset is larger.
NothingMissed ==
  pc = "returned" => FrequentItemsets(dataset, minCount) \subseteq Listed

\* Every non-empty part of a listed itemset has a support of its own, so that
\* supports[antecedent] in the rule generation never raises KeyError.
AntecedentsSupported ==
  \A S \in Listed : \A A \in SUBSET S : A # {} => A \in DOMAIN supports

\* The loop makes at most one level per item and an empty one: it terminates.
LevelsBounded == Len(L_list) <= Cardinality(Items) + 1

\* The levels implement the miner that FrequentMining specifies.
Mining == INSTANCE FrequentMining
            WITH frequent <- FrequentItemsets(dataset, minCount),
                 found <- Listed,
                 returned <- (pc = "returned")
ImplementsMining == Mining!Spec
=============================================================================
