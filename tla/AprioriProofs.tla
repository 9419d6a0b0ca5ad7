---------------------------- MODULE AprioriProofs ----------------------------
(***************************************************************************)
(* Proofs about generateFrequentItemsets, for every finite set of items,   *)
(* every dataset and every threshold, and then about mineAssociationRules, *)
(* for all of its thresholds, however the comparison of two rounded        *)
(* quotients decides a tie.  The first part never uses OrdersConsistent:   *)
(* its theorems say themselves where orders must be consistent.            *)
(***************************************************************************)
EXTENDS AprioriRules, TLAPS, FiniteSetTheorems

-----------------------------------------------------------------------------
(* Itemsets and their counts. *)

\* An itemset is finite: Items is.
LEMMA ItemsetFinite ==
  ASSUME NEW S \in Itemset
  PROVE  IsFiniteSet(S) /\ Cardinality(S) \in Nat
BY ItemsAssumption, FS_Subset, FS_CardinalityType DEF Itemset

\* A count is a natural number.
LEMMA CountType ==
  ASSUME NEW D \in Seq(Itemset), NEW S
  PROVE  /\ Count(S, D) \in Nat
         /\ IsFiniteSet({t \in DOMAIN D : S \subseteq D[t]})
<1>1. IsFiniteSet(DOMAIN D)
  BY FS_Interval
<1>2. IsFiniteSet({t \in DOMAIN D : S \subseteq D[t]})
  BY <1>1, FS_Subset
<1> QED
  BY <1>2, FS_CardinalityType DEF Count

\* The apriori principle: a part of an itemset is contained in at least as many
\* transactions as the itemset.
LEMMA CountMonotone ==
  ASSUME NEW D \in Seq(Itemset), NEW S, NEW T \in SUBSET S
  PROVE  Count(S, D) <= Count(T, D)
<1> DEFINE In(X) == {t \in DOMAIN D : X \subseteq D[t]}
<1>1. In(S) \in SUBSET In(T)
  OBVIOUS
<1>2. IsFiniteSet(In(T))
  BY CountType
<1>3. Cardinality(In(S)) <= Cardinality(In(T))
  BY <1>1, <1>2, FS_Subset
<1> QED
  BY <1>3 DEF Count

\* A set has a subset of every smaller size.
LEMMA SubsetOfSize ==
  ASSUME NEW S \in Itemset, NEW k \in Nat, k <= Cardinality(S)
  PROVE  \E T \in SUBSET S : Cardinality(T) = k
<1>1. PICK f : f \in Bijection(1 .. Cardinality(S), S)
  BY ItemsetFinite, FS_CardinalityType DEF ExistsBijection
<1> DEFINE T == {f[i] : i \in 1 .. k}
           g == [i \in 1 .. k |-> f[i]]
<1>2. Cardinality(S) \in Nat
  BY ItemsetFinite
<1>3. T \in SUBSET S
  BY <1>1, <1>2 DEF Bijection, Injection, Surjection
<1>4. g \in Bijection(1 .. k, T)
  <2>1. g \in [1 .. k -> T]
    OBVIOUS
  <2>2. \A i, j \in 1 .. Cardinality(S) : f[i] = f[j] => i = j
    BY <1>1 DEF Bijection, Injection, IsInjective
  <2>3. \A i, j \in 1 .. k : g[i] = g[j] => i = j
    BY <1>2, <2>2
  <2>4. \A t \in T : \E i \in 1 .. k : g[i] = t
    OBVIOUS
  <2> HIDE DEF g, T
  <2> QED
    BY <2>1, <2>3, <2>4 DEF Bijection, Injection, Surjection, IsInjective
<1>5. ExistsBijection(1 .. k, T)
  BY <1>4 DEF ExistsBijection
<1>6. IsFiniteSet(1 .. k) /\ Cardinality(1 .. k) = k
  BY FS_Interval
<1>7. Cardinality(T) = k
  BY <1>5, <1>6, FS_Bijection
<1> QED
  BY <1>3, <1>7

-----------------------------------------------------------------------------
(* mergeLToFormLargerC. *)

\* Two different itemsets of k items with the same prefix differ in their last
\* items only, and their union has k+1 items.
LEMMA MergedPair ==
  ASSUME NEW last, IsLastItem(last), NEW k \in Nat \ {0},
         NEW A \in Itemset, NEW B \in Itemset,
         Cardinality(A) = k, Cardinality(B) = k,
         A # B, SamePrefix(A, B, last)
  PROVE  /\ last[A] \in A /\ last[B] \in B
         /\ last[A] \notin B /\ last[B] \notin A
         /\ A = (A \cup B) \ {last[B]} /\ B = (A \cup B) \ {last[A]}
         /\ A \cup B \in Itemset /\ Cardinality(A \cup B) = k + 1
<1>1. IsFiniteSet(A) /\ IsFiniteSet(B)
  BY ItemsetFinite
<1>2. A # {} /\ B # {}
  BY <1>1, FS_EmptySet
<1>3. last[A] \in A /\ last[B] \in B
  BY <1>2 DEF IsLastItem
<1>4. last[A] # last[B]
  BY <1>3 DEF SamePrefix
<1>5. last[A] \notin B /\ last[B] \notin A
  BY <1>3, <1>4 DEF SamePrefix
<1>6. A = (A \cup B) \ {last[B]} /\ B = (A \cup B) \ {last[A]}
  BY <1>3, <1>5 DEF SamePrefix
<1>7. A \cup B = A \cup {last[B]}
  BY <1>3, <1>6
<1>8. Cardinality(A \cup {last[B]}) = k + 1
  BY <1>1, <1>5, FS_AddElement
<1> QED
  BY <1>3, <1>5, <1>6, <1>7, <1>8 DEF Itemset

\* The candidates of a level of k items have k+1 items.
LEMMA MergeSizes ==
  ASSUME NEW last, IsLastItem(last), NEW k \in Nat \ {0},
         NEW M \in SUBSET Itemset, \A A \in M : Cardinality(A) = k,
         NEW S \in MergeResults(M, last)
  PROVE  S \in Itemset /\ Cardinality(S) = k + 1
<1>1. PICK A \in M, B \in M : A # B /\ SamePrefix(A, B, last) /\ S = A \cup B
  BY DEF MergeResults
<1>2. A \in Itemset /\ B \in Itemset /\ Cardinality(A) = k /\ Cardinality(B) = k
  OBVIOUS
<1> QED
  BY <1>1, <1>2, MergedPair

\* With a consistent order a candidate is made by one pair only.
LEMMA MergeOnce ==
  ASSUME NEW last, IsLastItem(last), ConsistentOrder(last), NEW k \in Nat \ {0},
         NEW M \in SUBSET Itemset, \A A \in M : Cardinality(A) = k,
         NEW S \in MergeResults(M, last)
  PROVE  Cardinality(MergedInto(S, M, last)) = 1
<1> DEFINE First  == S \ {last[S]}
           Second == S \ {last[First]}
<1>1. ASSUME NEW A \in M, NEW B \in M, A # B, SamePrefix(A, B, last), A \cup B = S
      PROVE  {A, B} = {First, Second}
  <2>1. A \in Itemset /\ B \in Itemset /\ Cardinality(A) = k /\ Cardinality(B) = k
    OBVIOUS
  <2>2. /\ last[A] \in A /\ last[B] \in B
        /\ last[A] \notin B /\ last[B] \notin A
        /\ A = S \ {last[B]} /\ B = S \ {last[A]} /\ S \in Itemset
    BY <1>1, <2>1, MergedPair
  <2>3. last[S] \in S
    BY <2>2, <1>1 DEF IsLastItem
  <2>4. CASE last[S] \in A
    <3>1. last[A] = last[S]
      BY <2>1, <2>2, <2>4 DEF ConsistentOrder
    <3>2. B = First
      BY <2>2, <3>1
    <3>3. A = Second
      BY <2>2, <3>2
    <3> QED
      BY <3>2, <3>3
  <2>5. CASE last[S] \in B
    <3>1. last[B] = last[S]
      BY <2>1, <2>2, <2>5 DEF ConsistentOrder
    <3>2. A = First
      BY <2>2, <3>1
    <3>3. B = Second
      BY <2>2, <3>2
    <3> QED
      BY <3>2, <3>3
  <2> QED
    BY <1>1, <2>3, <2>4, <2>5
<1>2. MergedInto(S, M, last) \subseteq {{First, Second}}
  BY <1>1 DEF MergedInto
<1>3. MergedInto(S, M, last) # {}
  <2>1. PICK q \in M \X M : q[1] # q[2] /\ SamePrefix(q[1], q[2], last) /\ S = q[1] \cup q[2]
    BY DEF MergeResults
  <2>2. {q[1], q[2]} \in MergedInto(S, M, last)
    BY <2>1 DEF MergedInto
  <2> QED
    BY <2>2
<1>4. MergedInto(S, M, last) = {{First, Second}}
  BY <1>2, <1>3
<1> QED
  BY <1>4, FS_Singleton

\* With a consistent order every itemset all of whose parts of one item less
\* are in the level is a candidate.
LEMMA MergeComplete ==
  ASSUME NEW last, IsLastItem(last), ConsistentOrder(last), NEW k \in Nat \ {0},
         NEW M \in SUBSET Itemset,
         NEW S \in Itemset, Cardinality(S) = k + 1,
         \A x \in S : S \ {x} \in M
  PROVE  S \in MergeResults(M, last)
<1> DEFINE A == S \ {last[S]}
           B == S \ {last[A]}
<1>1. IsFiniteSet(S) /\ S # {}
  BY ItemsetFinite, FS_EmptySet
<1>2. last[S] \in S
  BY <1>1 DEF IsLastItem
<1>3. Cardinality(A) = k
  <2>1. Cardinality(S \ {last[S]}) = Cardinality(S) - 1
    BY <1>1, <1>2, FS_RemoveElement
  <2> QED
    BY <2>1
<1>4. A # {}
  BY <1>3, FS_EmptySet
<1>5. last[A] \in A
  BY <1>4 DEF IsLastItem, Itemset
<1>6. last[S] \in B
  BY <1>2, <1>5
<1>7. last[B] = last[S]
  BY <1>1, <1>6 DEF ConsistentOrder, Itemset
<1>8. SamePrefix(A, B, last)
  BY <1>7 DEF SamePrefix
<1>9. A # B /\ A \cup B = S
  BY <1>2, <1>5, <1>6
<1>10. A \in M /\ B \in M
  BY <1>2, <1>5
<1> HIDE DEF A, B
<1> DEFINE q == <<A, B>>
<1>11. q \in M \X M /\ q[1] = A /\ q[2] = B
  BY <1>10
<1> HIDE DEF q
<1> QED
  BY <1>8, <1>9, <1>11 DEF MergeResults

-----------------------------------------------------------------------------
(* The inductive invariant. *)

\* The candidates about to be counted are in the list once each, have one item
\* more than the last level, and include every frequent itemset of that size.
CandidatesOK ==
  pc = "filter" =>
    /\ \A S \in DOMAIN C : C[S] = 1 /\ Cardinality(S) = Len(L_list) + 1
    /\ FrequentOfSize(Len(L_list) + 1, dataset, minCount) \subseteq DOMAIN C

\* Where the loop stands: no level before the first call of filterCToFormL, the
\* current level is the last one of the list, and only the level at which the
\* loop stopped is empty.
LoopOK ==
  /\ pc = "createC1" => L_list = <<>>
  /\ pc \in {"merge", "returned"} => L_list # <<>> /\ L = L_list[Len(L_list)]
  /\ \A k \in 1 .. Len(L_list) : L_list[k] = {} => k = Len(L_list) /\ pc = "returned"
  /\ pc = "returned" => L = {}

\* Every listed itemset has a support.
ListedSupported ==
  \A k \in 1 .. Len(L_list) : L_list[k] \subseteq DOMAIN supports

IndInv ==
  /\ TypeOK
  /\ SupportsExact
  /\ LevelsExact
  /\ CandidatesOK
  /\ LoopOK
  /\ ListedSupported

\* The first call of createC1 finds no level and no support.
LEMMA InitIndInv == Init => IndInv
<1> SUFFICES ASSUME Init PROVE IndInv
  OBVIOUS
<1>1. TypeOK
  BY DatasetsAssumption, MinCountsAssumption DEF Init, TypeOK, EmptyDict
<1>2. SupportsExact /\ LevelsExact /\ CandidatesOK /\ LoopOK /\ ListedSupported
  BY DEF Init, SupportsExact, LevelsExact, CandidatesOK, LoopOK, ListedSupported, EmptyDict
<1> QED
  BY <1>1, <1>2 DEF IndInv

\* createC1 puts every item of a transaction into a candidate of its own, and
\* only those items can be frequent.
LEMMA CreateC1IndInv == IndInv /\ CreateC1 => IndInv'
<1> SUFFICES ASSUME IndInv, CreateC1 PROVE IndInv'
  OBVIOUS
<1> USE DEF CreateC1, SingleItemsets
<1> DEFINE Occurring == UNION {dataset[t] : t \in DOMAIN dataset}
<1>1. L_list = <<>> /\ dataset \in Seq(Itemset) /\ minCount \in Nat \ {0}
  BY DEF IndInv, LoopOK, TypeOK
<1>2. Occurring \subseteq Items
  BY <1>1 DEF Itemset
<1>3. DOMAIN C' = {{x} : x \in Occurring} /\ \A S \in DOMAIN C' : C'[S] = 1
  OBVIOUS
<1>4. \A S \in DOMAIN C' : S \in Itemset /\ Cardinality(S) = 1
  BY <1>2, <1>3, FS_Singleton DEF Itemset
<1>5. ASSUME NEW S \in FrequentOfSize(1, dataset, minCount)
      PROVE  S \in DOMAIN C'
  <2>1. S \in Itemset /\ Cardinality(S) = 1 /\ Count(S, dataset) > 0
    <3>1. Count(S, dataset) \in Nat
      BY <1>1, CountType
    <3>2. S \in Itemset /\ Cardinality(S) = 1 /\ Count(S, dataset) >= minCount
      BY DEF FrequentOfSize, IsFrequent
    <3> QED
      BY <3>1, <3>2, <1>1
  <2>2. PICK x : S = {x}
    BY <2>1, ItemsetFinite, FS_Singleton
  <2>3. {t \in DOMAIN dataset : S \subseteq dataset[t]} # {}
    BY <2>1, FS_EmptySet DEF Count
  <2>4. x \in Occurring
    BY <2>2, <2>3
  <2> QED
    BY <1>3, <2>2, <2>4
<1>6. CandidatesOK'
  BY <1>1, <1>3, <1>4, <1>5 DEF CandidatesOK
<1>7. TypeOK'
  BY <1>3, <1>4 DEF IndInv, TypeOK
<1>8. (SupportsExact /\ LevelsExact /\ LoopOK /\ ListedSupported)'
  BY <1>1 DEF IndInv, SupportsExact, LevelsExact, LoopOK, ListedSupported
<1> QED
  BY <1>6, <1>7, <1>8 DEF IndInv

\* filterCToFormL turns the candidates of one size into the frequent itemsets
\* of that size.
LEMMA FilterIndInv == IndInv /\ FilterCToFormL => IndInv'
<1> SUFFICES ASSUME IndInv, FilterCToFormL PROVE IndInv'
  OBVIOUS
<1> USE DEF FilterCToFormL, IsLarge
<1> DEFINE supportL == SupportCounts(C, dataset)
           n == Len(L_list)
<1>1. /\ dataset \in Seq(Itemset) /\ minCount \in Nat \ {0}
      /\ DOMAIN C \subseteq Itemset
      /\ L_list \in Seq(SUBSET Itemset)
  BY DEF IndInv, TypeOK
<1>2. /\ DOMAIN supportL \subseteq DOMAIN C
      /\ \A S \in DOMAIN supportL : supportL[S] = Count(S, dataset)
      /\ \A S \in DOMAIN C : S \in DOMAIN supportL <=> Count(S, dataset) > 0
  <2>1. supportL = [S \in {T \in DOMAIN C : Count(T, dataset) > 0} |-> C[S] * Count(S, dataset)]
    BY DEF SupportCounts
  <2>2. DOMAIN supportL = {T \in DOMAIN C : Count(T, dataset) > 0}
    BY <2>1
  <2>3. ASSUME NEW S \in DOMAIN supportL PROVE supportL[S] = Count(S, dataset)
    <3>1. supportL[S] = C[S] * Count(S, dataset)
      BY <2>1
    <3>2. C[S] = 1
      BY <2>2 DEF IndInv, CandidatesOK
    <3>3. Count(S, dataset) \in Nat
      BY <1>1, CountType
    <3> QED
      BY <3>1, <3>2, <3>3
  <2> QED
    BY <2>2, <2>3
<1>3. L' = {S \in DOMAIN supportL : supportL[S] >= minCount}
  OBVIOUS
<1>4. supports' = UpdateDict(supports, supportL)
  OBVIOUS
<1> HIDE DEF supportL
<1>5. L' = FrequentOfSize(n + 1, dataset, minCount)
  <2>1. ASSUME NEW S \in L' PROVE S \in FrequentOfSize(n + 1, dataset, minCount)
    BY <1>1, <1>2, <1>3 DEF FrequentOfSize, IsFrequent, IndInv, CandidatesOK
  <2>2. ASSUME NEW S \in FrequentOfSize(n + 1, dataset, minCount) PROVE S \in L'
    <3>1. S \in DOMAIN C /\ Count(S, dataset) >= minCount
      BY DEF FrequentOfSize, IsFrequent, IndInv, CandidatesOK
    <3>2. Count(S, dataset) \in Nat
      BY <1>1, CountType
    <3>3. Count(S, dataset) > 0
      BY <3>1, <3>2, <1>1
    <3> QED
      BY <3>1, <3>3, <1>2, <1>3
  <2> QED
    BY <2>1, <2>2
<1>6. /\ L_list' \in Seq(SUBSET Itemset)
      /\ Len(L_list') = n + 1
      /\ L_list'[n + 1] = L'
      /\ \A k \in 1 .. n : L_list'[k] = L_list[k]
  BY <1>1, <1>5 DEF FrequentOfSize
<1>7. n \in Nat
  BY <1>1
<1>8. /\ DOMAIN supports' = DOMAIN supports \cup DOMAIN supportL
      /\ \A S \in DOMAIN supports' : supports'[S] = Count(S, dataset)
  BY <1>2, <1>4 DEF UpdateDict, IndInv, SupportsExact
<1>9. TypeOK'
  <2>1. ASSUME NEW S \in DOMAIN supports' PROVE S \in Itemset /\ supports'[S] \in Nat
    <3>1. S \in DOMAIN supports \/ S \in DOMAIN C
      BY <1>2, <1>8
    <3>2. S \in Itemset
      BY <3>1, <1>1 DEF IndInv, TypeOK
    <3>3. supports'[S] = Count(S, dataset) /\ Count(S, dataset) \in Nat
      BY <1>1, <1>8, CountType
    <3> QED
      BY <3>2, <3>3
  <2>2. L' \subseteq Itemset
    BY <1>5 DEF FrequentOfSize
  <2> QED
    BY <2>1, <2>2, <1>6 DEF IndInv, TypeOK
<1>10. SupportsExact'
  BY <1>8 DEF SupportsExact
<1>11. LevelsExact'
  BY <1>5, <1>6, <1>7 DEF IndInv, LevelsExact
<1>12. CandidatesOK'
  BY DEF CandidatesOK
<1>13. LoopOK'
  BY <1>6, <1>7 DEF IndInv, LoopOK
<1>14. ListedSupported'
  <2>1. L' \subseteq DOMAIN supports'
    BY <1>3, <1>8
  <2> QED
    BY <2>1, <1>6, <1>7, <1>8 DEF IndInv, ListedSupported
<1> QED
  BY <1>9, <1>10, <1>11, <1>12, <1>13, <1>14 DEF IndInv

\* mergeLToFormLargerC finds every frequent itemset of the next size, because
\* all its parts of the current size are in the current level.
LEMMA MergeIndInv ==
  ASSUME \A last \in Orders : ConsistentOrder(last)
  PROVE  IndInv /\ MergeL => IndInv'
<1> SUFFICES ASSUME IndInv, MergeL PROVE IndInv'
  OBVIOUS
<1> USE DEF MergeL
<1> DEFINE k == Len(L_list)
<1>1. PICK last \in Orders : C' = MergeLToFormLargerC(L, last)
  OBVIOUS
<1>2. IsLastItem(last) /\ ConsistentOrder(last)
  BY OrdersAssumption
<1>3. /\ dataset \in Seq(Itemset) /\ minCount \in Nat \ {0}
      /\ L_list \in Seq(SUBSET Itemset) /\ L_list # <<>>
      /\ L = L_list[k]
  BY DEF IndInv, TypeOK, LoopOK
<1>4. k \in Nat \ {0} /\ k \in 1 .. Len(L_list)
  BY <1>3
<1>5. L = FrequentOfSize(k, dataset, minCount)
  BY <1>3, <1>4 DEF IndInv, LevelsExact
<1>6. L \in SUBSET Itemset /\ \A A \in L : Cardinality(A) = k
  BY <1>5 DEF FrequentOfSize
<1>7. DOMAIN C' = MergeResults(L, last)
  BY <1>1 DEF MergeLToFormLargerC
<1> HIDE DEF k
<1>8. ASSUME NEW S \in DOMAIN C'
      PROVE  S \in Itemset /\ Cardinality(S) = k + 1 /\ C'[S] = 1
  <2>1. S \in MergeResults(L, last)
    BY <1>7
  <2>2. C'[S] = Cardinality(MergedInto(S, L, last))
    BY <1>1, <2>1 DEF MergeLToFormLargerC
  <2> QED
    BY <2>1, <2>2, <1>2, <1>4, <1>6, MergeSizes, MergeOnce
<1>9. ASSUME NEW S \in FrequentOfSize(k + 1, dataset, minCount)
      PROVE  S \in DOMAIN C'
  <2>1. S \in Itemset /\ Cardinality(S) = k + 1 /\ Count(S, dataset) >= minCount
    BY DEF FrequentOfSize, IsFrequent
  <2>2. ASSUME NEW x \in S PROVE S \ {x} \in L
    <3>1. Cardinality(S \ {x}) = Cardinality(S) - 1
      BY <2>1, ItemsetFinite, FS_RemoveElement
    <3>2. Cardinality(S \ {x}) = k
      BY <3>1, <2>1, <1>4
    <3>3. Count(S, dataset) <= Count(S \ {x}, dataset)
      BY <1>3, CountMonotone
    <3>4. Count(S \ {x}, dataset) \in Nat /\ Count(S, dataset) \in Nat
      BY <1>3, CountType
    <3>5. Count(S \ {x}, dataset) >= minCount
      BY <3>3, <3>4, <2>1, <1>3
    <3> QED
      BY <3>2, <3>5, <2>1, <1>5 DEF FrequentOfSize, IsFrequent, Itemset
  <2> QED
    BY <2>1, <2>2, <1>2, <1>4, <1>6, <1>7, MergeComplete
<1>10. CandidatesOK'
  BY <1>8, <1>9 DEF CandidatesOK, k
<1>11. TypeOK'
  <2>1. ASSUME NEW S \in DOMAIN C' PROVE S # {}
    <3>1. Cardinality(S) = k + 1 /\ k + 1 # 0
      BY <1>4, <1>8
    <3> QED
      BY <3>1, FS_EmptySet
  <2>2. \A S \in DOMAIN C' : S \in Itemset \ {{}} /\ C'[S] \in Nat
    BY <1>8, <2>1
  <2> QED
    BY <2>2 DEF IndInv, TypeOK
<1>12. (SupportsExact /\ LevelsExact /\ LoopOK /\ ListedSupported)'
  <2>1. pc' = "filter" /\ pc = "merge" /\ UNCHANGED <<dataset, minCount, L, L_list, supports>>
    OBVIOUS
  <2> QED
    BY <2>1 DEF IndInv, SupportsExact, LevelsExact, LoopOK, ListedSupported
<1> QED
  BY <1>10, <1>11, <1>12 DEF IndInv

\* When every frozenset of a merge is iterated in one order, every step keeps the
\* invariant.
LEMMA NextIndInv ==
  ASSUME \A last \in Orders : ConsistentOrder(last), IndInv, [Next]_vars
  PROVE  IndInv'
<1>1. CASE CreateC1
  BY <1>1, CreateC1IndInv
<1>2. CASE FilterCToFormL
  BY <1>2, FilterIndInv
<1>3. CASE MergeL
  BY <1>3, MergeIndInv
<1>4. CASE UNCHANGED vars
  BY <1>4 DEF vars, IndInv, TypeOK, SupportsExact, LevelsExact, CandidatesOK, LoopOK, ListedSupported
<1> QED
  BY <1>1, <1>2, <1>3, <1>4 DEF Next

\* The invariant holds all along.
THEOREM IndInvHolds ==
  ASSUME \A last \in Orders : ConsistentOrder(last)
  PROVE  Spec => []IndInv
<1>1. Init => IndInv
  BY InitIndInv
<1>2. IndInv /\ [Next]_vars => IndInv'
  BY NextIndInv
<1> QED
  BY <1>1, <1>2, PTL DEF Spec

-----------------------------------------------------------------------------
(* What the invariant implies. *)

\* A frequent itemset is found at the level of its size; a level beyond the
\* first empty one would need a frequent itemset in the empty level.
LEMMA IndInvNothingMissed == IndInv => NothingMissed
<1> SUFFICES ASSUME IndInv, pc = "returned",
                    NEW S \in FrequentItemsets(dataset, minCount)
             PROVE  S \in Listed
  BY DEF NothingMissed
<1> DEFINE n == Len(L_list)
           s == Cardinality(S)
<1>1. /\ dataset \in Seq(Itemset) /\ minCount \in Nat \ {0}
      /\ L_list \in Seq(SUBSET Itemset) /\ L_list # <<>>
      /\ L_list[n] = {}
  BY DEF IndInv, TypeOK, LoopOK
<1>2. n \in Nat \ {0} /\ n \in 1 .. Len(L_list) /\ DOMAIN L_list = 1 .. n
  BY <1>1
<1>3. S \in Itemset /\ S # {} /\ Count(S, dataset) >= minCount
  BY DEF FrequentItemsets, IsFrequent
<1>4. s \in Nat \ {0}
  BY <1>3, ItemsetFinite, FS_EmptySet
<1>5. CASE s <= n
  <2>1. s \in 1 .. Len(L_list)
    BY <1>2, <1>4, <1>5
  <2>2. L_list[s] = FrequentOfSize(s, dataset, minCount)
    BY <2>1 DEF IndInv, LevelsExact
  <2>3. S \in L_list[s]
    BY <2>2, <1>3 DEF FrequentOfSize, IsFrequent
  <2> QED
    BY <2>1, <2>3, <1>2 DEF Listed
<1>6. CASE n < s
  <2>1. PICK T \in SUBSET S : Cardinality(T) = n
    BY <1>2, <1>3, <1>4, <1>6, SubsetOfSize
  <2>2. Count(S, dataset) <= Count(T, dataset)
    BY <1>1, CountMonotone
  <2>3. Count(S, dataset) \in Nat /\ Count(T, dataset) \in Nat
    BY <1>1, CountType
  <2>4. T \in FrequentOfSize(n, dataset, minCount)
    BY <2>1, <2>2, <2>3, <1>1, <1>3 DEF FrequentOfSize, IsFrequent, Itemset
  <2>5. L_list[n] = FrequentOfSize(n, dataset, minCount)
    BY <1>2 DEF IndInv, LevelsExact
  <2> QED
    BY <2>4, <2>5, <1>1
<1> QED
  BY <1>2, <1>4, <1>5, <1>6

\* A part of a listed itemset is frequent, so it was listed at a lower level.
LEMMA IndInvAntecedents == IndInv => AntecedentsSupported
<1> SUFFICES ASSUME IndInv,
                    NEW S \in Listed, NEW A \in SUBSET S, A # {}
             PROVE  A \in DOMAIN supports
  BY DEF AntecedentsSupported
<1> DEFINE a == Cardinality(A)
<1>1. dataset \in Seq(Itemset) /\ minCount \in Nat \ {0} /\ L_list \in Seq(SUBSET Itemset)
  BY DEF IndInv, TypeOK
<1>2. PICK k \in 1 .. Len(L_list) : S \in L_list[k]
  BY <1>1 DEF Listed
<1>3. S \in Itemset /\ Cardinality(S) = k /\ Count(S, dataset) >= minCount
  BY <1>2 DEF IndInv, LevelsExact, FrequentOfSize, IsFrequent
<1>4. A \in Itemset
  BY <1>3 DEF Itemset
<1>5. a \in Nat \ {0} /\ a <= k
  <2>1. IsFiniteSet(S) /\ IsFiniteSet(A) /\ a \in Nat
    BY <1>3, <1>4, ItemsetFinite
  <2>2. a # 0
    BY <2>1, FS_EmptySet
  <2>3. a <= Cardinality(S)
    BY <2>1, FS_Subset
  <2> QED
    BY <2>1, <2>2, <2>3, <1>3
<1>6. Count(S, dataset) <= Count(A, dataset)
  BY <1>1, CountMonotone
<1>7. Count(S, dataset) \in Nat /\ Count(A, dataset) \in Nat
  BY <1>1, CountType
<1>8. A \in FrequentOfSize(a, dataset, minCount)
  BY <1>1, <1>3, <1>4, <1>6, <1>7 DEF FrequentOfSize, IsFrequent
<1>9. a \in 1 .. Len(L_list)
  BY <1>1, <1>2, <1>5
<1>10. A \in L_list[a]
  BY <1>8, <1>9 DEF IndInv, LevelsExact
<1> QED
  BY <1>9, <1>10 DEF IndInv, ListedSupported

\* A level that is not empty holds an itemset of its size.
LEMMA IndInvBounded == IndInv => LevelsBounded
<1> SUFFICES ASSUME IndInv PROVE LevelsBounded
  OBVIOUS
<1> DEFINE n == Len(L_list)
<1>1. L_list \in Seq(SUBSET Itemset) /\ n \in Nat
  BY DEF IndInv, TypeOK
<1>2. Cardinality(Items) \in Nat
  BY ItemsAssumption, FS_CardinalityType
<1>3. CASE n <= 1
  BY <1>1, <1>2, <1>3 DEF LevelsBounded
<1>4. CASE n > 1
  <2>1. n - 1 \in 1 .. Len(L_list)
    BY <1>1, <1>4
  <2>2. L_list[n - 1] # {}
    BY <2>1, <1>1, <1>4 DEF IndInv, LoopOK
  <2>3. PICK S \in L_list[n - 1] : TRUE
    BY <2>2
  <2>4. S \in Itemset /\ Cardinality(S) = n - 1
    BY <2>1, <2>3 DEF IndInv, LevelsExact, FrequentOfSize
  <2>5. Cardinality(S) <= Cardinality(Items)
    BY <2>4, ItemsAssumption, FS_Subset DEF Itemset
  <2> QED
    BY <2>4, <2>5, <1>1, <1>2 DEF LevelsBounded
<1> QED
  BY <1>1, <1>3, <1>4

-----------------------------------------------------------------------------
(* The theorems. *)

\* The variables keep their types.
THEOREM TypeCorrect ==
  ASSUME \A last \in Orders : ConsistentOrder(last)
  PROVE  Spec => []TypeOK
<1>1. IndInv => TypeOK
  BY DEF IndInv
<1> QED
  BY <1>1, IndInvHolds, PTL

\* Every support that is recorded counts every transaction once.
THEOREM SupportsAreExact ==
  ASSUME \A last \in Orders : ConsistentOrder(last)
  PROVE  Spec => []SupportsExact
<1>1. IndInv => SupportsExact
  BY DEF IndInv
<1> QED
  BY <1>1, IndInvHolds, PTL

\* Every level is the set of the frequent itemsets of its size.
THEOREM LevelsAreExact ==
  ASSUME \A last \in Orders : ConsistentOrder(last)
  PROVE  Spec => []LevelsExact
<1>1. IndInv => LevelsExact
  BY DEF IndInv
<1> QED
  BY <1>1, IndInvHolds, PTL

\* When generateFrequentItemsets returns it has listed every frequent itemset.
THEOREM NothingIsMissed ==
  ASSUME \A last \in Orders : ConsistentOrder(last)
  PROVE  Spec => []NothingMissed
BY IndInvNothingMissed, IndInvHolds, PTL

\* supports has a key for every antecedent that the rule generation looks up.
THEOREM AntecedentsAreSupported ==
  ASSUME \A last \in Orders : ConsistentOrder(last)
  PROVE  Spec => []AntecedentsSupported
BY IndInvAntecedents, IndInvHolds, PTL

\* The loop ends after at most one level per item and the empty one.
THEOREM LevelsAreBounded ==
  ASSUME \A last \in Orders : ConsistentOrder(last)
  PROVE  Spec => []LevelsBounded
BY IndInvBounded, IndInvHolds, PTL

\* The levels are a frequent-itemset miner: each step of the loop reports
\* frequent itemsets or nothing, and returns only after reporting all of them.
THEOREM AprioriImplementsMining ==
  ASSUME \A last \in Orders : ConsistentOrder(last)
  PROVE  Spec => ImplementsMining
<1>1. Init => Mining!Init
  BY DEF Init, Mining!Init, Listed
<1>2. IndInv /\ IndInv' /\ NothingMissed' /\ [Next]_vars => [Mining!Report]_(Mining!vars)
  <2> SUFFICES ASSUME IndInv, IndInv', NothingMissed', [Next]_vars
               PROVE  Mining!Report \/ UNCHANGED Mining!vars
    OBVIOUS
  <2>1. CASE FilterCToFormL
    <3> USE <2>1 DEF FilterCToFormL, IsLarge
    <3>1. L_list \in Seq(SUBSET Itemset) /\ L_list' = Append(L_list, L')
      BY DEF IndInv, TypeOK
    <3>2. Listed \subseteq Listed'
      BY <3>1 DEF Listed
    <3>3. ASSUME NEW S \in Listed' PROVE S \in FrequentItemsets(dataset, minCount)
      <4>1. PICK k \in 1 .. Len(L_list') : S \in L_list'[k]
        BY <3>1 DEF Listed, IndInv, TypeOK
      <4>2. S \in Itemset /\ Cardinality(S) = k /\ IsFrequent(S, dataset, minCount)
        BY <4>1 DEF IndInv, LevelsExact, FrequentOfSize
      <4>3. k # 0
        BY <3>1
      <4>4. S # {}
        BY <4>2, <4>3, FS_EmptySet
      <4> QED
        BY <4>2, <4>4 DEF FrequentItemsets
    <3>4. pc' = "returned" => Listed' = FrequentItemsets(dataset, minCount)
      BY <3>3 DEF NothingMissed
    <3>5. UNCHANGED FrequentItemsets(dataset, minCount)
      OBVIOUS
    <3>6. pc # "returned" /\ (pc' = "returned") \in BOOLEAN
      OBVIOUS
    <3>7. Listed' \subseteq FrequentItemsets(dataset, minCount)
      BY <3>3
    <3> QED
      BY ONLY <3>2, <3>4, <3>5, <3>6, <3>7 DEF Mining!Report
  <2>2. CASE CreateC1 \/ MergeL \/ UNCHANGED vars
    BY <2>2 DEF CreateC1, MergeL, vars, Mining!vars, Listed
  <2> QED
    BY <2>1, <2>2 DEF Next
<1>3. IndInv => NothingMissed
  BY IndInvNothingMissed
<1> QED
  BY <1>1, <1>2, <1>3, IndInvHolds, PTL DEF Spec, ImplementsMining, Mining!Spec

-----------------------------------------------------------------------------
(* Rules and their confidence. *)

\* H is a consequent that the itemset S may have.
Consequent(S, H) == H \in Itemset /\ H # {} /\ H \subseteq S /\ H # S

\* The rule of S with the consequent H is above minConf, or on it for sure.
Confident(S, H) ==
  \/ Above(Count(S, dataset), Count(S \ H, dataset))
  \/ TieIsExact /\ Equal(Count(S, dataset), Count(S \ H, dataset))

\* A possible rule is given by a frequent itemset and one of its consequents.
LEMMA PossibleRule ==
  ASSUME NEW r
  PROVE  r \in PossibleRules <=> \E S \in Listed : \E H : Consequent(S, H) /\ r = <<S \ H, H>>
<1> DEFINE Pairs == {p \in Listed \X (Itemset \ {{}}) : p[2] \subseteq p[1] /\ p[2] # p[1]}
<1>1. PossibleRules = {<<q[1] \ q[2], q[2]>> : q \in Pairs}
  BY DEF PossibleRules
<1>2. ASSUME NEW q \in Pairs, r = <<q[1] \ q[2], q[2]>>
      PROVE  q[1] \in Listed /\ Consequent(q[1], q[2])
  BY <1>2 DEF Consequent
<1>3. ASSUME NEW S \in Listed, NEW H, Consequent(S, H), r = <<S \ H, H>>
      PROVE  r \in PossibleRules
  <2>1. <<S, H>> \in Listed \X (Itemset \ {{}})
    BY <1>3 DEF Consequent
  <2>2. <<S, H>>[1] = S /\ <<S, H>>[2] = H
    OBVIOUS
  <2>3. <<S, H>> \in Pairs
    BY <1>3, <2>1, <2>2 DEF Consequent
  <2> QED
    BY <1>1, <1>3, <2>2, <2>3
<1> HIDE DEF Pairs
<1>4. ASSUME r \in PossibleRules
      PROVE  \E S \in Listed : \E H : Consequent(S, H) /\ r = <<S \ H, H>>
  <2>1. PICK q \in Pairs : r = <<q[1] \ q[2], q[2]>>
    BY <1>1, <1>4
  <2> QED
    BY <1>2, <2>1
<1> QED
  BY <1>3, <1>4

\* The itemset and the consequent of a rule.
LEMMA RuleParts ==
  ASSUME NEW S \in Itemset, NEW H, Consequent(S, H)
  PROVE  /\ <<S \ H, H>>[1] = S \ H /\ <<S \ H, H>>[2] = H
         /\ (S \ H) \cup H = S
         /\ S \ H \in Itemset /\ S \ H # {}
BY DEF Consequent, Itemset

\* A smaller consequent gives a rule that is at least as confident: its
\* antecedent is larger.
LEMMA ConfidentMonotone ==
  ASSUME dataset \in Seq(Itemset), minConf \in MinConfs,
         NEW S \in Itemset, NEW H, NEW T \in SUBSET H, Confident(S, H)
  PROVE  Confident(S, T)
<1> DEFINE a == Count(S \ H, dataset)
           b == Count(S \ T, dataset)
           w == Count(S, dataset)
<1>1. a \in Nat /\ b \in Nat /\ w \in Nat
  BY CountType
<1>2. b <= a
  BY CountMonotone
<1>3. minConf[1] \in Nat /\ minConf[2] \in Nat
  BY MinConfsAssumption
<1>4. \/ w * minConf[2] > minConf[1] * a
      \/ TieIsExact /\ w * minConf[2] = minConf[1] * a
  BY DEF Confident, Above, Equal
<1> HIDE DEF a, b, w
<1> DEFINE m == minConf[1]
           n == w * minConf[2]
<1>5. m \in Nat /\ n \in Nat
  BY <1>1, <1>3
<1>6. n > m * a \/ (TieIsExact /\ n = m * a)
  BY <1>4
<1> HIDE DEF m, n
<1>7. m * b <= m * a /\ m * b \in Nat /\ m * a \in Nat
  BY <1>1, <1>2, <1>5
<1>8. n > m * b \/ (TieIsExact /\ n = m * b)
  <2>1. CASE n > m * a
    BY <1>5, <1>7, <2>1
  <2>2. CASE TieIsExact /\ n = m * a
    <3>1. n > m * b \/ n = m * b
      BY <1>5, <1>7, <2>2
    <3> QED BY <2>2, <3>1
  <2> QED BY <1>6, <2>1, <2>2
<1> QED
  BY <1>8 DEF Confident, Above, Equal, b, w, m, n

-----------------------------------------------------------------------------
(* The inductive invariant. *)

\* Where the three loops stand: over the levels, over the itemsets of a level
\* and over the sizes of the consequents of an itemset.
PositionOK ==
  /\ minConf \in MinConfs
  /\ rpc \in {"nextLevel", "nextItemset", "filter", "returned"}
  /\ level \in Nat \ {0}
  /\ pc # "returned" => rpc = "nextLevel" /\ level = 1 /\ rules = EmptyDict
  /\ pc = "returned" => level <= Len(L_list)
  /\ rpc \in {"nextLevel", "returned"} => pending = {}
  /\ rpc \in {"nextItemset", "filter"} => level > 1 /\ pending \subseteq L_list[level]
  /\ rpc = "filter" => itemset \in L_list[level] /\ itemset \notin pending
  /\ rpc = "returned" => pc = "returned" /\ level = Len(L_list)

\* The candidate consequents have one size, which leaves an antecedent, are in
\* the list HC once each, and include every one of their size whose rule is
\* above minConf.
ConsequentsOK ==
  rpc = "filter" =>
    /\ sizeConsequent \in Nat /\ 0 < sizeConsequent /\ sizeConsequent < level
    /\ \A H \in DOMAIN HC :
         HC[H] = 1 /\ H \subseteq itemset /\ Cardinality(H) = sizeConsequent
    /\ \A H \in SUBSET itemset :
         Cardinality(H) = sizeConsequent /\ Confident(itemset, H) => H \in DOMAIN HC

\* The rule of S with the consequent H has had its turn: the loops have been at
\* S, and at the size of H if they are at S now.
HadTurn(S, H) ==
  /\ Cardinality(S) <= level
  /\ S \notin pending
  /\ rpc = "filter" /\ S = itemset => Cardinality(H) < sizeConsequent

\* The rules are rules that have had their turn, once each and none below
\* minConf, and all of these that are above minConf.
ListedOK ==
  /\ \A r \in DOMAIN rules :
       /\ rules[r] = 1
       /\ Above(TrueWhole(r), TruePart(r)) \/ Equal(TrueWhole(r), TruePart(r))
       /\ r \in PossibleRules
       /\ HadTurn(r[1] \cup r[2], r[2])
  /\ \A S \in Listed : \A H \in SUBSET S :
       Consequent(S, H) /\ HadTurn(S, H) /\ Confident(S, H) => <<S \ H, H>> \in DOMAIN rules

RulesIndInv ==
  /\ IndInv
  /\ PositionOK
  /\ ConsequentsOK
  /\ ListedOK

\* What the levels hold, and what the supports say of it.
LEMMA ListedFacts ==
  ASSUME IndInv
  PROVE  /\ dataset \in Seq(Itemset) /\ Len(L_list) \in Nat
         /\ \A k \in 1 .. Len(L_list) : \A S \in L_list[k] : S \in Listed /\ Cardinality(S) = k
         /\ \A S \in Listed :
              /\ S \in Itemset /\ Cardinality(S) \in 1 .. Len(L_list)
              /\ S \in L_list[Cardinality(S)]
              /\ \A A \in SUBSET S : A # {} => A \in DOMAIN supports /\ supports[A] = Count(A, dataset)
<1>1. dataset \in Seq(Itemset) /\ L_list \in Seq(SUBSET Itemset) /\ Len(L_list) \in Nat
  BY DEF IndInv, TypeOK
<1>2. DOMAIN L_list = 1 .. Len(L_list)
  BY <1>1
<1>3. \A k \in 1 .. Len(L_list) : \A S \in L_list[k] : S \in Itemset /\ Cardinality(S) = k
  BY DEF IndInv, LevelsExact, FrequentOfSize
<1>4. \A S \in Listed : \E k \in 1 .. Len(L_list) : S \in L_list[k]
  BY <1>2 DEF Listed
<1>5. \A k \in 1 .. Len(L_list) : \A S \in L_list[k] : S \in Listed
  BY <1>2 DEF Listed
<1>6. AntecedentsSupported /\ SupportsExact
  BY IndInvAntecedents DEF IndInv
<1>7. \A S \in Listed : \A A \in SUBSET S : A # {} => A \in DOMAIN supports /\ supports[A] = Count(A, dataset)
  BY <1>6 DEF AntecedentsSupported, SupportsExact
<1>8. \A S \in Listed : S \in Itemset /\ Cardinality(S) \in 1 .. Len(L_list) /\ S \in L_list[Cardinality(S)]
  BY <1>3, <1>4
<1> QED
  BY <1>1, <1>3, <1>5, <1>7, <1>8

\* A consequent and its antecedent have at least one item each.
LEMMA ConsequentSize ==
  ASSUME NEW S \in Itemset, NEW H, Consequent(S, H)
  PROVE  /\ Cardinality(S) \in Nat /\ Cardinality(H) \in Nat
         /\ 0 < Cardinality(H) /\ Cardinality(H) < Cardinality(S)
<1>1. IsFiniteSet(S) /\ Cardinality(S) \in Nat
  BY ItemsetFinite
<1>2. IsFiniteSet(H) /\ Cardinality(H) \in Nat
  BY ItemsetFinite DEF Consequent
<1>3. Cardinality(H) # 0
  BY <1>2, FS_EmptySet DEF Consequent
<1>4. Cardinality(H) <= Cardinality(S) /\ (Cardinality(H) = Cardinality(S) => H = S)
  BY <1>1, FS_Subset DEF Consequent
<1> QED
  BY <1>1, <1>2, <1>3, <1>4 DEF Consequent

\* The steps of mineAssociationRules leave what they read of the miner alone.
LEMMA MinerUnchanged ==
  ASSUME UNCHANGED <<vars, minConf>>
  PROVE  /\ Listed' = Listed /\ PossibleRules' = PossibleRules
         /\ \A S, H : Confident(S, H)' <=> Confident(S, H)
         /\ \A r : (Above(TrueWhole(r), TruePart(r)) \/ Equal(TrueWhole(r), TruePart(r)))'
                     <=> Above(TrueWhole(r), TruePart(r)) \/ Equal(TrueWhole(r), TruePart(r))
         /\ pc' = pc /\ L_list' = L_list /\ dataset' = dataset /\ supports' = supports
         /\ minConf' = minConf
<1>1. pc' = pc /\ L_list' = L_list /\ dataset' = dataset /\ supports' = supports /\ minConf' = minConf
  BY DEF vars
<1>2. Listed' = Listed
  BY <1>1 DEF Listed
<1>3. PossibleRules' = PossibleRules
  BY <1>2 DEF PossibleRules
<1>4. \A S, H : Confident(S, H)' <=> Confident(S, H)
  BY <1>1 DEF Confident, Above, Equal, TieIsExact
<1>5. \A r : (Above(TrueWhole(r), TruePart(r)) \/ Equal(TrueWhole(r), TruePart(r)))'
              <=> Above(TrueWhole(r), TruePart(r)) \/ Equal(TrueWhole(r), TruePart(r))
  BY <1>1 DEF Above, Equal, TrueWhole, TruePart
<1> QED
  BY <1>1, <1>2, <1>3, <1>4, <1>5

\* A step that lists no rule and gives no rule its turn keeps ListedOK.
LEMMA SameTurns ==
  ASSUME IndInv, ListedOK, UNCHANGED <<vars, minConf, rules>>,
         \A S \in Listed : \A H : Consequent(S, H) => (HadTurn(S, H)' <=> HadTurn(S, H))
  PROVE  ListedOK'
<1>1. Listed' = Listed /\ PossibleRules' = PossibleRules /\ rules' = rules
  BY MinerUnchanged
<1>2. \A S, H : Confident(S, H)' <=> Confident(S, H)
  BY MinerUnchanged
<1>3. ASSUME NEW r \in DOMAIN rules
      PROVE  /\ r \in PossibleRules
             /\ HadTurn(r[1] \cup r[2], r[2])'
             /\ (Above(TrueWhole(r), TruePart(r)) \/ Equal(TrueWhole(r), TruePart(r)))'
  <2>1. r \in PossibleRules
    BY DEF ListedOK
  <2>2. PICK S \in Listed : \E H : Consequent(S, H) /\ r = <<S \ H, H>>
    BY <2>1, PossibleRule
  <2>3. PICK H : Consequent(S, H) /\ r = <<S \ H, H>>
    BY <2>2
  <2>4. S \in Itemset
    BY ListedFacts
  <2>5. r[2] = H /\ r[1] \cup r[2] = S
    BY <2>3, <2>4, RuleParts
  <2>6. HadTurn(S, H)
    BY <2>5 DEF ListedOK
  <2>7. HadTurn(S, H)'
    BY <2>3, <2>6
  <2>8. HadTurn(r[1] \cup r[2], r[2])'
    BY <2>5, <2>7
  <2>9. Above(TrueWhole(r), TruePart(r)) \/ Equal(TrueWhole(r), TruePart(r))
    BY DEF ListedOK
  <2>10. (Above(TrueWhole(r), TruePart(r)) \/ Equal(TrueWhole(r), TruePart(r)))'
    BY <2>9, MinerUnchanged
  <2> QED
    BY <2>1, <2>8, <2>10
<1>4. ASSUME NEW S \in Listed, NEW H \in SUBSET S, Consequent(S, H), HadTurn(S, H)', Confident(S, H)'
      PROVE  <<S \ H, H>> \in DOMAIN rules
  BY <1>2, <1>4 DEF ListedOK
<1>5. \A r \in DOMAIN rules : rules[r] = 1
  BY DEF ListedOK
<1> QED
  BY <1>1, <1>3, <1>4, <1>5 DEF ListedOK

-----------------------------------------------------------------------------
(* The steps. *)

\* No rule is listed before the levels are complete.
LEMMA InitRulesIndInv == RulesInit => RulesIndInv
<1> SUFFICES ASSUME RulesInit PROVE RulesIndInv
  OBVIOUS
<1>1. IndInv
  BY InitIndInv DEF RulesInit
<1>2. PositionOK
  BY DEF RulesInit, Init, PositionOK
<1>3. ConsequentsOK
  BY DEF RulesInit, ConsequentsOK
<1>4. Listed = {}
  BY DEF RulesInit, Init, Listed
<1>5. DOMAIN rules = {}
  BY DEF RulesInit, EmptyDict
<1> QED
  BY <1>1, <1>2, <1>3, <1>4, <1>5 DEF RulesIndInv, ListedOK

\* While the levels are being made, level is 1, and an itemset of one item has
\* no rule.
LEMMA GenerateRulesIndInv == RulesIndInv /\ Generate => RulesIndInv'
<1> SUFFICES ASSUME RulesIndInv, Generate PROVE RulesIndInv'
  OBVIOUS
<1>1. IndInv'
  BY OrdersConsistent, NextIndInv DEF RulesIndInv, Generate
<1>2. pc # "returned"
  BY DEF Generate, Next, CreateC1, FilterCToFormL, MergeL
<1>3. /\ rpc = "nextLevel" /\ level = 1 /\ rules = EmptyDict /\ pending = {} /\ minConf \in MinConfs
      /\ rpc' = rpc /\ level' = level /\ rules' = rules /\ pending' = pending /\ minConf' = minConf
  BY <1>2 DEF RulesIndInv, PositionOK, Generate, ruleVars
<1>4. pc' = "returned" => 1 <= Len(L_list')
  BY <1>1 DEF IndInv, TypeOK, LoopOK
<1>5. PositionOK' /\ ConsequentsOK'
  BY <1>3, <1>4 DEF PositionOK, ConsequentsOK
<1>6. ASSUME NEW S \in Listed', NEW H, Consequent(S, H), HadTurn(S, H)'
      PROVE  FALSE
  <2>1. PICK k \in DOMAIN L_list' : S \in L_list'[k]
    BY DEF Listed
  <2>2. L_list' \in Seq(SUBSET Itemset)
    BY <1>1 DEF IndInv, TypeOK
  <2>3. S \in Itemset
    BY <2>1, <2>2
  <2>4. Cardinality(S) <= 1
    BY <1>3, <1>6 DEF HadTurn
  <2> QED
    BY <1>6, <2>3, <2>4, ConsequentSize
<1>7. DOMAIN rules' = {}
  BY <1>3 DEF EmptyDict
<1>8. ListedOK'
  BY <1>6, <1>7 DEF ListedOK
<1> QED
  BY <1>1, <1>5, <1>8 DEF RulesIndInv

\* The itemsets of the next level have not had their turn.
LEMMA NextLevelRulesIndInv == RulesIndInv /\ NextLevel => RulesIndInv'
<1> SUFFICES ASSUME RulesIndInv, NextLevel PROVE RulesIndInv'
  OBVIOUS
<1>1. /\ IndInv /\ ListedOK
      /\ pc = "returned" /\ rpc = "nextLevel" /\ level \in Nat \ {0} /\ pending = {}
      /\ level <= Len(L_list) /\ Len(L_list) \in Nat /\ minConf \in MinConfs
  BY ListedFacts DEF RulesIndInv, PositionOK, NextLevel
<1>2. UNCHANGED <<vars, minConf, rules>>
  BY DEF NextLevel
<1>3. pc' = "returned" /\ L_list' = L_list /\ minConf' = minConf /\ rules' = rules
  BY <1>1, <1>2 DEF vars
<1>4. IndInv'
  BY <1>1, <1>2, OrdersConsistent, NextIndInv
<1>5. CASE level < Len(L_list)
  <2>1. level' = level + 1 /\ pending' = L_list[level + 1] /\ rpc' = "nextItemset"
    BY <1>5 DEF NextLevel
  <2>2. PositionOK' /\ ConsequentsOK'
    BY <1>1, <1>3, <1>5, <2>1 DEF PositionOK, ConsequentsOK
  <2>3. ASSUME NEW S \in Listed, NEW H, Consequent(S, H)
        PROVE  HadTurn(S, H)' <=> HadTurn(S, H)
    <3>1. Cardinality(S) \in Nat /\ S \in L_list[Cardinality(S)]
      BY <1>1, ListedFacts
    <3>2. S \in L_list[level + 1] => Cardinality(S) = level + 1
      BY <1>1, <1>5, ListedFacts
    <3>3. HadTurn(S, H) <=> Cardinality(S) <= level
      BY <1>1 DEF HadTurn
    <3>4. HadTurn(S, H)' <=> Cardinality(S) <= level + 1 /\ S \notin L_list[level + 1]
      BY <2>1 DEF HadTurn
    <3> QED
      BY <1>1, <3>1, <3>2, <3>3, <3>4
  <2>4. ListedOK'
    BY <1>1, <1>2, <2>3, SameTurns
  <2> QED
    BY <1>4, <2>2, <2>4 DEF RulesIndInv
<1>6. CASE ~(level < Len(L_list))
  <2>1. rpc' = "returned" /\ level' = level /\ pending' = pending
    BY <1>6 DEF NextLevel
  <2>2. PositionOK' /\ ConsequentsOK'
    BY <1>1, <1>3, <1>6, <2>1 DEF PositionOK, ConsequentsOK
  <2>3. \A S \in Listed : \A H : Consequent(S, H) => (HadTurn(S, H)' <=> HadTurn(S, H))
    BY <1>1, <2>1 DEF HadTurn
  <2>4. ListedOK'
    BY <1>1, <1>2, <2>3, SameTurns
  <2> QED
    BY <1>4, <2>2, <2>4 DEF RulesIndInv
<1> QED
  BY <1>5, <1>6

\* The itemset that is begun had not had its turn, and no consequent is smaller
\* than its first candidates.
LEMMA NextItemsetRulesIndInv == RulesIndInv /\ NextItemset => RulesIndInv'
<1> SUFFICES ASSUME RulesIndInv, NextItemset PROVE RulesIndInv'
  OBVIOUS
<1>1. /\ IndInv /\ ListedOK
      /\ pc = "returned" /\ rpc = "nextItemset" /\ level \in Nat \ {0} /\ level > 1
      /\ level <= Len(L_list) /\ Len(L_list) \in Nat /\ minConf \in MinConfs
      /\ pending \subseteq L_list[level]
  BY ListedFacts DEF RulesIndInv, PositionOK, NextItemset
<1>2. UNCHANGED <<vars, minConf, rules>>
  BY DEF NextItemset
<1>3. pc' = "returned" /\ L_list' = L_list /\ minConf' = minConf /\ rules' = rules /\ level' = level
  BY <1>1, <1>2 DEF vars, NextItemset
<1>4. IndInv'
  BY <1>1, <1>2, OrdersConsistent, NextIndInv
<1>5. ASSUME NEW S \in pending,
             itemset' = S, pending' = pending \ {S},
             HC' = [H \in {{x} : x \in S} |-> 1], sizeConsequent' = 1,
             rpc' = IF GoesOn(HC', 1, S) THEN "filter" ELSE "nextItemset"
      PROVE  RulesIndInv'
  <2>1. S \in Itemset /\ Cardinality(S) = level /\ S \in L_list[level] /\ IsFiniteSet(S)
    BY <1>1, <1>5, ListedFacts, ItemsetFinite
  <2>2. rpc' = "filter"
    <3>1. S # {}
      BY <1>1, <2>1, FS_EmptySet
    <3>2. PICK x : x \in S
      BY <3>1
    <3>3. {x} \in DOMAIN HC'
      BY <1>5, <3>2
    <3>4. HC' # EmptyDict
      BY <3>3 DEF EmptyDict
    <3> QED
      BY <1>1, <1>5, <2>1, <3>4 DEF GoesOn
  <2>3. PositionOK'
    BY <1>1, <1>3, <1>5, <2>1, <2>2 DEF PositionOK
  <2>4. ASSUME NEW H \in SUBSET S PROVE Cardinality(H) = 1 <=> H \in {{x} : x \in S}
    <3>1. IsFiniteSet(H)
      BY <2>1, FS_Subset
    <3>2. Cardinality(H) = 1 <=> \E x : H = {x}
      BY <3>1, FS_Singleton
    <3> QED
      BY <3>2
  <2>5. ConsequentsOK'
    BY <1>1, <1>3, <1>5, <2>2, <2>4 DEF ConsequentsOK
  <2>6. ASSUME NEW U \in Listed, NEW H, Consequent(U, H)
        PROVE  HadTurn(U, H)' <=> HadTurn(U, H)
    <3>1. U \in Itemset
      BY <1>1, ListedFacts
    <3>2. Cardinality(H) \in Nat /\ 0 < Cardinality(H)
      BY <2>6, <3>1, ConsequentSize
    <3>3. HadTurn(U, H)' <=> Cardinality(U) <= level /\ U \notin pending \ {S} /\ U # S
      BY <1>3, <1>5, <2>2, <3>2 DEF HadTurn
    <3>4. HadTurn(U, H) <=> Cardinality(U) <= level /\ U \notin pending
      BY <1>1 DEF HadTurn
    <3> QED
      BY <3>3, <3>4
  <2>7. ListedOK'
    BY <1>1, <1>2, <2>6, SameTurns
  <2> QED
    BY <1>4, <2>3, <2>5, <2>7 DEF RulesIndInv
<1>6. ASSUME pending = {}, rpc' = "nextLevel", UNCHANGED <<pending, itemset, HC, sizeConsequent>>
      PROVE  RulesIndInv'
  <2>1. PositionOK' /\ ConsequentsOK'
    BY <1>1, <1>3, <1>6 DEF PositionOK, ConsequentsOK
  <2>2. \A S \in Listed : \A H : Consequent(S, H) => (HadTurn(S, H)' <=> HadTurn(S, H))
    BY <1>1, <1>3, <1>6 DEF HadTurn
  <2>3. ListedOK'
    BY <1>1, <1>2, <2>2, SameTurns
  <2> QED
    BY <1>4, <2>1, <2>3 DEF RulesIndInv
<1> QED
  BY <1>5, <1>6 DEF NextItemset

\* The consequents that one round keeps: candidates that do not fall below
\* minConf, among them all of the size of the round whose rules are above it.
LEMMA KeptConsequents ==
  ASSUME RulesIndInv, rpc = "filter",
         NEW ties \in SUBSET (MayPass \ MustPass),
         NEW HL, HL = MustPass \cup ties
  PROVE  /\ \A H \in HL : /\ H \in DOMAIN HC /\ HC[H] = 1
                          /\ Consequent(itemset, H) /\ Cardinality(H) = sizeConsequent
                          /\ \/ Above(Count(itemset, dataset), Count(itemset \ H, dataset))
                             \/ Equal(Count(itemset, dataset), Count(itemset \ H, dataset))
         /\ \A H \in SUBSET itemset :
              Cardinality(H) = sizeConsequent /\ Confident(itemset, H) => H \in HL
<1>1. /\ IndInv /\ itemset \in Listed /\ itemset \in Itemset /\ Cardinality(itemset) = level
      /\ sizeConsequent \in Nat /\ 0 < sizeConsequent /\ sizeConsequent < level
  <2>1. IndInv /\ pc = "returned" /\ level \in 1 .. Len(L_list) /\ itemset \in L_list[level]
    BY ListedFacts DEF RulesIndInv, PositionOK
  <2> QED
    BY <2>1, ListedFacts DEF RulesIndInv, ConsequentsOK
<1>2. ASSUME NEW H \in DOMAIN HC
      PROVE  /\ HC[H] = 1 /\ Consequent(itemset, H) /\ Cardinality(H) = sizeConsequent
             /\ Part(H) = Count(itemset \ H, dataset)
  <2>1. HC[H] = 1 /\ H \subseteq itemset /\ Cardinality(H) = sizeConsequent
    BY DEF RulesIndInv, ConsequentsOK
  <2>2. H # {}
    BY <1>1, <2>1, FS_EmptySet
  <2>3. H # itemset
    BY <1>1, <2>1
  <2>4. itemset \ H \in SUBSET itemset /\ itemset \ H # {}
    BY <2>1, <2>3
  <2>5. supports[itemset \ H] = Count(itemset \ H, dataset)
    BY <1>1, <2>4, ListedFacts
  <2> QED
    BY <1>1, <2>1, <2>2, <2>3, <2>5 DEF Consequent, Itemset, Part
<1>3. Whole = Count(itemset, dataset)
  <2>1. itemset # {}
    BY <1>1, FS_EmptySet
  <2> QED
    BY <1>1, <2>1, ListedFacts DEF Whole
<1>4. HL \subseteq MayPass /\ MustPass \subseteq HL
  BY DEF MustPass
<1>5. ASSUME NEW H \in HL
      PROVE  /\ H \in DOMAIN HC
             /\ \/ Above(Count(itemset, dataset), Count(itemset \ H, dataset))
                \/ Equal(Count(itemset, dataset), Count(itemset \ H, dataset))
  <2>1. H \in DOMAIN HC /\ (Above(Whole, Part(H)) \/ Equal(Whole, Part(H)))
    BY <1>4 DEF MayPass
  <2> QED
    BY <1>2, <1>3, <2>1
<1>6. ASSUME NEW H \in SUBSET itemset, Cardinality(H) = sizeConsequent, Confident(itemset, H)
      PROVE  H \in HL
  <2>1. H \in DOMAIN HC
    BY <1>6 DEF RulesIndInv, ConsequentsOK
  <2>2. Above(Whole, Part(H)) \/ (TieIsExact /\ Equal(Whole, Part(H)))
    BY <1>2, <1>3, <1>6, <2>1 DEF Confident
  <2>3. H \in MustPass
    BY <2>1, <2>2 DEF MustPass, MayPass
  <2> QED
    BY <1>4, <2>3
<1> QED
  BY <1>2, <1>5, <1>6

\* The candidates of the next round: parts of the itemset of one item more, once
\* each, with all those whose rules are above minConf.
LEMMA MergedConsequents ==
  ASSUME RulesIndInv, rpc = "filter", NEW HL, NEW last \in Orders,
         \A H \in HL : Consequent(itemset, H) /\ Cardinality(H) = sizeConsequent,
         \A H \in SUBSET itemset :
           Cardinality(H) = sizeConsequent /\ Confident(itemset, H) => H \in HL
  PROVE  /\ \A H \in DOMAIN MergeLToFormLargerC(HL, last) :
              /\ MergeLToFormLargerC(HL, last)[H] = 1
              /\ H \subseteq itemset /\ Cardinality(H) = sizeConsequent + 1
         /\ \A H \in SUBSET itemset :
              Cardinality(H) = sizeConsequent + 1 /\ Confident(itemset, H)
                => H \in DOMAIN MergeLToFormLargerC(HL, last)
<1>1. /\ dataset \in Seq(Itemset) /\ minConf \in MinConfs /\ itemset \in Itemset
      /\ sizeConsequent \in Nat \ {0}
  <2>1. IndInv /\ pc = "returned" /\ level \in 1 .. Len(L_list) /\ itemset \in L_list[level]
    BY ListedFacts DEF RulesIndInv, PositionOK
  <2>2. itemset \in Itemset
    BY <2>1, ListedFacts
  <2> QED
    BY <2>1, <2>2, ListedFacts DEF RulesIndInv, ConsequentsOK, PositionOK
<1>2. IsLastItem(last) /\ ConsistentOrder(last)
  BY OrdersAssumption, OrdersConsistent
<1>3. HL \in SUBSET Itemset /\ \A H \in HL : Cardinality(H) = sizeConsequent /\ H \subseteq itemset
  BY DEF Consequent
<1>4. DOMAIN MergeLToFormLargerC(HL, last) = MergeResults(HL, last)
  BY DEF MergeLToFormLargerC
<1>5. ASSUME NEW H \in MergeResults(HL, last)
      PROVE  /\ MergeLToFormLargerC(HL, last)[H] = 1
             /\ H \subseteq itemset /\ Cardinality(H) = sizeConsequent + 1
  <2>1. Cardinality(MergedInto(H, HL, last)) = 1
    BY <1>1, <1>2, <1>3, MergeOnce
  <2>2. Cardinality(H) = sizeConsequent + 1
    BY <1>1, <1>2, <1>3, MergeSizes
  <2>3. H \subseteq itemset
    BY <1>3 DEF MergeResults
  <2> QED
    BY <2>1, <2>2, <2>3 DEF MergeLToFormLargerC
<1>6. ASSUME NEW H \in SUBSET itemset,
             Cardinality(H) = sizeConsequent + 1, Confident(itemset, H)
      PROVE  H \in MergeResults(HL, last)
  <2>1. H \in Itemset
    BY <1>1 DEF Itemset
  <2>2. ASSUME NEW x \in H PROVE H \ {x} \in HL
    <3>1. IsFiniteSet(H)
      BY <2>1, ItemsetFinite
    <3>2. Cardinality(H \ {x}) = Cardinality(H) - 1
      BY <3>1, FS_RemoveElement
    <3>3. Cardinality(H \ {x}) = sizeConsequent
      BY <1>1, <1>6, <3>2
    <3>4. Confident(itemset, H \ {x})
      BY <1>1, <1>6, ConfidentMonotone
    <3> QED
      BY <3>3, <3>4
  <2> QED
    BY <1>1, <1>2, <1>3, <1>6, <2>1, <2>2, MergeComplete
<1> QED
  BY <1>4, <1>5, <1>6

\* rules.append: the rules of the kept consequents are added, each once more.
LEMMA AddedRules ==
  ASSUME NEW HL, \A H \in HL : H \in DOMAIN HC /\ HC[H] = 1,
         \A r \in DOMAIN rules : rules[r] = 1,
         \A H \in HL : <<itemset \ H, H>> \notin DOMAIN rules
  PROVE  /\ DOMAIN WithRules(HL) = DOMAIN rules \cup {<<itemset \ H, H>> : H \in HL}
         /\ \A r \in DOMAIN WithRules(HL) : WithRules(HL)[r] = 1
<1> DEFINE added == {<<itemset \ H, H>> : H \in HL}
           new == [r \in added |-> HC[r[2]]]
<1>1. WithRules(HL) =
        [r \in DOMAIN rules \cup DOMAIN new |->
           (IF r \in DOMAIN rules THEN rules[r] ELSE 0) + (IF r \in DOMAIN new THEN new[r] ELSE 0)]
  BY DEF WithRules
<1>2. DOMAIN new = added
  OBVIOUS
<1>3. \A r \in added : new[r] = 1 /\ r \notin DOMAIN rules
  OBVIOUS
<1> HIDE DEF new, added
<1>4. ASSUME NEW r \in DOMAIN rules \cup added
      PROVE  WithRules(HL)[r] = 1
  <2>1. CASE r \in added
    BY <1>1, <1>2, <1>3, <2>1
  <2>2. CASE r \notin added
    BY <1>1, <1>2, <2>2
  <2> QED
    BY <2>1, <2>2
<1>5. DOMAIN WithRules(HL) = DOMAIN rules \cup added
  BY <1>1, <1>2
<1> QED
  BY <1>4, <1>5 DEF added

\* One round: the consequents of its size have their turn, and when the loop
\* ends no larger one is left that could be above minConf.
LEMMA FilterRulesIndInv == RulesIndInv /\ FilterHCToFormHL => RulesIndInv'
<1> SUFFICES ASSUME RulesIndInv, FilterHCToFormHL PROVE RulesIndInv'
  OBVIOUS
<1>1. /\ IndInv /\ PositionOK /\ ConsequentsOK /\ ListedOK
      /\ rpc = "filter" /\ pc = "returned" /\ level \in Nat \ {0} /\ level > 1
      /\ level <= Len(L_list) /\ Len(L_list) \in Nat /\ minConf \in MinConfs
      /\ pending \subseteq L_list[level]
      /\ itemset \in L_list[level] /\ itemset \notin pending
  BY ListedFacts DEF RulesIndInv, PositionOK, FilterHCToFormHL
<1>2. UNCHANGED <<vars, minConf>>
  BY DEF FilterHCToFormHL
<1>3. /\ pc' = "returned" /\ L_list' = L_list /\ minConf' = minConf /\ level' = level
      /\ pending' = pending /\ itemset' = itemset /\ sizeConsequent' = sizeConsequent + 1
      /\ rpc' = IF GoesOn(HC', sizeConsequent', itemset) THEN "filter" ELSE "nextItemset"
  BY <1>1 DEF vars, FilterHCToFormHL
<1>4. IndInv'
  BY <1>1, <1>2, OrdersConsistent, NextIndInv
<1>5. /\ itemset \in Listed /\ itemset \in Itemset /\ Cardinality(itemset) = level
      /\ dataset \in Seq(Itemset)
      /\ sizeConsequent \in Nat /\ 0 < sizeConsequent /\ sizeConsequent < level
  BY <1>1, ListedFacts DEF ConsequentsOK
<1>6. PICK HL \in {MustPass \cup ties : ties \in SUBSET (MayPass \ MustPass)} :
        rules' = WithRules(HL) /\ \E last \in Orders : HC' = MergeLToFormLargerC(HL, last)
  BY DEF FilterHCToFormHL
<1>7. PICK last \in Orders : HC' = MergeLToFormLargerC(HL, last)
  BY <1>6
<1>8. PICK ties \in SUBSET (MayPass \ MustPass) : HL = MustPass \cup ties
  OBVIOUS
<1>9. /\ \A H \in HL : /\ H \in DOMAIN HC /\ HC[H] = 1
                       /\ Consequent(itemset, H) /\ Cardinality(H) = sizeConsequent
                       /\ \/ Above(Count(itemset, dataset), Count(itemset \ H, dataset))
                          \/ Equal(Count(itemset, dataset), Count(itemset \ H, dataset))
      /\ \A H \in SUBSET itemset :
           Cardinality(H) = sizeConsequent /\ Confident(itemset, H) => H \in HL
  BY <1>1, <1>8, KeptConsequents
<1>10. /\ \A H \in DOMAIN HC' :
            HC'[H] = 1 /\ H \subseteq itemset /\ Cardinality(H) = sizeConsequent + 1
       /\ \A H \in SUBSET itemset :
            Cardinality(H) = sizeConsequent + 1 /\ Confident(itemset, H) => H \in DOMAIN HC'
  BY <1>1, <1>7, <1>9, MergedConsequents
<1>11. rpc' = "filter" => sizeConsequent + 1 < level
  BY <1>3, <1>5 DEF GoesOn
<1>12. PositionOK'
  BY <1>1, <1>3 DEF PositionOK
<1>13. /\ Listed' = Listed /\ PossibleRules' = PossibleRules
       /\ \A S, H : Confident(S, H)' <=> Confident(S, H)
       /\ \A r : (Above(TrueWhole(r), TruePart(r)) \/ Equal(TrueWhole(r), TruePart(r)))'
                     <=> Above(TrueWhole(r), TruePart(r)) \/ Equal(TrueWhole(r), TruePart(r))
  BY <1>2, MinerUnchanged
<1>14. ConsequentsOK'
  BY <1>3, <1>5, <1>10, <1>11, <1>13 DEF ConsequentsOK
<1>15. ASSUME NEW S \in Listed, NEW H, Consequent(S, H), HadTurn(S, H)
       PROVE  HadTurn(S, H)'
  <2>1. Cardinality(H) \in Nat
    BY <1>1, <1>15, ListedFacts, ConsequentSize
  <2> QED
    BY <1>1, <1>3, <1>5, <1>15, <2>1 DEF HadTurn
<1>16. ASSUME NEW H \in HL
       PROVE  HadTurn(itemset, H)' /\ ~HadTurn(itemset, H)
  <2>1. Cardinality(H) = sizeConsequent
    BY <1>9
  <2>2. ~(Cardinality(H) < sizeConsequent) /\ Cardinality(H) < sizeConsequent + 1
    BY <1>5, <2>1
  <2>3. HadTurn(itemset, H)'
    BY <1>1, <1>3, <1>5, <2>2 DEF HadTurn
  <2>4. ~HadTurn(itemset, H)
    BY <1>1, <2>2 DEF HadTurn
  <2> QED
    BY <2>3, <2>4
<1>17. ASSUME NEW H \in HL
       PROVE  <<itemset \ H, H>> \notin DOMAIN rules
  <2>1. Consequent(itemset, H)
    BY <1>9
  <2> DEFINE r == <<itemset \ H, H>>
  <2>2. r[2] = H /\ r[1] \cup r[2] = itemset
    BY <1>5, <2>1, RuleParts
  <2>3. ~HadTurn(r[1] \cup r[2], r[2])
    BY <1>16, <2>2
  <2> QED
    BY <1>1, <2>3 DEF ListedOK
<1>18. /\ DOMAIN rules' = DOMAIN rules \cup {<<itemset \ H, H>> : H \in HL}
       /\ \A r \in DOMAIN rules' : rules'[r] = 1
  BY <1>1, <1>6, <1>9, <1>17, AddedRules DEF ListedOK
<1>19. ASSUME NEW r \in DOMAIN rules'
       PROVE  /\ r \in PossibleRules
              /\ HadTurn(r[1] \cup r[2], r[2])'
              /\ Above(TrueWhole(r), TruePart(r)) \/ Equal(TrueWhole(r), TruePart(r))
  <2>1. CASE r \in DOMAIN rules
    <3>1. /\ r \in PossibleRules /\ HadTurn(r[1] \cup r[2], r[2])
          /\ Above(TrueWhole(r), TruePart(r)) \/ Equal(TrueWhole(r), TruePart(r))
      BY <1>1, <2>1 DEF ListedOK
    <3>2. PICK S \in Listed : \E H : Consequent(S, H) /\ r = <<S \ H, H>>
      BY <3>1, PossibleRule
    <3>3. PICK H : Consequent(S, H) /\ r = <<S \ H, H>>
      BY <3>2
    <3>4. r[2] = H /\ r[1] \cup r[2] = S
      BY <1>1, <3>3, ListedFacts, RuleParts
    <3>5. HadTurn(S, H)'
      BY <1>15, <3>1, <3>3, <3>4
    <3> QED
      BY <3>1, <3>4, <3>5
  <2>2. CASE r \notin DOMAIN rules
    <3>1. PICK H \in HL : r = <<itemset \ H, H>>
      BY <1>18, <2>2
    <3>2. Consequent(itemset, H)
      BY <1>9
    <3>3. r[1] = itemset \ H /\ r[2] = H /\ r[1] \cup r[2] = itemset
      BY <1>5, <3>1, <3>2, RuleParts
    <3>4. r \in PossibleRules
      BY <1>5, <3>1, <3>2, PossibleRule
    <3>5. HadTurn(itemset, H)'
      BY <1>16
    <3>6. Above(TrueWhole(r), TruePart(r)) \/ Equal(TrueWhole(r), TruePart(r))
      BY <1>9, <3>3 DEF TrueWhole, TruePart
    <3>7. HadTurn(r[1] \cup r[2], r[2])'
      BY <1>3, <3>3, <3>5 DEF HadTurn
    <3> QED
      BY <3>4, <3>6, <3>7
  <2> QED
    BY <2>1, <2>2
<1>20. ASSUME NEW S \in Listed, NEW H \in SUBSET S,
              Consequent(S, H), HadTurn(S, H)', Confident(S, H)
       PROVE  <<S \ H, H>> \in DOMAIN rules'
  <2>1. S \in Itemset /\ Cardinality(S) \in Nat
    BY <1>1, ListedFacts
  <2>2. Cardinality(H) \in Nat /\ 0 < Cardinality(H) /\ Cardinality(H) < Cardinality(S)
    BY <1>20, <2>1, ConsequentSize
  <2>3. CASE HadTurn(S, H)
    BY <1>1, <1>18, <1>20, <2>3 DEF ListedOK
  <2>4. CASE ~HadTurn(S, H)
    <3>1. S = itemset /\ ~(Cardinality(H) < sizeConsequent)
      BY <1>1, <1>3, <1>20, <2>4 DEF HadTurn
    <3>2. CASE Cardinality(H) = sizeConsequent
      BY <1>9, <1>18, <1>20, <3>1, <3>2
    <3>3. CASE Cardinality(H) > sizeConsequent
      <4>1. rpc' # "filter"
        BY <1>3, <1>5, <1>20, <2>2, <3>1, <3>3 DEF HadTurn
      <4>2. sizeConsequent + 1 < Cardinality(itemset)
        BY <1>5, <2>1, <2>2, <3>1, <3>3
      <4>3. HC' = EmptyDict
        BY <1>3, <4>1, <4>2 DEF GoesOn
      <4>4. H \in Itemset
        BY <1>20 DEF Consequent
      <4>5. PICK T \in SUBSET H : Cardinality(T) = sizeConsequent + 1
        BY <1>5, <2>2, <3>3, <4>4, SubsetOfSize
      <4>6. Confident(itemset, T)
        BY <1>1, <1>5, <1>20, <3>1, ConfidentMonotone
      <4>7. T \in DOMAIN HC'
        BY <1>10, <3>1, <4>5, <4>6
      <4> QED
        BY <4>3, <4>7 DEF EmptyDict
    <3> QED
      BY <1>5, <2>2, <3>1, <3>2, <3>3
  <2> QED
    BY <2>3, <2>4
<1>21. ListedOK'
  BY <1>13, <1>18, <1>19, <1>20 DEF ListedOK
<1> QED
  BY <1>4, <1>12, <1>14, <1>21 DEF RulesIndInv

\* A step that changes nothing.
LEMMA UnchangedRulesIndInv == RulesIndInv /\ UNCHANGED allVars => RulesIndInv'
<1> SUFFICES ASSUME RulesIndInv, UNCHANGED allVars PROVE RulesIndInv'
  OBVIOUS
<1>1. /\ UNCHANGED <<vars, minConf, rules>> /\ rpc' = rpc /\ level' = level /\ pending' = pending
      /\ itemset' = itemset /\ HC' = HC /\ sizeConsequent' = sizeConsequent
  BY DEF allVars, ruleVars
<1>2. IndInv'
  BY <1>1, OrdersConsistent, NextIndInv DEF RulesIndInv
<1>3. /\ pc' = pc /\ L_list' = L_list /\ minConf' = minConf
      /\ \A S, H : Confident(S, H)' <=> Confident(S, H)
  BY <1>1, MinerUnchanged
<1>4. PositionOK' /\ ConsequentsOK'
  BY <1>1, <1>3 DEF RulesIndInv, PositionOK, ConsequentsOK
<1>5. \A S, H : HadTurn(S, H)' <=> HadTurn(S, H)
  BY <1>1 DEF HadTurn
<1>6. ListedOK'
  BY <1>1, <1>5, SameTurns DEF RulesIndInv
<1> QED
  BY <1>2, <1>4, <1>6 DEF RulesIndInv

\* The invariant holds all along.
THEOREM RulesIndInvHolds == RulesSpec => []RulesIndInv
<1>1. RulesInit => RulesIndInv
  BY InitRulesIndInv
<1>2. RulesIndInv /\ [RulesNext]_allVars => RulesIndInv'
  BY GenerateRulesIndInv, NextLevelRulesIndInv, NextItemsetRulesIndInv, FilterRulesIndInv,
     UnchangedRulesIndInv DEF RulesNext
<1> QED
  BY <1>1, <1>2, PTL DEF RulesSpec

-----------------------------------------------------------------------------
(* The theorems. *)

\* Both look-ups of the confidence find a support, so no KeyError is raised.
THEOREM LookupsAreDefined == RulesSpec => []LookupsDefined
<1>1. RulesIndInv => LookupsDefined
  <2> SUFFICES ASSUME RulesIndInv, rpc = "filter"
               PROVE  /\ itemset \in DOMAIN supports
                      /\ \A H \in DOMAIN HC : H # itemset /\ itemset \ H \in DOMAIN supports
    BY DEF LookupsDefined
  <2>1. IndInv /\ level \in 1 .. Len(L_list) /\ itemset \in L_list[level]
    BY ListedFacts DEF RulesIndInv, PositionOK
  <2>2. itemset \in Listed /\ itemset \in Itemset /\ Cardinality(itemset) = level
    BY <2>1, ListedFacts
  <2>3. itemset # {}
    <3>1. level # 0
      BY <2>1, ListedFacts
    <3> QED
      BY <2>2, <3>1, FS_EmptySet
  <2>4. itemset \in DOMAIN supports
    BY <2>1, <2>2, <2>3, ListedFacts
  <2>5. ASSUME NEW H \in DOMAIN HC
        PROVE  H # itemset /\ itemset \ H \in DOMAIN supports
    <3>1. H \subseteq itemset /\ Cardinality(H) < level
      BY DEF RulesIndInv, ConsequentsOK
    <3>2. H # itemset
      BY <2>1, <2>2, <3>1
    <3>3. itemset \ H \in SUBSET itemset /\ itemset \ H # {}
      BY <3>1, <3>2
    <3> QED
      BY <2>1, <2>2, <3>2, <3>3, ListedFacts
  <2> QED
    BY <2>4, <2>5
<1> QED
  BY <1>1, RulesIndInvHolds, PTL

\* Every listed rule is a rule of a frequent itemset and reaches minConf.
THEOREM RulesAreSound == RulesSpec => []RulesSound
<1>1. RulesIndInv => RulesSound
  BY DEF RulesIndInv, ListedOK, RulesSound
<1> QED
  BY <1>1, RulesIndInvHolds, PTL

\* No rule is listed twice.
THEOREM RulesAreListedOnce == RulesSpec => []RulesOnce
<1>1. RulesIndInv => RulesOnce
  BY DEF RulesIndInv, ListedOK, RulesOnce
<1> QED
  BY <1>1, RulesIndInvHolds, PTL

\* When mineAssociationRules returns, every rule above minConf is listed, however
\* the ties fell, and every rule on it if minConf is 1 or 1/2.
THEOREM RulesAreComplete == RulesSpec => []RulesComplete
<1>1. RulesIndInv => RulesComplete
  <2> SUFFICES ASSUME RulesIndInv, rpc = "returned",
                      NEW r \in PossibleRules,
                      \/ Above(TrueWhole(r), TruePart(r))
                      \/ TieIsExact /\ Equal(TrueWhole(r), TruePart(r))
               PROVE  r \in DOMAIN rules
    BY DEF RulesComplete
  <2>1. IndInv /\ level = Len(L_list) /\ pending = {}
    BY DEF RulesIndInv, PositionOK
  <2>2. PICK S \in Listed : \E H : Consequent(S, H) /\ r = <<S \ H, H>>
    BY PossibleRule
  <2>3. PICK H : Consequent(S, H) /\ r = <<S \ H, H>>
    BY <2>2
  <2>4. S \in Itemset /\ Cardinality(S) \in 1 .. Len(L_list) /\ Len(L_list) \in Nat
    BY <2>1, ListedFacts
  <2>5. r[1] = S \ H /\ r[1] \cup r[2] = S
    BY <2>3, <2>4, RuleParts
  <2>6. Confident(S, H)
    BY <2>5 DEF Confident, TrueWhole, TruePart
  <2>7. HadTurn(S, H)
    BY <2>1, <2>4 DEF HadTurn
  <2> QED
    BY <2>3, <2>6, <2>7 DEF RulesIndInv, ListedOK, Consequent
<1> QED
  BY <1>1, RulesIndInvHolds, PTL
=============================================================================
