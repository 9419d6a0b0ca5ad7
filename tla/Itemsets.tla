------------------------------ MODULE Itemsets ------------------------------
(***************************************************************************)
(* Itemsets over a finite set of items: what the two miners of             *)
(* examples/mlia/src/fpm share.                                            *)
(*                                                                         *)
(* A dataset is a sequence of transactions, each a set of items            *)
(* (transactions = map(set, dataset)).  A support is kept as the number of *)
(* transactions it was computed from: the quotient by the number of        *)
(* transactions changes no comparison between supports, and the threshold  *)
(* minSupport is represented by the least count whose quotient reaches it. *)
(***************************************************************************)
EXTENDS Naturals, Sequences, FiniteSets

CONSTANT Items          \* the items that transactions are made of

ASSUME ItemsAssumption == IsFiniteSet(Items)

Itemset == SUBSET Items

\* The number of transactions of D that contain every item of S.
Count(S, D) == Cardinality({t \in DOMAIN D : S \subseteq D[t]})

IsFrequent(S, D, least) == Count(S, D) >= least

\* The frequent itemsets of k items.
FrequentOfSize(k, D, least) ==
  {S \in Itemset : Cardinality(S) = k /\ IsFrequent(S, D, least)}

FrequentItemsets(D, least) ==
  {S \in Itemset \ {{}} : IsFrequent(S, D, least)}

-----------------------------------------------------------------------------
(***************************************************************************)
(* list(frozenset) lists the items in the order of their slots in the hash *)
(* table.  Cutting that list to its first k-1 items drops the item listed  *)
(* last, so all that the merge depends on is a function from an itemset    *)
(* to the item that is iterated last.                                      *)
(***************************************************************************)
IsLastItem(last) ==
  /\ DOMAIN last = Itemset \ {{}}
  /\ \A S \in Itemset \ {{}} : last[S] \in S

\* Every itemset is iterated in one order of the items: the item that comes
\* last in a set comes last in every subset that still has it.
ConsistentOrder(last) ==
  \A S, T \in Itemset \ {{}} : T \subseteq S /\ last[S] \in T => last[T] = last[S]

\* The first k-1 items of two itemsets are the same.
SamePrefix(A, B, last) == A \ {last[A]} = B \ {last[B]}

\* The pairs of itemsets that the two nested loops merge into S.
MergedInto(S, L, last) ==
  {{p[1], p[2]} : p \in {q \in L \X L : /\ q[1] # q[2]
                                        /\ SamePrefix(q[1], q[2], last)
                                        /\ q[1] \cup q[2] = S}}

\* The unions of all the pairs of L that share a prefix.
MergeResults(L, last) ==
  {p[1] \cup p[2] : p \in {q \in L \X L : /\ q[1] # q[2]
                                          /\ SamePrefix(q[1], q[2], last)}}

\* Faulty variants of the merge: the inner loop starts at 0 and meets every pair
\* twice; & for |; and the early return for len(L) <= 2.
Merge_PairsTwice(L, last) ==
  [S \in MergeResults(L, last) |-> 2 * Cardinality(MergedInto(S, L, last))]

Merge_Intersection(L, last) ==
  [S \in {p[1] \cap p[2] : p \in {q \in L \X L : q[1] # q[2] /\ SamePrefix(q[1], q[2], last)}} |-> 1]

Merge_NotOfTwo(L, last) ==
  [S \in {T \in MergeResults(L, last) : Cardinality(L) > 2} |->
     Cardinality(MergedInto(S, L, last))]

\* The returned list C has S once for each pair merged into it.
MergeLToFormLargerC(L, last) ==
  [S \in MergeResults(L, last) |-> Cardinality(MergedInto(S, L, last))]

\* A dict without entries.
EmptyDict == [key \in {} |-> 0]

\* A faulty variant: the earlier entries are dropped.
UpdateDict_Replace(d, e) == e

\* dict.update: the entries of e are added to d or replace those of d.
UpdateDict(d, e) ==
  [key \in DOMAIN d \cup DOMAIN e |-> IF key \in DOMAIN e THEN e[key] ELSE d[key]]

=============================================================================
