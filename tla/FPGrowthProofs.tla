--------------------------- MODULE FPGrowthProofs ---------------------------
(***************************************************************************)
(* Proofs about createTree and mineTree, for every finite set of items,    *)
(* all datasets, thresholds and listings.                                  *)
(***************************************************************************)
EXTENDS FPGrowth, DataLemmas

-----------------------------------------------------------------------------
(* The path of a pattern. *)

Effective(p) == p \cap DOMAIN headerTable

\* orderedItems has the effective items of the pattern, each once, those with
\* larger supports first and, of equal supports, those listed first.
LEMMA OrderedItemsProperties ==
  ASSUME listing \in Listings, NEW p \in Itemset, \A x \in DOMAIN headerTable : headerTable[x] \in Nat
  PROVE  /\ OrderedItems(p) \in Seq(Effective(p))
         /\ \A i, j \in 1 .. Len(OrderedItems(p)) : OrderedItems(p)[i] = OrderedItems(p)[j] => i = j
         /\ \A x \in Effective(p) : \E i \in 1 .. Len(OrderedItems(p)) : OrderedItems(p)[i] = x
         /\ \A i, j \in 1 .. Len(OrderedItems(p)) :
              i < j => ListedBefore(OrderedItems(p)[i], OrderedItems(p)[j], p)
<1>0. PICK E, n : E = Effective(p) /\ n = Cardinality(E)
  OBVIOUS
<1>1. IsFiniteSet(E) /\ n \in Nat
  <2>1. IsFiniteSet(p)
    BY ItemsAssumption, FS_Subset DEF Itemset
  <2> QED BY <1>0, <2>1, FS_Intersection, FS_CardinalityType DEF Effective
<1>2. \A x, y \in p : listing[p][x] \in Nat /\ (listing[p][x] = listing[p][y] => x = y)
  BY ListingsAssumption
<1>3. \A x \in E : headerTable[x] \in Nat /\ x \in p
  BY <1>0 DEF Effective
<1> DEFINE before == [x \in E |-> {y \in E : ListedBefore(y, x, p)}]
<1>4. \A x \in E : before[x] \subseteq E /\ x \notin before[x]
  BY <1>2, <1>3 DEF ListedBefore
<1>5. \A x, y \in E : x # y => x \in before[y] \/ y \in before[x]
  BY <1>2, <1>3 DEF ListedBefore
<1>6. \A x, y \in E : x \in before[y] => before[x] \subseteq before[y]
  <2> SUFFICES ASSUME NEW x \in E, NEW y \in E, NEW z \in E, ListedBefore(x, y, p), ListedBefore(z, x, p)
               PROVE  ListedBefore(z, y, p)
    OBVIOUS
  <2> QED BY <1>2, <1>3 DEF ListedBefore
<1> HIDE DEF before
<1>7. /\ \A x, y \in E : x \in before[y] => Cardinality(before[x]) < Cardinality(before[y])
      /\ \A x, y \in E : Cardinality(before[x]) = Cardinality(before[y]) => x = y
      /\ \A k \in 0 .. n - 1 : \E x \in E : Cardinality(before[x]) = k
      /\ \A x \in E : Cardinality(before[x]) \in 0 .. n - 1
  BY <1>0, <1>1, <1>4, <1>5, <1>6, Ranking
<1>8. PICK path : path = OrderedItems(p)
  OBVIOUS
<1>9. path = [i \in 1 .. n |-> CHOOSE x \in E : Cardinality(before[x]) = i - 1]
  <2>1. OrderedItems(p) = [i \in 1 .. n |->
           CHOOSE x \in E : Cardinality({y \in E : ListedBefore(y, x, p)}) = i - 1]
    BY <1>0 DEF OrderedItems, Effective
  <2>2. \A x \in E : before[x] = {y \in E : ListedBefore(y, x, p)}
    BY DEF before
  <2>3. \A i \in 1 .. n : (CHOOSE x \in E : Cardinality({y \in E : ListedBefore(y, x, p)}) = i - 1)
                          = (CHOOSE x \in E : Cardinality(before[x]) = i - 1)
    BY DEF before
  <2> QED BY <1>8, <2>1, <2>3
<1>10. \A i \in 1 .. n : path[i] \in E /\ Cardinality(before[path[i]]) = i - 1
  <2> SUFFICES ASSUME NEW i \in 1 .. n  PROVE path[i] \in E /\ Cardinality(before[path[i]]) = i - 1
    OBVIOUS
  <2>1. i - 1 \in 0 .. n - 1
    BY <1>1
  <2>2. \E x \in E : Cardinality(before[x]) = i - 1
    BY <1>7, <2>1
  <2>3. path[i] = CHOOSE x \in E : Cardinality(before[x]) = i - 1
    BY <1>9
  <2> QED BY <2>2, <2>3
<1>11. path \in Seq(E) /\ Len(path) = n
  <2>1. path \in [1 .. n -> E]
    BY <1>9, <1>10
  <2> QED BY <1>1, <2>1, SeqDef
<1>12. \A i, j \in 1 .. n : path[i] = path[j] => i = j
  BY <1>1, <1>10
<1>13. ASSUME NEW x \in E  PROVE \E i \in 1 .. n : path[i] = x
  <2>1. PICK i : i = Cardinality(before[x]) + 1
    OBVIOUS
  <2>2. i \in 1 .. n /\ i - 1 = Cardinality(before[x])
    BY <1>1, <1>7, <2>1
  <2> QED BY <1>7, <1>10, <2>2
<1>14. ASSUME NEW i \in 1 .. n, NEW j \in 1 .. n, i < j  PROVE ListedBefore(path[i], path[j], p)
  <2>1. path[i] \in E /\ path[j] \in E /\ path[i] # path[j]
    BY <1>10, <1>12, <1>14
  <2>2. ~(Cardinality(before[path[j]]) < Cardinality(before[path[i]]))
    BY <1>1, <1>10, <1>14
  <2>3. path[i] \in before[path[j]]
    BY <1>5, <1>7, <2>1, <2>2
  <2> QED BY <2>1, <2>3 DEF before
<1> QED BY <1>0, <1>8, <1>11, <1>12, <1>13, <1>14

\* The parent of a node has the names on the way to it.
LEMMA FrontFacts ==
  ASSUME NEW F, NEW n \in Seq(F), n # <<>>
  PROVE  /\ Len(n) \in Nat \ {0} /\ Last(n) = n[Len(n)] /\ Last(n) \in F
         /\ Front(n) \in Seq(F) /\ Len(Front(n)) = Len(n) - 1
         /\ \A j \in 1 .. Len(n) - 1 : Front(n)[j] = n[j]
<1>1. Len(n) \in Nat \ {0} /\ \A i \in 1 .. Len(n) : n[i] \in F
  BY EmptySeq, LenProperties, ElementOfSeq
<1>2. PICK m : m = Len(n) - 1
  OBVIOUS
<1>3. m \in Nat /\ m \in Int /\ 1 \in Int /\ \A i \in 1 .. m : n[i] \in F
  BY <1>1, <1>2
<1>4. PICK front : front = SubSeq(n, 1, m)
  OBVIOUS
<1>5. front \in Seq(F) /\ Len(front) = (IF 1 <= m THEN m - 1 + 1 ELSE 0)
      /\ \A j \in 1 .. m - 1 + 1 : front[j] = n[1 + j - 1]
  BY <1>3, <1>4, SubSeqProperties
<1>6. Len(front) = m /\ \A j \in 1 .. m : front[j] = n[j]
  BY <1>3, <1>5
<1>7. Front(n) = front
  BY <1>2, <1>4 DEF Front
<1> QED BY <1>1, <1>2, <1>5, <1>6, <1>7 DEF Last

\* The items above a node are the names on its path but the last.
LEMMA PrefixNames ==
  ASSUME NEW F, NEW n \in Seq(F), n # <<>>
  PROVE  Prefix(n) = {n[j] : j \in 1 .. Len(n) - 1}
<1>1. PICK front, m : front = Front(n) /\ m = Len(n) - 1
  OBVIOUS
<1>2. front \in Seq(F) /\ Len(front) = m /\ \A j \in 1 .. m : front[j] = n[j]
  BY <1>1, FrontFacts
<1>3. DOMAIN front = 1 .. m
  BY <1>2, LenProperties
<1>4. ToSet(front) = {n[j] : j \in 1 .. m}
  BY <1>2, <1>3 DEF ToSet
<1> QED BY <1>1, <1>4 DEF Prefix

\* The name of a node and the names on the way to it.
LEMMA NodeFacts ==
  ASSUME NEW F, NEW n \in Seq(F), n # <<>>
  PROVE  /\ Len(n) \in Nat \ {0} /\ Last(n) = n[Len(n)] /\ Last(n) \in F
         /\ Front(n) \in Seq(F) /\ Len(Front(n)) = Len(n) - 1
         /\ \A j \in 1 .. Len(n) - 1 : Front(n)[j] = n[j]
         /\ Prefix(n) = {n[j] : j \in 1 .. Len(n) - 1}
BY FrontFacts, PrefixNames

\* The items above a node come before its name.
LEMMA AboveFacts ==
  ASSUME NEW F, NEW n \in Seq(F), n # <<>>
  PROVE  /\ Len(n) \in Nat \ {0} /\ Last(n) = n[Len(n)]
         /\ \A y \in Prefix(n) : \E j \in 1 .. Len(n) - 1 : n[j] = y
<1>1. Len(n) \in Nat \ {0} /\ Last(n) = n[Len(n)]
  BY FrontFacts
<1>2. Prefix(n) = {n[j] : j \in 1 .. Len(n) - 1}
  BY PrefixNames
<1> QED BY <1>1, <1>2

\* The nodes along a path are its beginnings, each below the one before it.
LEMMA BeginningFacts ==
  ASSUME NEW F, NEW path \in Seq(F), NEW i \in 1 .. Len(path)
  PROVE  /\ SubSeq(path, 1, i) \in Seq(F) /\ SubSeq(path, 1, i) # <<>>
         /\ Len(SubSeq(path, 1, i)) = i
         /\ \A j \in 1 .. i : SubSeq(path, 1, i)[j] = path[j]
         /\ Last(SubSeq(path, 1, i)) = path[i]
         /\ Prefix(SubSeq(path, 1, i)) = {path[j] : j \in 1 .. i - 1}
         /\ i > 1 => Front(SubSeq(path, 1, i)) = SubSeq(path, 1, i - 1)
<1>1. Len(path) \in Nat /\ i \in Nat \ {0} /\ \A j \in 1 .. i : path[j] \in F
  BY LenProperties, ElementOfSeq
<1>2. PICK m : m = SubSeq(path, 1, i)
  OBVIOUS
<1>3. m \in Seq(F) /\ Len(m) = (IF 1 <= i THEN i - 1 + 1 ELSE 0)
      /\ \A j \in 1 .. i - 1 + 1 : m[j] = path[1 + j - 1]
  BY <1>1, <1>2, SubSeqProperties
<1>4. Len(m) = i /\ \A j \in 1 .. i : m[j] = path[j]
  BY <1>1, <1>3
<1>5. m # <<>>
  BY <1>1, <1>4, EmptySeq
<1>6. /\ Last(m) = m[Len(m)] /\ Prefix(m) = {m[j] : j \in 1 .. Len(m) - 1}
  BY <1>3, <1>5, NodeFacts
<1>7. Last(m) = path[i]
  BY <1>1, <1>4, <1>6
<1>8. Prefix(m) = {path[j] : j \in 1 .. i - 1}
  BY <1>1, <1>4, <1>6
<1>9. ASSUME i > 1  PROVE Front(m) = SubSeq(path, 1, i - 1)
  <2>1. 1 \in 1 .. Len(path) /\ i \in 1 .. Len(path) /\ 1 \in 1 .. i - 1 + 1 /\ i - 1 \in 1 .. i - 1 + 1
        /\ 1 + 1 - 1 = 1 /\ 1 + (i - 1) - 1 = i - 1
    BY <1>1, <1>9
  <2>2. SubSeq(SubSeq(path, 1, i), 1, i - 1) = SubSeq(path, 1, i - 1)
    BY <2>1, SubSeqOfSubSeq
  <2> QED BY <1>2, <1>4, <2>2 DEF Front
<1> QED BY <1>2, <1>3, <1>4, <1>5, <1>7, <1>8, <1>9

-----------------------------------------------------------------------------
(* The tree. *)

\* The nodes of an item with all of T above them, and what they weigh; and what
\* the patterns of a pattern base weigh that hold all of T.
Holding(tree, x, T) == {n \in DOMAIN tree : Last(n) = x /\ T \subseteq Prefix(n)}
Weight(tree, x, T) == SumFunctionOnSet(tree, Holding(tree, x, T))
BaseWeight(base, T) == SumFunctionOnSet(base, {p \in DOMAIN base : T \subseteq p})

\* A tree whose links lead to all its nodes.
TreeOK(header, links, tree) ==
  /\ DOMAIN header \subseteq Items /\ \A x \in DOMAIN header : header[x] \in Nat
  /\ IsFiniteSet(DOMAIN tree)
  /\ DOMAIN tree \subseteq Seq(DOMAIN header) \ {<<>>}
  /\ \A n \in DOMAIN tree :
       /\ tree[n] \in Nat
       /\ \A i, j \in 1 .. Len(n) : n[i] = n[j] => i = j
       /\ Len(n) > 1 => Front(n) \in DOMAIN tree
  /\ DOMAIN links = DOMAIN header
  /\ \A x \in DOMAIN links :
       /\ links[x] \in Seq(DOMAIN tree)
       /\ IsInjective(links[x])
       /\ ToSet(links[x]) = {n \in DOMAIN tree : Last(n) = x}

\* The nodes that updateTree visits, and the tree after it.
Along(path) == {SubSeq(path, 1, i) : i \in DOMAIN path}
Updated(tree, path, count) ==
  UpdateDict(tree, [n \in Along(path) |-> IF n \in DOMAIN tree THEN Increment(tree[n], count) ELSE count])
NewNodes(tree, path, x) == {n \in Along(path) \ DOMAIN tree : Last(n) = x}
Linked(links, tree, path) ==
  [x \in DOMAIN links |-> UpdateLinkedList(links[x], SetToSeq(NewNodes(tree, path, x)))]

\* updateTree, as the two functions that the lemmas below are about.
LEMMA UpdateTreeEffect ==
  ASSUME NEW path, NEW count, UpdateTree(path, count)
  PROVE  fpTree' = Updated(fpTree, path, count) /\ nodeLinks' = Linked(nodeLinks, fpTree, path)
BY DEF UpdateTree, Updated, Linked, Along, NewNodes

\* A path without repetitions.
PathOf(path, F) ==
  path \in Seq(F) /\ \A i, j \in 1 .. Len(path) : path[i] = path[j] => i = j

\* The nodes that updateTree visits: one of each item, and with a node its parent.
LEMMA AlongFacts ==
  ASSUME NEW F, NEW path, PathOf(path, F)
  PROVE  /\ IsFiniteSet(Along(path))
         /\ Along(path) \subseteq Seq(F) \ {<<>>}
         /\ \A n \in Along(path) :
              /\ \A i, j \in 1 .. Len(n) : n[i] = n[j] => i = j
              /\ Len(n) > 1 => Front(n) \in Along(path)
         /\ \A n, m \in Along(path) : Last(n) = Last(m) => n = m
<1>1. path \in Seq(F) /\ Len(path) \in Nat /\ DOMAIN path = 1 .. Len(path)
      /\ \A i, j \in 1 .. Len(path) : path[i] = path[j] => i = j
  BY LenProperties DEF PathOf
<1>2. IsFiniteSet(Along(path))
  <2> DEFINE f == [i \in DOMAIN path |-> SubSeq(path, 1, i)]
  <2>1. IsFiniteSet(DOMAIN path)
    BY <1>1, FS_Interval
  <2>2. IsFiniteSet({f[i] : i \in DOMAIN path})
    <3> HIDE DEF f
    <3> QED BY <2>1, ImageFinite
  <2>3. {f[i] : i \in DOMAIN path} = Along(path)
    BY DEF Along
  <2> QED BY <2>2, <2>3
<1>3. ASSUME NEW n \in Along(path)
      PROVE  /\ n \in Seq(F) \ {<<>>}
             /\ \A i, j \in 1 .. Len(n) : n[i] = n[j] => i = j
             /\ Len(n) > 1 => Front(n) \in Along(path)
  <2>1. PICK k \in 1 .. Len(path) : n = SubSeq(path, 1, k)
    BY <1>1 DEF Along
  <2>2. /\ n \in Seq(F) /\ n # <<>> /\ Len(n) = k
        /\ \A j \in 1 .. k : n[j] = path[j]
        /\ k > 1 => Front(n) = SubSeq(path, 1, k - 1)
    <3>1. path \in Seq(F) /\ k \in 1 .. Len(path)
      BY <1>1
    <3>2. /\ SubSeq(path, 1, k) \in Seq(F) /\ SubSeq(path, 1, k) # <<>>
          /\ Len(SubSeq(path, 1, k)) = k
          /\ \A j \in 1 .. k : SubSeq(path, 1, k)[j] = path[j]
          /\ k > 1 => Front(SubSeq(path, 1, k)) = SubSeq(path, 1, k - 1)
      BY <3>1, BeginningFacts, Zenon
    <3> QED BY <2>1, <3>2, Zenon
  <2>3. \A i \in 1 .. k : i \in 1 .. Len(path)
    BY <1>1
  <2>4. k > 1 => k - 1 \in DOMAIN path
    BY <1>1
  <2> QED BY <1>1, <2>2, <2>3, <2>4 DEF Along
<1>4. ASSUME NEW n \in Along(path), NEW m \in Along(path), Last(n) = Last(m)  PROVE n = m
  <2>1. PICK k \in 1 .. Len(path) : n = SubSeq(path, 1, k)
    BY <1>1 DEF Along
  <2>2. PICK l \in 1 .. Len(path) : m = SubSeq(path, 1, l)
    BY <1>1 DEF Along
  <2>3. Last(n) = path[k] /\ Last(m) = path[l]
    BY <1>1, <2>1, <2>2, BeginningFacts
  <2> QED BY <1>1, <1>4, <2>1, <2>2, <2>3
<1> QED BY <1>2, <1>3, <1>4

\* Two lists without repetitions and with nothing in common, one after the other.
LEMMA ConcatInjective ==
  ASSUME NEW S, NEW s \in Seq(S), NEW t \in Seq(S), IsInjective(s), IsInjective(t),
         ToSet(s) \cap ToSet(t) = {}
  PROVE  s \o t \in Seq(S) /\ IsInjective(s \o t) /\ ToSet(s \o t) = ToSet(s) \cup ToSet(t)
<1>1. PICK k, l : k = Len(s) /\ l = Len(t)
  OBVIOUS
<1>2. k \in Nat /\ l \in Nat /\ DOMAIN s = 1 .. k /\ DOMAIN t = 1 .. l
  BY <1>1, LenProperties
<1>3. PICK u : u = s \o t
  OBVIOUS
<1>4. u \in Seq(S) /\ Len(u) = k + l
      /\ \A i \in 1 .. k + l : u[i] = IF i <= k THEN s[i] ELSE t[i - k]
  BY <1>1, <1>3, ConcatProperties
<1>5. DOMAIN u = 1 .. k + l
  BY <1>4, LenProperties
<1>6. \A i \in 1 .. k + l : \/ i \in 1 .. k /\ u[i] = s[i]
                            \/ i - k \in 1 .. l /\ i > k /\ u[i] = t[i - k]
  BY <1>2, <1>4
<1>7. \A i \in 1 .. k : s[i] \in ToSet(s)
  BY <1>2 DEF ToSet
<1>8. \A i \in 1 .. l : t[i] \in ToSet(t)
  BY <1>2 DEF ToSet
<1>9. ASSUME NEW i \in 1 .. k + l, NEW j \in 1 .. k + l, u[i] = u[j]  PROVE i = j
  <2>1. CASE i \in 1 .. k /\ u[i] = s[i] /\ j \in 1 .. k /\ u[j] = s[j]
    BY <1>2, <1>9, <2>1 DEF IsInjective
  <2>2. CASE i \in 1 .. k /\ u[i] = s[i] /\ j - k \in 1 .. l /\ u[j] = t[j - k]
    BY <1>7, <1>8, <1>9, <2>2
  <2>3. CASE i - k \in 1 .. l /\ u[i] = t[i - k] /\ j \in 1 .. k /\ u[j] = s[j]
    BY <1>7, <1>8, <1>9, <2>3
  <2>4. CASE i - k \in 1 .. l /\ u[i] = t[i - k] /\ j - k \in 1 .. l /\ u[j] = t[j - k]
    <3>1. i - k = j - k
      BY <1>2, <1>9, <2>4 DEF IsInjective
    <3> QED BY <1>2, <3>1
  <2> QED BY <1>6, <2>1, <2>2, <2>3, <2>4
<1>10. ToSet(u) = ToSet(s) \cup ToSet(t)
  <2>1. ToSet(u) = {u[i] : i \in 1 .. k + l} /\ ToSet(s) = {s[i] : i \in 1 .. k}
        /\ ToSet(t) = {t[i] : i \in 1 .. l}
    BY <1>2, <1>5 DEF ToSet
  <2>2. \A i \in 1 .. k : i \in 1 .. k + l /\ u[i] = s[i]
    BY <1>2, <1>4
  <2>3. \A i \in 1 .. l : i + k \in 1 .. k + l /\ u[i + k] = t[i]
    <3>1. \A i \in 1 .. l : i + k \in 1 .. k + l /\ ~(i + k <= k) /\ (i + k) - k = i
      BY <1>2
    <3> QED BY <1>4, <3>1
  <2>4. \A i \in 1 .. k + l : u[i] \in ToSet(s) \cup ToSet(t)
    BY <1>6, <1>7, <1>8
  <2> QED BY <2>1, <2>2, <2>3, <2>4
<1> QED BY <1>3, <1>4, <1>5, <1>9, <1>10 DEF IsInjective

\* The entries of the tree after updateTree.
AddsAlong(tree2, tree, A, count) ==
  /\ DOMAIN tree2 = DOMAIN tree \cup A
  /\ \A n \in DOMAIN tree \cup A :
       tree2[n] = IF n \in A THEN IF n \in DOMAIN tree THEN tree[n] + count ELSE count
                  ELSE tree[n]

\* updateTree adds the count to the nodes on the path and to no others.
LEMMA UpdatedEntries ==
  ASSUME NEW tree, NEW path, NEW count
  PROVE  AddsAlong(Updated(tree, path, count), tree, Along(path), count)
BY DEF AddsAlong, Updated, UpdateDict, Increment

\* updateTree leaves a tree whose links lead to all its nodes.
LEMMA UpdatedTreeOK ==
  ASSUME NEW header, NEW links, NEW tree, TreeOK(header, links, tree),
         NEW path, PathOf(path, DOMAIN header), NEW count \in Nat
  PROVE  TreeOK(header, Linked(links, tree, path), Updated(tree, path, count))
<1>1. PICK F, A : F = DOMAIN header /\ A = Along(path)
  OBVIOUS
<1>2. PICK more, tree2 : more = Linked(links, tree, path) /\ tree2 = Updated(tree, path, count)
  OBVIOUS
<1>3. /\ IsFiniteSet(A) /\ A \subseteq Seq(F) \ {<<>>}
      /\ \A n \in A : /\ \A i, j \in 1 .. Len(n) : n[i] = n[j] => i = j
                      /\ Len(n) > 1 => Front(n) \in A
  BY <1>1, AlongFacts
<1>4. /\ IsFiniteSet(DOMAIN tree) /\ DOMAIN tree \subseteq Seq(F) \ {<<>>}
      /\ \A n \in DOMAIN tree : /\ tree[n] \in Nat
                                /\ \A i, j \in 1 .. Len(n) : n[i] = n[j] => i = j
                                /\ Len(n) > 1 => Front(n) \in DOMAIN tree
  BY <1>1 DEF TreeOK
<1>5. /\ DOMAIN tree2 = DOMAIN tree \cup A
      /\ \A n \in DOMAIN tree \cup A :
           tree2[n] = IF n \in A THEN IF n \in DOMAIN tree THEN tree[n] + count ELSE count ELSE tree[n]
  <2>1. AddsAlong(tree2, tree, A, count)
    BY <1>1, <1>2, UpdatedEntries
  <2> QED BY <2>1 DEF AddsAlong
<1>6. IsFiniteSet(DOMAIN tree2)
  <2>1. IsFiniteSet(DOMAIN tree \cup A)
    BY <1>3, <1>4, FS_Union
  <2> QED BY <1>5, <2>1
<1>7. \A n \in DOMAIN tree2 : tree2[n] \in Nat
  BY <1>4, <1>5
<1>8. \A n \in DOMAIN tree2 : /\ \A i, j \in 1 .. Len(n) : n[i] = n[j] => i = j
                              /\ Len(n) > 1 => Front(n) \in DOMAIN tree2
  BY <1>3, <1>4, <1>5
<1>9. DOMAIN more = F /\ DOMAIN links = F
  BY <1>1, <1>2 DEF Linked, TreeOK
<1>10. ASSUME NEW x \in F
       PROVE  /\ more[x] \in Seq(DOMAIN tree2) /\ IsInjective(more[x])
              /\ ToSet(more[x]) = {n \in DOMAIN tree2 : Last(n) = x}
  <2>1. PICK old, fresh : old = links[x] /\ fresh = SetToSeq(NewNodes(tree, path, x))
    OBVIOUS
  <2>2. more[x] = old \o fresh
    BY <1>1, <1>2, <1>9, <2>1 DEF Linked, UpdateLinkedList
  <2>3. old \in Seq(DOMAIN tree) /\ IsInjective(old) /\ ToSet(old) = {n \in DOMAIN tree : Last(n) = x}
    BY <1>9, <2>1 DEF TreeOK
  <2>4. NewNodes(tree, path, x) \subseteq A /\ IsFiniteSet(NewNodes(tree, path, x))
    BY <1>1, <1>3, FS_Subset DEF NewNodes
  <2>5. fresh \in Seq(NewNodes(tree, path, x)) /\ IsInjective(fresh) /\ ToSet(fresh) = NewNodes(tree, path, x)
    BY <2>1, <2>4, SetToSeqProperties
  <2>6. old \in Seq(DOMAIN tree2) /\ fresh \in Seq(DOMAIN tree2)
    BY <1>5, <2>3, <2>4, <2>5, SeqMonotonic
  <2>7. ToSet(old) \cap ToSet(fresh) = {}
    BY <2>3, <2>5 DEF NewNodes
  <2>8. more[x] \in Seq(DOMAIN tree2) /\ IsInjective(more[x]) /\ ToSet(more[x]) = ToSet(old) \cup ToSet(fresh)
    BY <2>2, <2>3, <2>5, <2>6, <2>7, ConcatInjective
  <2>9. ToSet(old) \cup ToSet(fresh) = {n \in DOMAIN tree2 : Last(n) = x}
    BY <1>1, <1>5, <2>3, <2>5 DEF NewNodes
  <2> QED BY <2>8, <2>9
<1>11. DOMAIN header \subseteq Items /\ \A x \in DOMAIN header : header[x] \in Nat
  BY DEF TreeOK
<1>12. DOMAIN tree2 \subseteq Seq(F) \ {<<>>}
  BY <1>3, <1>4, <1>5
<1> QED BY <1>1, <1>2, <1>6, <1>7, <1>8, <1>9, <1>10, <1>11, <1>12 DEF TreeOK

\* The path holds x below all of T.
Passes(path, x, T) == \E i \in 1 .. Len(path) : path[i] = x /\ T \subseteq {path[j] : j \in 1 .. i - 1}

\* Weights are sums of finitely many numbers.
LEMMA HoldingFinite ==
  ASSUME NEW header, NEW links, NEW tree, TreeOK(header, links, tree), NEW x, NEW T
  PROVE  /\ IsFiniteSet(Holding(tree, x, T)) /\ \A n \in Holding(tree, x, T) : tree[n] \in Nat
         /\ Weight(tree, x, T) \in Nat
<1>1. IsFiniteSet(Holding(tree, x, T))
  BY FS_Subset DEF TreeOK, Holding
<1>2. \A n \in Holding(tree, x, T) : tree[n] \in Nat
  BY DEF TreeOK, Holding
<1> QED BY <1>1, <1>2, SumType DEF Weight

\* The count of a pattern goes to one node of each of its items, the one with the
\* items above it that the path has before.
LEMMA WeightUpdated ==
  ASSUME NEW header, NEW links, NEW tree, TreeOK(header, links, tree),
         NEW path, PathOf(path, DOMAIN header), NEW count \in Nat, NEW x, NEW T
  PROVE  Weight(Updated(tree, path, count), x, T) =
           Weight(tree, x, T) + IF Passes(path, x, T) THEN count ELSE 0
<1>1. PICK F, A, tree2 : F = DOMAIN header /\ A = Along(path) /\ tree2 = Updated(tree, path, count)
  OBVIOUS
<1>2. /\ DOMAIN tree2 = DOMAIN tree \cup A
      /\ \A n \in DOMAIN tree \cup A :
           tree2[n] = IF n \in A THEN IF n \in DOMAIN tree THEN tree[n] + count ELSE count ELSE tree[n]
  <2>1. AddsAlong(tree2, tree, A, count)
    BY <1>1, UpdatedEntries
  <2> QED BY <2>1 DEF AddsAlong
<1>3. PICK N : N = Holding(tree, x, T)
  OBVIOUS
<1>4. IsFiniteSet(N) /\ (\A n \in N : tree[n] \in Nat) /\ SumFunctionOnSet(tree, N) \in Nat
      /\ Weight(tree, x, T) = SumFunctionOnSet(tree, N)
  BY <1>3, HoldingFinite DEF Weight
<1>5. path \in Seq(F) /\ DOMAIN path = 1 .. Len(path) /\ \A n, m \in A : Last(n) = Last(m) => n = m
  BY <1>1, AlongFacts, LenProperties DEF PathOf
<1>6. \A i \in 1 .. Len(path) : /\ SubSeq(path, 1, i) \in A /\ Last(SubSeq(path, 1, i)) = path[i]
                                /\ Prefix(SubSeq(path, 1, i)) = {path[j] : j \in 1 .. i - 1}
  <2> SUFFICES ASSUME NEW i \in 1 .. Len(path)
               PROVE  /\ SubSeq(path, 1, i) \in A /\ Last(SubSeq(path, 1, i)) = path[i]
                      /\ Prefix(SubSeq(path, 1, i)) = {path[j] : j \in 1 .. i - 1}
    OBVIOUS
  <2>1. SubSeq(path, 1, i) \in A
    BY <1>1, <1>5 DEF Along
  <2>2. Last(SubSeq(path, 1, i)) = path[i] /\ Prefix(SubSeq(path, 1, i)) = {path[j] : j \in 1 .. i - 1}
    BY <1>5, BeginningFacts
  <2> QED BY <2>1, <2>2
<1>7. CASE Passes(path, x, T)
  <2>1. PICK i \in 1 .. Len(path) : path[i] = x /\ T \subseteq {path[j] : j \in 1 .. i - 1}
    BY <1>7 DEF Passes
  <2>2. PICK m : m = SubSeq(path, 1, i)
    OBVIOUS
  <2>3. m \in A /\ Last(m) = x /\ T \subseteq Prefix(m)
    BY <1>6, <2>1, <2>2
  <2>4. Holding(tree2, x, T) = N \cup {m}
    BY <1>2, <1>3, <1>5, <2>3 DEF Holding
  <2>5. \A n \in N \ {m} : tree2[n] = tree[n]
    BY <1>2, <1>3, <1>5, <2>3 DEF Holding
  <2>6. (m \in N => tree2[m] = tree[m] + count) /\ (m \notin N => tree2[m] = count)
    BY <1>2, <1>3, <2>3 DEF Holding
  <2>7. SumFunctionOnSet(tree2, N \cup {m}) = SumFunctionOnSet(tree, N) + count
    <3>1. IsFiniteSet(N) /\ \A n \in N : tree[n] \in Nat
      BY <1>4
    <3> QED BY <2>5, <2>6, <3>1, SumInsert
  <2> QED BY <1>1, <1>4, <1>7, <2>4, <2>7 DEF Weight
<1>8. CASE ~Passes(path, x, T)
  <2>1. ASSUME NEW n \in A, Last(n) = x, T \subseteq Prefix(n)  PROVE FALSE
    <3>1. PICK i \in 1 .. Len(path) : n = SubSeq(path, 1, i)
      BY <1>1, <1>5 DEF Along
    <3> QED BY <1>6, <1>8, <2>1, <3>1 DEF Passes
  <2>2. Holding(tree2, x, T) = N
    BY <1>2, <1>3, <2>1 DEF Holding
  <2>3. \A n \in N : tree2[n] = tree[n]
    BY <1>2, <1>3, <2>1 DEF Holding
  <2>4. SumFunctionOnSet(tree2, N) = SumFunctionOnSet(tree, N)
    BY <1>4, <2>3, SumEqual
  <2> QED BY <1>1, <1>4, <1>8, <2>2, <2>4 DEF Weight
<1> QED BY <1>7, <1>8

-----------------------------------------------------------------------------
(* Pattern bases. *)

\* The patterns of a base have nothing in common with the suffix that it is for.
BaseOK(base, suffix) ==
  /\ DOMAIN base \subseteq SUBSET (Items \ suffix)
  /\ \A p \in DOMAIN base : base[p] \in Nat

\* So are the weights of pattern bases.
LEMMA BaseFinite ==
  ASSUME NEW base, NEW suffix, BaseOK(base, suffix), NEW T
  PROVE  /\ IsFiniteSet({p \in DOMAIN base : T \subseteq p})
         /\ \A p \in DOMAIN base : base[p] \in Nat
         /\ BaseWeight(base, T) \in Nat
<1>1. IsFiniteSet(SUBSET Items)
  BY ItemsAssumption, FS_SUBSET
<1>2. {p \in DOMAIN base : T \subseteq p} \in SUBSET (SUBSET Items)
  BY DEF BaseOK
<1>3. IsFiniteSet({p \in DOMAIN base : T \subseteq p})
  BY <1>1, <1>2, FS_Subset
<1>4. \A p \in DOMAIN base : base[p] \in Nat
  BY DEF BaseOK
<1> QED BY <1>3, <1>4, SumType DEF BaseWeight

\* What a pattern weighs leaves the base with it.
LEMMA BaseWithout ==
  ASSUME NEW base, NEW suffix, BaseOK(base, suffix), NEW p \in DOMAIN base, NEW T,
         NEW rest, rest = [q \in DOMAIN base \ {p} |-> base[q]]
  PROVE  /\ BaseOK(rest, suffix)
         /\ BaseWeight(base, T) = BaseWeight(rest, T) + IF T \subseteq p THEN base[p] ELSE 0
<1>1. BaseOK(rest, suffix)
  BY DEF BaseOK
<1>2. PICK all, left : all = {q \in DOMAIN base : T \subseteq q} /\ left = {q \in DOMAIN rest : T \subseteq q}
  OBVIOUS
<1>3. IsFiniteSet(all) /\ (\A q \in all : base[q] \in Nat) /\ IsFiniteSet(left)
  BY <1>1, <1>2, BaseFinite
<1>4. SumFunctionOnSet(rest, left) = SumFunctionOnSet(base, left)
  <2>1. \A q \in left : base[q] \in Nat /\ rest[q] = base[q]
    BY <1>2, <1>3
  <2> QED BY <1>3, <2>1, SumEqual
<1>5. SumFunctionOnSet(base, left) \in Nat /\ base[p] \in Nat
  <2>1. \A q \in left : base[q] \in Nat
    BY <1>2, <1>3
  <2> QED BY <1>3, <2>1, SumType DEF BaseOK
<1>6. CASE T \subseteq p
  <2>1. p \in all /\ all \ {p} = left
    BY <1>2, <1>6
  <2>2. SumFunctionOnSet(base, all) = base[p] + SumFunctionOnSet(base, left)
    BY <1>3, <2>1, SumRemove
  <2>3. SumFunctionOnSet(base, all) = SumFunctionOnSet(rest, left) + base[p]
    <3>1. PICK k, m : k = base[p] /\ m = SumFunctionOnSet(base, left)
      OBVIOUS
    <3>2. k \in Nat /\ m \in Nat /\ SumFunctionOnSet(rest, left) = m /\ SumFunctionOnSet(base, all) = k + m
      BY <1>4, <1>5, <2>2, <3>1
    <3> QED BY <3>1, <3>2
  <2> QED BY <1>1, <1>2, <1>6, <2>3 DEF BaseWeight
<1>7. CASE ~(T \subseteq p)
  <2>1. all = left
    BY <1>2, <1>7
  <2>2. SumFunctionOnSet(base, all) = SumFunctionOnSet(rest, left) + 0
    BY <1>4, <1>5, <2>1
  <2> QED BY <1>1, <1>2, <1>7, <2>2 DEF BaseWeight
<1> QED BY <1>6, <1>7

\* An inner node's prefix is not empty, and does not hold its name.
LEMMA PrefixFacts ==
  ASSUME NEW header, NEW links, NEW tree, TreeOK(header, links, tree), NEW n \in DOMAIN tree
  PROVE  /\ n \in Seq(DOMAIN header) /\ n # <<>> /\ Last(n) \in DOMAIN header
         /\ Prefix(n) \subseteq DOMAIN header \ {Last(n)}
         /\ Prefix(n) = {n[j] : j \in 1 .. Len(n) - 1}
         /\ Len(n) > 1 <=> Prefix(n) # {}
<1>1. n \in Seq(DOMAIN header) /\ n # <<>> /\ \A i, j \in 1 .. Len(n) : n[i] = n[j] => i = j
  BY DEF TreeOK
<1>2. /\ Len(n) \in Nat \ {0} /\ Last(n) = n[Len(n)] /\ Last(n) \in DOMAIN header
      /\ Prefix(n) = {n[j] : j \in 1 .. Len(n) - 1}
  BY <1>1, NodeFacts
<1>3. \A j \in 1 .. Len(n) - 1 : j \in 1 .. Len(n) /\ n[j] \in DOMAIN header /\ n[j] # n[Len(n)]
  <2> SUFFICES ASSUME NEW j \in 1 .. Len(n) - 1
               PROVE  j \in 1 .. Len(n) /\ n[j] \in DOMAIN header /\ n[j] # n[Len(n)]
    OBVIOUS
  <2>1. j \in 1 .. Len(n) /\ Len(n) \in 1 .. Len(n) /\ j # Len(n)
    BY <1>2
  <2>2. n[j] \in DOMAIN header
    BY <1>1, <2>1, ElementOfSeq
  <2> QED BY <1>1, <2>1, <2>2
<1>4. Len(n) > 1 <=> Prefix(n) # {}
  <2>1. Len(n) > 1 => 1 \in 1 .. Len(n) - 1
    BY <1>2
  <2>2. ~(Len(n) > 1) => 1 .. Len(n) - 1 = {}
    BY <1>2
  <2> QED BY <1>2, <2>1, <2>2
<1> QED BY <1>1, <1>2, <1>3, <1>4

\* The base has the prefixes of the inner nodes of x, each with the count of one
\* of its nodes.
PrefixesOf(base, tree, x) ==
  /\ \A n \in DOMAIN tree : Last(n) = x /\ Len(n) > 1 => Prefix(n) \in DOMAIN base
  /\ \A P \in DOMAIN base :
       \E n \in DOMAIN tree : Last(n) = x /\ Len(n) > 1 /\ Prefix(n) = P /\ base[P] = tree[n]

\* findConditionalPatternBase returns the prefixes of the inner nodes of an item.
LEMMA ConditionalBase ==
  ASSUME NEW header, NEW links, NEW tree, TreeOK(header, links, tree), NEW x \in DOMAIN header,
         NEW base, base = FindConditionalPatternBase(links[x], tree)
  PROVE  PrefixesOf(base, tree, x)
<1>1. PICK list : list = links[x]
  OBVIOUS
<1>2. list \in Seq(DOMAIN tree) /\ ToSet(list) = {n \in DOMAIN tree : Last(n) = x}
  BY <1>1 DEF TreeOK
<1>3. DOMAIN list = 1 .. Len(list) /\ Len(list) \in Nat
  BY <1>2, LenProperties
<1> DEFINE inner == {i \in DOMAIN list : Len(list[i]) > 1}
           Latest(P) == CHOOSE i \in inner :
                          Prefix(list[i]) = P /\ \A j \in inner : Prefix(list[j]) = P => j <= i
<1>4. base = [P \in {Prefix(list[i]) : i \in inner} |-> tree[list[Latest(P)]]]
  BY <1>1 DEF FindConditionalPatternBase
<1>5. \A i \in inner : list[i] \in DOMAIN tree /\ Last(list[i]) = x /\ Len(list[i]) > 1
  BY <1>2 DEF ToSet
<1>6. ASSUME NEW i \in inner
      PROVE  Latest(Prefix(list[i])) \in inner /\ Prefix(list[Latest(Prefix(list[i]))]) = Prefix(list[i])
  <2> DEFINE K == {j \in inner : Prefix(list[j]) = Prefix(list[i])}
  <2>1. K \in SUBSET (1 .. Len(list)) /\ K # {}
    BY <1>3
  <2>2. PICK k \in K : \A j \in K : j <= k
    <3> HIDE DEF K
    <3> QED BY <1>3, <2>1, Greatest
  <2>3. k \in inner /\ Prefix(list[k]) = Prefix(list[i])
        /\ \A j \in inner : Prefix(list[j]) = Prefix(list[i]) => j <= k
    BY <2>2
  <2> HIDE DEF inner
  <2> QED BY <2>3
<1> HIDE DEF Latest
<1>7. ASSUME NEW n \in DOMAIN tree, Last(n) = x, Len(n) > 1  PROVE Prefix(n) \in DOMAIN base
  <2>1. PICK i \in DOMAIN list : list[i] = n
    BY <1>2, <1>7 DEF ToSet
  <2> QED BY <1>4, <1>7, <2>1
<1>8. ASSUME NEW P \in DOMAIN base
      PROVE  \E n \in DOMAIN tree : Last(n) = x /\ Len(n) > 1 /\ Prefix(n) = P /\ base[P] = tree[n]
  <2>1. PICK i \in inner : P = Prefix(list[i])
    BY <1>4
  <2>2. Latest(P) \in inner /\ Prefix(list[Latest(P)]) = P /\ base[P] = tree[list[Latest(P)]]
    BY <1>4, <1>6, <2>1
  <2> HIDE DEF inner
  <2> QED BY <1>5, <2>2
<1> QED BY <1>7, <1>8 DEF PrefixesOf

-----------------------------------------------------------------------------
(* The first inductive invariant: the trees are what updateTree makes of the *)
(* patterns, in all runs of all listings.                                     *)

CurrentFrame ==
  [header |-> headerTable, links |-> nodeLinks, tree |-> fpTree,
   suffix |-> suffixPattern, items |-> DOMAIN headerTable]

\* A call of mineTree: its tree is complete, and the header table tells what the
\* nodes of each item weigh.
FrameOK(t) ==
  /\ t = [header |-> t.header, links |-> t.links, tree |-> t.tree,
          suffix |-> t.suffix, items |-> t.items]
  /\ TreeOK(t.header, t.links, t.tree)
  /\ t.suffix \subseteq Items \ DOMAIN t.header
  /\ t.items \subseteq DOMAIN t.header
  /\ \A x \in DOMAIN t.header : t.header[x] = Weight(t.tree, x, {})

\* The tree under construction: the patterns left in the base are still missing.
BuildOK ==
  /\ listing \in Listings
  /\ TreeOK(headerTable, nodeLinks, fpTree)
  /\ DOMAIN headerTable \subseteq Items \ suffixPattern
  /\ \A x \in DOMAIN headerTable :
       headerTable[x] = Weight(fpTree, x, {}) + BaseWeight(patternBase, {x})

StackOK ==
  /\ \E S : stack \in Seq(S)
  /\ \A i \in 1 .. Len(stack) : FrameOK(stack[i])

IndInv ==
  /\ dataset \in Datasets /\ minSupport \in MinSupports
  /\ pc \in {"createTree", "insert", "mine", "returned", "raised"}
  /\ suffixPattern \in Itemset
  /\ BaseOK(patternBase, suffixPattern)
  /\ DOMAIN frequentItemsets \subseteq Itemset
  /\ StackOK
  /\ pc = "insert" => BuildOK

\* The count that createTree gives an item is a weight of the pattern base.
LEMMA OccurrencesWeight == \A x, base : Occurrences(x, base) = BaseWeight(base, {x})
<1> SUFFICES ASSUME NEW x, NEW base  PROVE Occurrences(x, base) = BaseWeight(base, {x})
  OBVIOUS
<1>1. {p \in DOMAIN base : x \in p} = {p \in DOMAIN base : {x} \subseteq p}
  OBVIOUS
<1> QED BY <1>1 DEF Occurrences, BaseWeight

\* A tree and a pattern base without entries weigh nothing.
LEMMA EmptyWeights ==
  /\ \A x, T : Weight(EmptyDict, x, T) = 0
  /\ \A T : BaseWeight(EmptyDict, T) = 0
<1>1. \A x, T : Holding(EmptyDict, x, T) = {}
  BY DEF EmptyDict, Holding
<1>2. \A T : {p \in DOMAIN EmptyDict : T \subseteq p} = {}
  BY DEF EmptyDict
<1> QED BY <1>1, <1>2, SumEmpty DEF Weight, BaseWeight

\* A header table without nodes is a tree.
LEMMA EmptyTreeOK ==
  ASSUME NEW header, DOMAIN header \subseteq Items, \A x \in DOMAIN header : header[x] \in Nat,
         NEW links, links = [x \in DOMAIN header |-> <<>>]
  PROVE  TreeOK(header, links, EmptyDict)
<1>1. DOMAIN EmptyDict = {}
  BY DEF EmptyDict
<1>2. IsFiniteSet(DOMAIN EmptyDict)
  BY <1>1, FS_EmptySet
<1>3. \A x \in DOMAIN links :
        /\ links[x] \in Seq(DOMAIN EmptyDict)
        /\ IsInjective(links[x])
        /\ ToSet(links[x]) = {n \in DOMAIN EmptyDict : Last(n) = x}
  <2> SUFFICES ASSUME NEW x \in DOMAIN links
               PROVE  /\ links[x] \in Seq(DOMAIN EmptyDict)
                      /\ IsInjective(links[x])
                      /\ ToSet(links[x]) = {n \in DOMAIN EmptyDict : Last(n) = x}
    OBVIOUS
  <2>1. links[x] = <<>> /\ <<>> \in Seq(DOMAIN EmptyDict) /\ Len(<<>>) = 0
    BY EmptySeq
  <2>2. DOMAIN links[x] = {}
    BY <2>1
  <2> QED BY <1>1, <2>1, <2>2 DEF IsInjective, ToSet
<1> QED BY <1>1, <1>2, <1>3 DEF TreeOK

\* createInitPatternBase makes a pattern base of the transactions.
LEMMA InitInv == Init => IndInv
<1> SUFFICES ASSUME Init  PROVE IndInv
  OBVIOUS
<1>1. dataset \in Seq(Itemset)
  BY DatasetsAssumption DEF Init
<1>2. ToSet(dataset) \subseteq Itemset
  BY <1>1, LenProperties, ElementOfSeq DEF ToSet
<1>3. BaseOK(patternBase, suffixPattern)
  BY <1>2 DEF Init, BaseOK, Itemset
<1>4. StackOK
  <2>1. stack \in Seq({}) /\ Len(stack) = 0
    BY EmptySeq DEF Init
  <2> QED BY <2>1 DEF StackOK
<1>5. DOMAIN frequentItemsets \subseteq Itemset /\ suffixPattern \in Itemset
  BY DEF Init, EmptyDict, Itemset
<1> QED BY <1>3, <1>4, <1>5 DEF Init, IndInv

\* The path of a pattern has the items of the pattern that are in the header table.
LEMMA PathFacts ==
  ASSUME listing \in Listings, NEW p \in Itemset, \A x \in DOMAIN headerTable : headerTable[x] \in Nat
  PROVE  /\ PathOf(OrderedItems(p), DOMAIN headerTable)
         /\ \A x \in DOMAIN headerTable : Passes(OrderedItems(p), x, {}) <=> {x} \subseteq p
<1>1. PICK path : path = OrderedItems(p)
  OBVIOUS
<1>2. /\ path \in Seq(Effective(p))
      /\ \A i, j \in 1 .. Len(path) : path[i] = path[j] => i = j
      /\ \A x \in Effective(p) : \E i \in 1 .. Len(path) : path[i] = x
  BY <1>1, OrderedItemsProperties
<1>3. path \in Seq(DOMAIN headerTable)
  BY <1>2, SeqMonotonic DEF Effective
<1>4. \A i \in 1 .. Len(path) : path[i] \in p
  BY <1>2, ElementOfSeq DEF Effective
<1>5. \A x \in DOMAIN headerTable : Passes(path, x, {}) <=> {x} \subseteq p
  BY <1>2, <1>4 DEF Passes, Effective
<1> QED BY <1>1, <1>2, <1>3, <1>5 DEF PathOf

\* The first scan of createTree: the header table has the weights of the base.
LEMMA CountItemsInv == ASSUME IndInv, CountItems  PROVE IndInv'
<1> DEFINE items == UNION DOMAIN patternBase
           frequent == {x \in items : MeetsSupport(Occurrences(x, patternBase))}
<1>1. UNCHANGED <<dataset, minSupport, patternBase, suffixPattern, stack, frequentItemsets>>
  BY DEF CountItems
<1>2. StackOK' /\ BaseOK(patternBase, suffixPattern)'
  BY <1>1 DEF IndInv, StackOK, FrameOK, BaseOK
<1>3. CASE frequent = {}
  <2>1. pc' \in {"raised", "mine"}
    BY <1>3 DEF CountItems
  <2> QED BY <1>1, <1>2, <2>1 DEF IndInv
<1>4. CASE frequent # {}
  <2>1. /\ headerTable' = [x \in frequent |-> Occurrences(x, patternBase)]
        /\ nodeLinks' = [x \in frequent |-> <<>>]
        /\ fpTree' = EmptyDict
        /\ listing' \in Listings
        /\ pc' = "insert"
    BY <1>4 DEF CountItems
  <2>2. frequent \subseteq Items \ suffixPattern
    BY DEF IndInv, BaseOK
  <2>3. \A x \in frequent : headerTable'[x] = BaseWeight(patternBase, {x}) /\ headerTable'[x] \in Nat
    BY <2>1, OccurrencesWeight, BaseFinite DEF IndInv
  <2> HIDE DEF frequent
  <2>4. DOMAIN headerTable' = frequent /\ nodeLinks' = [x \in DOMAIN headerTable' |-> <<>>]
    BY <2>1
  <2>5. TreeOK(headerTable', nodeLinks', EmptyDict)
    BY <2>2, <2>3, <2>4, EmptyTreeOK
  <2>6. \A x \in DOMAIN headerTable' :
          headerTable'[x] = Weight(EmptyDict, x, {}) + BaseWeight(patternBase, {x})
    <3>1. \A x \in frequent : Weight(EmptyDict, x, {}) = 0
      BY EmptyWeights
    <3> QED BY <2>3, <2>4, <3>1
  <2>7. BuildOK'
    BY <1>1, <2>1, <2>2, <2>4, <2>5, <2>6 DEF BuildOK
  <2> QED BY <1>1, <1>2, <2>1, <2>7 DEF IndInv
<1> QED BY <1>3, <1>4

\* A pattern moves from the base to the tree; the sum of their weights stays.
LEMMA InsertPatternInv == ASSUME IndInv, InsertPattern  PROVE IndInv'
<1>1. PICK p \in DOMAIN patternBase :
        /\ UpdateTree(OrderedItems(p), patternBase[p])
        /\ patternBase' = [q \in DOMAIN patternBase \ {p} |-> patternBase[q]]
  BY DEF InsertPattern
<1>2. /\ pc = "insert"
      /\ UNCHANGED <<dataset, minSupport, pc, listing, headerTable, suffixPattern, stack, frequentItemsets>>
  BY DEF InsertPattern
<1>3. BuildOK /\ BaseOK(patternBase, suffixPattern) /\ p \in Itemset /\ patternBase[p] \in Nat
  BY <1>2 DEF IndInv, BaseOK, Itemset
<1>4. StackOK'
  BY <1>2 DEF IndInv, StackOK, FrameOK
<1>5. PICK path, count : path = OrderedItems(p) /\ count = patternBase[p]
  OBVIOUS
<1>6. fpTree' = Updated(fpTree, path, count) /\ nodeLinks' = Linked(nodeLinks, fpTree, path)
  BY <1>1, <1>5, UpdateTreeEffect
<1>7. /\ PathOf(path, DOMAIN headerTable)
      /\ \A x \in DOMAIN headerTable : Passes(path, x, {}) <=> {x} \subseteq p
  BY <1>3, <1>5, PathFacts DEF BuildOK, TreeOK
<1>8. TreeOK(headerTable, nodeLinks', fpTree')
  BY <1>3, <1>5, <1>6, <1>7, UpdatedTreeOK DEF BuildOK
<1>9. BaseOK(patternBase', suffixPattern)
  BY <1>1, <1>3 DEF BaseOK
<1>10. ASSUME NEW x \in DOMAIN headerTable
       PROVE  headerTable[x] = Weight(fpTree', x, {}) + BaseWeight(patternBase', {x})
  <2>1. Weight(fpTree', x, {}) = Weight(fpTree, x, {}) + IF Passes(path, x, {}) THEN count ELSE 0
    BY <1>3, <1>5, <1>6, <1>7, WeightUpdated DEF BuildOK
  <2>2. BaseWeight(patternBase, {x}) = BaseWeight(patternBase', {x}) + IF {x} \subseteq p THEN count ELSE 0
    BY <1>1, <1>3, <1>5, BaseWithout
  <2>3. headerTable[x] = Weight(fpTree, x, {}) + BaseWeight(patternBase, {x})
    BY <1>3 DEF BuildOK
  <2>4. PICK add : add = IF {x} \subseteq p THEN count ELSE 0
    OBVIOUS
  <2>5. Weight(fpTree', x, {}) = Weight(fpTree, x, {}) + add
    BY <1>7, <2>1, <2>4
  <2>6. BaseWeight(patternBase, {x}) = BaseWeight(patternBase', {x}) + add
    BY <2>2, <2>4
  <2>7. Weight(fpTree, x, {}) \in Nat /\ BaseWeight(patternBase', {x}) \in Nat /\ add \in Nat
    BY <1>3, <1>5, <1>9, <2>4, HoldingFinite, BaseFinite DEF BuildOK
  <2> QED BY <2>3, <2>5, <2>6, <2>7
<1>11. BuildOK'
  BY <1>2, <1>3, <1>8, <1>10 DEF BuildOK
<1> QED BY <1>2, <1>4, <1>9, <1>11 DEF IndInv

\* When the base is empty the header table tells the weights of the tree alone.
LEMMA CallMineTreeInv == ASSUME IndInv, CallMineTree  PROVE IndInv'
<1>1. /\ pc = "insert" /\ patternBase = EmptyDict /\ pc' = "mine"
      /\ stack' = Append(stack, CurrentFrame)
      /\ UNCHANGED <<dataset, minSupport, patternBase, listing, treeVars, suffixPattern, frequentItemsets>>
  BY DEF CallMineTree, CurrentFrame
<1>2. BuildOK
  BY <1>1 DEF IndInv
<1>3. FrameOK(CurrentFrame)
  <2>1. \A x \in DOMAIN headerTable : headerTable[x] = Weight(fpTree, x, {})
    <3> SUFFICES ASSUME NEW x \in DOMAIN headerTable  PROVE headerTable[x] = Weight(fpTree, x, {})
      OBVIOUS
    <3>1. BaseWeight(patternBase, {x}) = 0
      BY <1>1, EmptyWeights
    <3>2. Weight(fpTree, x, {}) \in Nat
      BY <1>2, HoldingFinite DEF BuildOK
    <3> QED BY <1>2, <3>1, <3>2 DEF BuildOK
  <2>2. PICK r : r = CurrentFrame
    OBVIOUS
  <2>3. /\ r = [header |-> headerTable, links |-> nodeLinks, tree |-> fpTree,
                suffix |-> suffixPattern, items |-> DOMAIN headerTable]
        /\ r.header = headerTable /\ r.links = nodeLinks /\ r.tree = fpTree
        /\ r.suffix = suffixPattern /\ r.items = DOMAIN headerTable
    BY <2>2 DEF CurrentFrame
  <2>4. /\ TreeOK(headerTable, nodeLinks, fpTree) /\ suffixPattern \subseteq Items
        /\ DOMAIN headerTable \subseteq Items \ suffixPattern
    BY <1>2 DEF BuildOK, IndInv, Itemset
  <2>5. FrameOK(r)
    BY <2>1, <2>3, <2>4 DEF FrameOK
  <2> QED BY <2>2, <2>5
<1>4. StackOK'
  <2>1. PICK S : stack \in Seq(S)
    BY DEF IndInv, StackOK
  <2>2. PICK r : r = CurrentFrame
    OBVIOUS
  <2>3. stack \in Seq(S \cup {r})
    BY <2>1, SeqMonotonic
  <2>4. stack' \in Seq(S \cup {r}) /\ Len(stack') = Len(stack) + 1
    BY <1>1, <2>2, <2>3
  <2>5. \A i \in 1 .. Len(stack') : stack'[i] = IF i <= Len(stack) THEN stack[i] ELSE r
    BY <1>1, <2>2, <2>3
  <2>6. \A i \in 1 .. Len(stack') : FrameOK(stack'[i])
    <3> SUFFICES ASSUME NEW i \in 1 .. Len(stack')  PROVE FrameOK(stack'[i])
      OBVIOUS
    <3>1. CASE i <= Len(stack)
      <4>1. i \in 1 .. Len(stack) /\ stack'[i] = stack[i]
        BY <2>3, <2>4, <2>5, <3>1, LenProperties
      <4> QED BY <4>1 DEF IndInv, StackOK
    <3>2. CASE ~(i <= Len(stack))
      BY <1>3, <2>2, <2>5, <3>2
    <3> QED BY <3>1, <3>2
  <2>7. \E X : stack' \in Seq(X)
    BY <2>4
  <2>8. \A i \in 1 .. Len(stack)' : FrameOK(stack[i])'
    BY <2>6 DEF FrameOK
  <2> QED BY <2>7, <2>8 DEF StackOK
<1> QED BY <1>1, <1>4 DEF IndInv, BaseOK, treeVars

\* A round of the loop takes an item from the innermost call.
LEMMA LoopOnFacts ==
  ASSUME StackOK, stack # <<>>, NEW x, LoopOn(x)
  PROVE  /\ \E X : stack' \in Seq(X)
         /\ Len(stack') = Len(stack)
         /\ \A i \in 1 .. Len(stack) : i # Len(stack) => stack'[i] = stack[i]
         /\ stack'[Len(stack)] =
              [header |-> Last(stack).header, links |-> Last(stack).links, tree |-> Last(stack).tree,
               suffix |-> Last(stack).suffix, items |-> Last(stack).items \ {x}]
<1>1. PICK S : stack \in Seq(S)
  BY DEF StackOK
<1>2. PICK l, frame : l = Len(stack) /\ frame = Last(stack)
  OBVIOUS
<1>3. l \in Nat \ {0} /\ DOMAIN stack = 1 .. l /\ frame = stack[l] /\ l \in 1 .. l
  BY <1>1, <1>2, LenProperties, EmptySeq DEF Last
<1>4. PICK header, links, tree, suffix, items :
        /\ header = frame.header /\ links = frame.links /\ tree = frame.tree
        /\ suffix = frame.suffix /\ items = frame.items
  OBVIOUS
<1>5. frame = [header |-> header, links |-> links, tree |-> tree, suffix |-> suffix, items |-> items]
  BY <1>2, <1>3, <1>4 DEF StackOK, FrameOK
<1>6. PICK r : r = [header |-> header, links |-> links, tree |-> tree, suffix |-> suffix,
                    items |-> items \ {x}]
  OBVIOUS
<1>7. stack' = [stack EXCEPT ![l] = [frame EXCEPT !.items = items \ {x}]]
  BY <1>2, <1>3, <1>4 DEF LoopOn
<1>8. [frame EXCEPT !.items = items \ {x}] = r
  <2>1. PICK left : left = items \ {x}
    OBVIOUS
  <2>2. [frame EXCEPT !.items = left] = r
    BY ONLY <1>5, <1>6, <2>1
  <2> QED BY <2>1, <2>2
<1>9. stack' = [stack EXCEPT ![l] = r]
  BY <1>7, <1>8
<1>10. stack \in Seq(S \cup {r})
  BY <1>1, SeqMonotonic
<1>11. stack' \in Seq(S \cup {r}) /\ Len(stack') = l
  BY <1>2, <1>3, <1>9, <1>10, ExceptSeq
<1>12. stack'[l] = r /\ \A i \in 1 .. l : i # l => stack'[i] = stack[i]
  BY <1>3, <1>9
<1> QED BY <1>2, <1>4, <1>6, <1>11, <1>12

\* The pattern base of an item comes from a tree that is well-formed.
LEMMA MineItemInv == ASSUME IndInv, MineItem  PROVE IndInv'
<1>1. PICK frame : frame = Last(stack)
  OBVIOUS
<1>2. PICK x \in frame.items :
        /\ suffixPattern' = frame.suffix \cup {x}
        /\ frequentItemsets' = frequentItemsets (+) SetToBag({suffixPattern'})
        /\ patternBase' = FindConditionalPatternBase(frame.links[x], frame.tree)
        /\ stack' = [stack EXCEPT ![Len(stack)].items = @ \ {x}]
  BY <1>1 DEF MineItem, LoopOn
<1>3. pc = "mine" /\ stack # <<>> /\ pc' = "createTree" /\ UNCHANGED <<dataset, minSupport>>
  BY DEF MineItem
<1>4. PICK S : stack \in Seq(S)
  BY DEF IndInv, StackOK
<1>5. PICK l : l = Len(stack)
  OBVIOUS
<1>6. l \in Nat \ {0} /\ DOMAIN stack = 1 .. l /\ frame = stack[l] /\ l \in 1 .. l
  BY <1>1, <1>3, <1>4, <1>5, LenProperties, EmptySeq DEF Last
<1>7. \A i \in 1 .. l : FrameOK(stack[i])
  BY <1>5 DEF IndInv, StackOK
<1>8. FrameOK(frame)
  BY <1>6, <1>7
<1>9. PICK header, links, tree, suffix, items :
        /\ header = frame.header /\ links = frame.links /\ tree = frame.tree
        /\ suffix = frame.suffix /\ items = frame.items
  OBVIOUS
<1>10. /\ frame = [header |-> header, links |-> links, tree |-> tree, suffix |-> suffix, items |-> items]
       /\ TreeOK(header, links, tree) /\ suffix \subseteq Items \ DOMAIN header
       /\ items \subseteq DOMAIN header /\ x \in DOMAIN header
       /\ \A y \in DOMAIN header : header[y] = Weight(tree, y, {})
  BY <1>2, <1>8, <1>9 DEF FrameOK
<1>11. suffixPattern' \in Itemset
  BY <1>2, <1>9, <1>10 DEF TreeOK, Itemset
<1>12. BaseOK(patternBase, suffixPattern)'
  <2>1. patternBase' = FindConditionalPatternBase(links[x], tree)
    BY <1>2, <1>9
  <2>0. PrefixesOf(patternBase', tree, x)
    BY <1>10, <2>1, ConditionalBase
  <2>2. ASSUME NEW P \in DOMAIN patternBase'
        PROVE  P \subseteq Items \ suffixPattern' /\ patternBase'[P] \in Nat
    <3>1. PICK n \in DOMAIN tree : Last(n) = x /\ Len(n) > 1 /\ Prefix(n) = P /\ patternBase'[P] = tree[n]
      BY <2>0 DEF PrefixesOf
    <3>2. P \subseteq DOMAIN header \ {x}
      BY <1>10, <3>1, PrefixFacts
    <3>3. P \subseteq Items \ suffixPattern'
      BY <1>2, <1>9, <1>10, <3>2 DEF TreeOK
    <3>4. tree[n] \in Nat
      BY <1>10 DEF TreeOK
    <3> QED BY <3>1, <3>3, <3>4
  <2> QED BY <2>2 DEF BaseOK
<1>13. DOMAIN frequentItemsets' \subseteq Itemset
  <2>1. DOMAIN frequentItemsets' = DOMAIN frequentItemsets \cup {suffixPattern'}
    BY <1>2 DEF SetToBag, (+)
  <2> QED BY <1>11, <2>1 DEF IndInv
<1>14. StackOK'
  <2>1. stack # <<>> /\ LoopOn(x)
    BY <1>2, <1>3 DEF LoopOn
  <2>2. /\ \E X : stack' \in Seq(X)
        /\ Len(stack') = l
        /\ \A i \in 1 .. l : i # l => stack'[i] = stack[i]
        /\ stack'[l] = [header |-> header, links |-> links, tree |-> tree, suffix |-> suffix,
                        items |-> items \ {x}]
    BY <1>1, <1>5, <1>9, <2>1, LoopOnFacts DEF IndInv
  <2>3. FrameOK(stack'[l])
    BY <1>10, <2>2 DEF FrameOK
  <2>4. \A i \in 1 .. l : FrameOK(stack'[i])
    BY <1>7, <2>2, <2>3
  <2> QED BY <2>2, <2>4 DEF StackOK
<1> QED BY <1>3, <1>11, <1>12, <1>13, <1>14 DEF IndInv

\* The calls below the one that returns stay as they are.
LEMMA ReturnFromMineTreeInv == ASSUME IndInv, ReturnFromMineTree  PROVE IndInv'
<1>1. /\ stack # <<>> /\ stack' = Front(stack) /\ pc' \in {"returned", "mine"}
      /\ UNCHANGED <<dataset, minSupport, patternBase, listing, treeVars, suffixPattern, frequentItemsets>>
  BY DEF ReturnFromMineTree
<1>2. PICK S : stack \in Seq(S)
  BY DEF IndInv, StackOK
<1>3. stack' \in Seq(S) /\ Len(stack') = Len(stack) - 1 /\ Len(stack) \in Nat \ {0}
      /\ \A i \in 1 .. Len(stack) - 1 : stack'[i] = stack[i]
  BY <1>1, <1>2, NodeFacts
<1>4. StackOK'
  <2>1. \A i \in 1 .. Len(stack') : FrameOK(stack'[i])
    BY <1>3 DEF IndInv, StackOK
  <2>2. \A i \in 1 .. Len(stack)' : FrameOK(stack[i])'
    BY <2>1 DEF FrameOK
  <2> QED BY <1>3, <2>2 DEF StackOK
<1> QED BY <1>1, <1>4 DEF IndInv, BaseOK

\* Every step keeps the first inductive invariant.
LEMMA NextInv == IndInv /\ [Next]_vars => IndInv'
<1> SUFFICES ASSUME IndInv, [Next]_vars  PROVE IndInv'
  OBVIOUS
<1>1. CASE CountItems
  BY <1>1, CountItemsInv
<1>2. CASE InsertPattern
  BY <1>2, InsertPatternInv
<1>3. CASE CallMineTree
  BY <1>3, CallMineTreeInv
<1>4. CASE MineItem
  BY <1>4, MineItemInv
<1>5. CASE ReturnFromMineTree
  BY <1>5, ReturnFromMineTreeInv
<1>6. CASE UNCHANGED vars
  BY <1>6 DEF vars, treeVars, IndInv, BaseOK, StackOK, FrameOK, BuildOK
<1> QED BY <1>1, <1>2, <1>3, <1>4, <1>5, <1>6 DEF Next

\* Whatever the listings: the trees stay well-formed, their links lead to all their
\* nodes, and header tables account for the weights of the nodes.
THEOREM IndInvHolds == Spec => []IndInv
BY InitInv, NextInv, PTL DEF Spec

-----------------------------------------------------------------------------
\* The calls of mineTree and the tree under construction.
LEMMA TreesFacts ==
  ASSUME IndInv, NEW t \in Trees
  PROVE  /\ TreeOK(t.header, t.links, t.tree)
         /\ t.suffix \subseteq Items \ DOMAIN t.header
         /\ t.items \subseteq DOMAIN t.header
<1>1. CASE t \in Frames
  <2>1. PICK i \in DOMAIN stack : t = stack[i]
    BY <1>1 DEF Frames
  <2>2. i \in 1 .. Len(stack)
    BY LenProperties DEF IndInv, StackOK
  <2> QED BY <2>1, <2>2 DEF IndInv, StackOK, FrameOK
<1>2. CASE t \notin Frames
  <2>1. pc = "insert" /\ t = CurrentFrame
    BY <1>2 DEF Trees, CurrentFrame
  <2>2. BuildOK /\ suffixPattern \subseteq Items
    BY <2>1 DEF IndInv, Itemset
  <2>3. /\ t.header = headerTable /\ t.links = nodeLinks /\ t.tree = fpTree
        /\ t.suffix = suffixPattern /\ t.items = DOMAIN headerTable
    BY <2>1 DEF CurrentFrame
  <2> QED BY <2>2, <2>3 DEF BuildOK
<1> QED BY <1>1, <1>2

\* The types are part of the invariant.
LEMMA TypeFromInv == IndInv => TypeOK
<1> SUFFICES ASSUME IndInv  PROVE TypeOK
  OBVIOUS
<1>1. ASSUME NEW t \in Trees  PROVE IsTree(t)
  <2>1. /\ TreeOK(t.header, t.links, t.tree)
        /\ t.suffix \subseteq Items \ DOMAIN t.header
        /\ t.items \subseteq DOMAIN t.header
    BY <1>1, TreesFacts
  <2> QED BY <2>1 DEF IsTree, TreeOK
<1>2. DOMAIN patternBase \subseteq Itemset /\ \A p \in DOMAIN patternBase : patternBase[p] \in Nat
  BY DEF IndInv, BaseOK, Itemset
<1> QED BY <1>1, <1>2 DEF IndInv, TypeOK

\* The trees are well formed and the patterns have counts, however often mineTree
\* calls itself.
THEOREM TypeCorrect == Spec => []TypeOK
BY IndInvHolds, TypeFromInv, PTL

\* updateTree and updateHeader keep the node links complete and without
\* repetitions, in the tree under construction and in those being mined.
THEOREM LinksLeadEverywhere == Spec => []LinksCoverTree
<1>1. IndInv => LinksCoverTree
  <2> SUFFICES ASSUME IndInv, NEW t \in Trees
               PROVE  /\ \A x \in DOMAIN t.header :
                           /\ IsInjective(t.links[x])
                           /\ ToSet(t.links[x]) = {n \in DOMAIN t.tree : Last(n) = x}
                      /\ \A n \in DOMAIN t.tree : Len(n) > 1 => Front(n) \in DOMAIN t.tree
    BY DEF LinksCoverTree
  <2> QED BY TreesFacts DEF TreeOK
<1> QED BY <1>1, IndInvHolds, PTL

\* The nodes that an item is linked to are those it has.
LEMMA LinkedWeight ==
  ASSUME NEW header, NEW links, NEW tree, TreeOK(header, links, tree), NEW x \in DOMAIN header
  PROVE  SumFunctionOnSet(tree, ToSet(links[x])) = Weight(tree, x, {})
<1>1. ToSet(links[x]) = Holding(tree, x, {})
  BY DEF TreeOK, Holding
<1> QED BY <1>1 DEF Weight

\* The supports in a header table are those of the nodes, together with the
\* patterns that createTree has not inserted yet.
THEOREM HeadersAreAccounted == Spec => []HeaderAccounted
<1>1. ASSUME IndInv, NEW t \in Frames, NEW x \in DOMAIN t.header
      PROVE  t.header[x] = SumFunctionOnSet(t.tree, ToSet(t.links[x]))
  <2>1. PICK i \in DOMAIN stack : t = stack[i]
    BY DEF Frames
  <2>2. FrameOK(t)
    BY <1>1, <2>1, LenProperties DEF IndInv, StackOK
  <2>3. TreeOK(t.header, t.links, t.tree) /\ t.header[x] = Weight(t.tree, x, {})
    BY <2>2 DEF FrameOK
  <2> QED BY <2>3, LinkedWeight
<1>2. ASSUME IndInv, pc = "insert", NEW x \in DOMAIN headerTable
      PROVE  headerTable[x] = SumFunctionOnSet(fpTree, ToSet(nodeLinks[x])) + Occurrences(x, patternBase)
  <2>1. BuildOK
    BY <1>2 DEF IndInv
  <2>2. TreeOK(headerTable, nodeLinks, fpTree)
        /\ headerTable[x] = Weight(fpTree, x, {}) + BaseWeight(patternBase, {x})
    BY <2>1 DEF BuildOK
  <2>3. SumFunctionOnSet(fpTree, ToSet(nodeLinks[x])) = Weight(fpTree, x, {})
    BY <2>2, LinkedWeight
  <2>4. Occurrences(x, patternBase) = BaseWeight(patternBase, {x})
    BY OccurrencesWeight
  <2> QED BY <2>2, <2>3, <2>4
<1>3. IndInv => HeaderAccounted
  BY <1>1, <1>2 DEF HeaderAccounted
<1> QED BY <1>3, IndInvHolds, PTL

-----------------------------------------------------------------------------
(* What the miner finds, when all dicts list items of the same support in one *)
(* order.  Every itemset that may still be found is in the territory of one   *)
(* item of one header table, or in that of the pattern base at hand.          *)

\* The transactions that createInitPatternBase keeps: all of them, unless one
\* repeats another.
Different ==
  [t \in {u \in DOMAIN dataset : \A v \in 1 .. u - 1 : dataset[v] # dataset[u]} |-> dataset[t]]

Support(S) == Count(S, Different)
Frequent == FrequentItemsets(Different, minSupport)

\* The order of the items in all the paths of the tree under construction.
Earlier(x, y) == ListedBefore(x, y, Items)

\* The items above the nodes of an item.
Above(tree, x) == UNION {Prefix(n) : n \in {m \in DOMAIN tree : Last(m) = x}}

\* No two paths have two items in different orders.
Sorted(tree) ==
  \A n, m \in DOMAIN tree : \A i, j \in 1 .. Len(n), k, l \in 1 .. Len(m) :
    i < j /\ k < l => ~(n[i] = m[l] /\ n[j] = m[k])

\* The itemsets that mining an item of a header table can lead to, and those
\* that a pattern base can lead to.
Region(t, x) == {t.suffix \cup {x} \cup T : T \in SUBSET Above(t.tree, x)}
Extensions(suffix, F) == {suffix \cup T : T \in (SUBSET F) \ {{}}}

Current ==
  IF pc = "createTree" THEN Extensions(suffixPattern, UNION DOMAIN patternBase)
  ELSE IF pc = "insert" THEN Extensions(suffixPattern, DOMAIN headerTable)
  ELSE {}

\* A pattern base for a suffix weighs what the different transactions have.
BaseExact(base, suffix, D) ==
  \A T \in (SUBSET UNION DOMAIN base) \ {{}} : BaseWeight(base, T) = Count(suffix \cup T, D)

\* The tree under construction and the rest of the pattern base do so together.
BuildExact ==
  /\ ConsistentListing(listing)
  /\ \A n \in DOMAIN fpTree : \A i, j \in 1 .. Len(n) : i < j => Earlier(n[i], n[j])
  /\ \A x \in DOMAIN headerTable :
       /\ headerTable[x] >= minSupport
       /\ \A T \in SUBSET {y \in DOMAIN headerTable : Earlier(y, x)} :
            Weight(fpTree, x, T) + BaseWeight(patternBase, {x} \cup T)
              = Count(suffixPattern \cup ({x} \cup T), Different)

\* A tree that is being mined does so on its own.
FrameExact(t, D, least) ==
  /\ Sorted(t.tree)
  /\ \A x \in DOMAIN t.header :
       /\ t.header[x] >= least
       /\ \A T \in SUBSET Above(t.tree, x) :
            Weight(t.tree, x, T) = Count(t.suffix \cup ({x} \cup T), D)

\* No itemset is in two of the territories, or in one and found already.
Disjoint(frames, current, found) ==
  /\ \A i, j \in 1 .. Len(frames) : \A x \in frames[i].items, y \in frames[j].items :
       (i = j /\ x = y) \/ Region(frames[i], x) \cap Region(frames[j], y) = {}
  /\ \A i \in 1 .. Len(frames) : \A x \in frames[i].items :
       Region(frames[i], x) \cap (current \cup found) = {}
  /\ current \cap found = {}

\* Every frequent itemset is in one of the territories, or found.
Covered(frequent, frames, current, found) ==
  \A S \in frequent :
    \/ S \in found
    \/ S \in current
    \/ \E i \in 1 .. Len(frames) : \E x \in frames[i].items : S \in Region(frames[i], x)

\* The second inductive invariant.
Exact ==
  /\ pc = "createTree" => BaseExact(patternBase, suffixPattern, Different)
  /\ pc = "insert" => BuildExact
  /\ \A i \in 1 .. Len(stack) : FrameExact(stack[i], Different, minSupport)
  /\ Disjoint(stack, Current, DOMAIN frequentItemsets)
  /\ Covered(Frequent, stack, Current, DOMAIN frequentItemsets)
  /\ \A S \in DOMAIN frequentItemsets : S \in Frequent /\ frequentItemsets[S] = 1
  /\ pc \in {"returned", "raised"} => stack = <<>>

\* A support is a number; more items have no larger support; and an itemset that
\* has a support is contained in a transaction.
LEMMA SupportFacts ==
  ASSUME dataset \in Datasets, NEW S
  PROVE  /\ Support(S) \in Nat
         /\ \A T : S \subseteq T => Support(T) <= Support(S)
         /\ Support(S) > 0 => \E t \in DOMAIN dataset : S \subseteq dataset[t]
<1> DEFINE In(T) == {t \in DOMAIN Different : T \subseteq Different[t]}
<1>1. IsFiniteSet(DOMAIN Different) /\ \A t \in DOMAIN Different : t \in DOMAIN dataset /\ Different[t] = dataset[t]
  <2>1. dataset \in Seq(Itemset)
    BY DatasetsAssumption
  <2>2. IsFiniteSet(DOMAIN dataset)
    BY <2>1, LenProperties, FS_Interval
  <2> QED BY <2>2, FS_Subset DEF Different
<1> HIDE DEF Different
<1>2. \A T : IsFiniteSet(In(T)) /\ Support(T) = Cardinality(In(T)) /\ Cardinality(In(T)) \in Nat
  BY <1>1, FS_Subset, FS_CardinalityType DEF Support, Count
<1>3. ASSUME NEW T, S \subseteq T  PROVE Support(T) <= Support(S)
  <2>1. In(T) \subseteq In(S)
    BY <1>3
  <2> HIDE DEF In
  <2> QED BY <1>2, <2>1, FS_Subset
<1>4. ASSUME Support(S) > 0  PROVE \E t \in DOMAIN dataset : S \subseteq dataset[t]
  <2>1. In(S) # {}
    BY <1>2, <1>4, FS_EmptySet
  <2> QED BY <1>1, <2>1
<1> QED BY <1>2, <1>3, <1>4

\* What weighs something is there.
LEMMA WeightPositive ==
  /\ \A tree, x, T : Weight(tree, x, T) # 0 => \E n \in DOMAIN tree : Last(n) = x /\ T \subseteq Prefix(n)
  /\ \A base, T : BaseWeight(base, T) # 0 => \E p \in DOMAIN base : T \subseteq p
<1>1. ASSUME NEW tree, NEW x, NEW T, Weight(tree, x, T) # 0
      PROVE  \E n \in DOMAIN tree : Last(n) = x /\ T \subseteq Prefix(n)
  <2>1. Holding(tree, x, T) # {}
    BY <1>1, SumEmpty DEF Weight
  <2> QED BY <2>1 DEF Holding
<1>2. ASSUME NEW base, NEW T, BaseWeight(base, T) # 0  PROVE \E p \in DOMAIN base : T \subseteq p
  <2>1. {p \in DOMAIN base : T \subseteq p} # {}
    BY <1>2, SumEmpty DEF BaseWeight
  <2> QED BY <2>1
<1> QED BY <1>1, <1>2

\* createInitPatternBase counts each transaction once, as Different does.
LEMMA InitBase ==
  ASSUME Init, NEW T
  PROVE  BaseWeight(patternBase, T) = Support(T)
<1> DEFINE A == {p \in DOMAIN patternBase : T \subseteq p}
           B == {t \in DOMAIN Different : T \subseteq Different[t]}
           f == [t \in B |-> dataset[t]]
<1>1. dataset \in Seq(Itemset) /\ DOMAIN dataset = 1 .. Len(dataset) /\ Len(dataset) \in Nat
  BY DatasetsAssumption, LenProperties DEF Init
<1>2. DOMAIN patternBase = {dataset[t] : t \in DOMAIN dataset} /\ \A p \in DOMAIN patternBase : patternBase[p] = 1
  BY DEF Init, ToSet
<1>3. /\ \A t : t \in DOMAIN Different <=>
                  t \in DOMAIN dataset /\ \A v \in 1 .. t - 1 : dataset[v] # dataset[t]
      /\ \A t \in DOMAIN Different : Different[t] = dataset[t]
  BY DEF Different
<1>4. IsFiniteSet(B)
  <2>1. IsFiniteSet(DOMAIN dataset)
    BY <1>1, FS_Interval
  <2> QED BY <1>3, <2>1, FS_Subset
<1>5. f \in [B -> A]
  BY <1>2, <1>3
<1>6. \A s, t \in B : f[s] = f[t] => s = t
  <2> SUFFICES ASSUME NEW s \in B, NEW t \in B, f[s] = f[t]  PROVE s = t
    OBVIOUS
  <2>1. s \in 1 .. Len(dataset) /\ t \in 1 .. Len(dataset) /\ dataset[s] = dataset[t]
    BY <1>1, <1>3
  <2>2. ~(s \in 1 .. t - 1) /\ ~(t \in 1 .. s - 1)
    BY <1>3, <2>1
  <2> QED BY <1>1, <2>1, <2>2
<1>7. ASSUME NEW p \in A  PROVE \E t \in B : f[t] = p
  <2> DEFINE Q == {v \in 1 .. Len(dataset) : dataset[v] = p}
  <2>1. PICK t \in Q : \A v \in Q : t <= v
    <3>1. Q # {} /\ Q \in SUBSET Nat
      BY <1>1, <1>2
    <3> HIDE DEF Q
    <3> QED BY <3>1, Least
  <2>2. \A v \in 1 .. t - 1 : dataset[v] # dataset[t]
    BY <1>1, <2>1
  <2> QED BY <1>1, <1>3, <2>1, <2>2
<1>8. f \in Bijection(B, A)
  <2> HIDE DEF f, A, B
  <2> QED BY <1>5, <1>6, <1>7 DEF Bijection, Injection, Surjection, IsInjective
<1>9. IsFiniteSet(A) /\ Cardinality(A) = Cardinality(B)
  <2> HIDE DEF f, A, B
  <2> QED BY <1>4, <1>8, FS_Bijection DEF ExistsBijection
<1>10. SumFunctionOnSet(patternBase, A) = Cardinality(A)
  BY <1>2, <1>9, SumOnes
<1> QED BY <1>9, <1>10 DEF BaseWeight, Support, Count

\* Earlier is a strict order of the items of the header table, and every path
\* follows it: an item has exactly the earlier ones of its pattern above it.
LEMMA EarlierFacts ==
  ASSUME listing \in Listings, DOMAIN headerTable \subseteq Items,
         \A x \in DOMAIN headerTable : headerTable[x] \in Nat
  PROVE  /\ \A x, y \in DOMAIN headerTable : ~(Earlier(x, y) /\ Earlier(y, x))
         /\ \A x, y \in DOMAIN headerTable : x # y => Earlier(x, y) \/ Earlier(y, x)
         /\ \A x, y, z \in DOMAIN headerTable : Earlier(x, y) /\ Earlier(y, z) => Earlier(x, z)
<1>1. \A x, y \in Items : listing[Items][x] \in Nat /\ (listing[Items][x] = listing[Items][y] => x = y)
  BY ListingsAssumption DEF Itemset
<1>2. \A x \in DOMAIN headerTable : headerTable[x] \in Nat /\ listing[Items][x] \in Nat
  BY <1>1
<1>3. \A x, y \in DOMAIN headerTable : ~(Earlier(x, y) /\ Earlier(y, x))
  BY <1>2 DEF Earlier, ListedBefore
<1>4. \A x, y \in DOMAIN headerTable : x # y => Earlier(x, y) \/ Earlier(y, x)
  BY <1>1, <1>2 DEF Earlier, ListedBefore
<1>5. \A x, y, z \in DOMAIN headerTable : Earlier(x, y) /\ Earlier(y, z) => Earlier(x, z)
  BY <1>2 DEF Earlier, ListedBefore
<1> QED BY <1>3, <1>4, <1>5

\* With a consistent listing the items of every path come in one order, so that a
\* path passes x below all of T exactly if its pattern holds x and T.
LEMMA PathOrder ==
  ASSUME listing \in Listings, ConsistentListing(listing), DOMAIN headerTable \subseteq Items,
         \A x \in DOMAIN headerTable : headerTable[x] \in Nat, NEW p \in Itemset
  PROVE  /\ \A i, j \in 1 .. Len(OrderedItems(p)) :
              i < j => Earlier(OrderedItems(p)[i], OrderedItems(p)[j])
         /\ \A x \in DOMAIN headerTable : \A T \in SUBSET {y \in DOMAIN headerTable : Earlier(y, x)} :
              Passes(OrderedItems(p), x, T) <=> {x} \cup T \subseteq p
<1>1. PICK path : path = OrderedItems(p)
  OBVIOUS
<1>2. /\ path \in Seq(Effective(p))
      /\ \A x \in Effective(p) : \E i \in 1 .. Len(path) : path[i] = x
      /\ \A i, j \in 1 .. Len(path) : i < j => ListedBefore(path[i], path[j], p)
  BY <1>1, OrderedItemsProperties
<1>3. \A i \in 1 .. Len(path) : path[i] \in Effective(p)
  BY <1>2, ElementOfSeq
<1>4. \A x, y \in Effective(p) : ListedBefore(x, y, p) <=> Earlier(x, y)
  <2> SUFFICES ASSUME NEW x \in Effective(p), NEW y \in Effective(p)
               PROVE  ListedBefore(x, y, p) <=> Earlier(x, y)
    OBVIOUS
  <2>1. Items \in Itemset /\ x \in p \cap Items /\ y \in p \cap Items
    BY DEF Effective, Itemset
  <2>2. listing[p][x] < listing[p][y] <=> listing[Items][x] < listing[Items][y]
    BY <2>1 DEF ConsistentListing
  <2> QED BY <2>2 DEF Earlier, ListedBefore
<1>5. \A i, j \in 1 .. Len(path) : i < j => Earlier(path[i], path[j])
  BY <1>2, <1>3, <1>4
<1>6. ASSUME NEW x \in DOMAIN headerTable, NEW T \in SUBSET {y \in DOMAIN headerTable : Earlier(y, x)},
             Passes(path, x, T)
      PROVE  {x} \cup T \subseteq p
  <2>1. PICK i \in 1 .. Len(path) : path[i] = x /\ T \subseteq {path[j] : j \in 1 .. i - 1}
    BY <1>6 DEF Passes
  <2>2. \A j \in 1 .. i - 1 : j \in 1 .. Len(path)
    BY <1>2, LenProperties
  <2>3. \A j \in 1 .. i - 1 : path[j] \in p
    BY <1>3, <2>2 DEF Effective
  <2>4. x \in p
    BY <1>3, <2>1 DEF Effective
  <2> QED BY <2>1, <2>3, <2>4
<1>7. ASSUME NEW x \in DOMAIN headerTable, NEW T \in SUBSET {y \in DOMAIN headerTable : Earlier(y, x)},
             {x} \cup T \subseteq p
      PROVE  Passes(path, x, T)
  <2>1. PICK i \in 1 .. Len(path) : path[i] = x
    BY <1>2, <1>7 DEF Effective
  <2>2. ASSUME NEW y \in T  PROVE \E j \in 1 .. i - 1 : path[j] = y
    <3>1. y \in DOMAIN headerTable /\ y \in p /\ Earlier(y, x)
      BY <1>7, <2>2
    <3>2. PICK j \in 1 .. Len(path) : path[j] = y
      BY <1>2, <3>1 DEF Effective
    <3>3. ~(i < j)
      BY <1>5, <2>1, <3>1, <3>2, EarlierFacts
    <3>4. i # j
      BY <2>1, <3>1, <3>2, EarlierFacts
    <3>5. j \in 1 .. i - 1
      BY <1>2, <3>3, <3>4, LenProperties
    <3> QED BY <3>2, <3>5
  <2> QED BY <2>1, <2>2 DEF Passes
<1> QED BY <1>1, <1>5, <1>6, <1>7

\* Of some items of the header table one comes last.
LEMMA LastInOrder ==
  ASSUME listing \in Listings, DOMAIN headerTable \subseteq Items,
         \A x \in DOMAIN headerTable : headerTable[x] \in Nat,
         NEW T \in SUBSET DOMAIN headerTable, T # {}
  PROVE  \E x \in T : \A y \in T \ {x} : Earlier(y, x)
<1>1. IsFiniteSet(T) /\ Cardinality(T) \in Nat /\ Cardinality(T) # 0
  <2>1. IsFiniteSet(T)
    BY ItemsAssumption, FS_Subset
  <2> QED BY <2>1, FS_CardinalityType, FS_EmptySet
<1> DEFINE before == [x \in T |-> {y \in T : Earlier(y, x)}]
<1>2. \A x \in T : before[x] \subseteq T /\ x \notin before[x]
  BY EarlierFacts
<1>3. \A x, y \in T : x # y => x \in before[y] \/ y \in before[x]
  BY EarlierFacts
<1>4. \A x, y \in T : x \in before[y] => before[x] \subseteq before[y]
  BY EarlierFacts
<1>5. PICK n : n = Cardinality(T) - 1
  OBVIOUS
<1>6. n \in 0 .. Cardinality(T) - 1
  BY <1>1, <1>5
<1> HIDE DEF before
<1>7. /\ \A x \in T : Cardinality(before[x]) \in 0 .. n
      /\ \A x, y \in T : x \in before[y] => Cardinality(before[x]) < Cardinality(before[y])
      /\ \E x \in T : Cardinality(before[x]) = n
  BY <1>1, <1>2, <1>3, <1>4, <1>5, <1>6, Ranking
<1>8. PICK x \in T : Cardinality(before[x]) = n
  BY <1>7
<1>9. ASSUME NEW y \in T \ {x}  PROVE y \in before[x]
  <2>1. ~(x \in before[y])
    <3>1. Cardinality(before[y]) \in 0 .. n /\ n \in Int
      BY <1>1, <1>5, <1>7
    <3> QED BY <1>7, <1>8, <3>1
  <2> QED BY <1>3, <2>1
<1>10. \A y \in T \ {x} : Earlier(y, x)
  BY <1>9 DEF before
<1> QED BY <1>10

\* Paths that follow one order are sorted.
LEMMA AscendingSorted ==
  ASSUME NEW F, NEW tree, DOMAIN tree \subseteq Seq(F),
         \A x, y \in F : ~(Earlier(x, y) /\ Earlier(y, x)),
         \A n \in DOMAIN tree : \A i, j \in 1 .. Len(n) : i < j => Earlier(n[i], n[j])
  PROVE  Sorted(tree)
<1> SUFFICES ASSUME NEW n \in DOMAIN tree, NEW m \in DOMAIN tree,
                    NEW i \in 1 .. Len(n), NEW j \in 1 .. Len(n),
                    NEW k \in 1 .. Len(m), NEW l \in 1 .. Len(m),
                    i < j, k < l, n[i] = m[l], n[j] = m[k]
             PROVE  FALSE
  BY DEF Sorted
<1>1. n[i] \in F /\ n[j] \in F
  BY ElementOfSeq
<1>2. Earlier(n[i], n[j]) /\ Earlier(m[k], m[l])
  OBVIOUS
<1> QED BY <1>1, <1>2

\* In a sorted tree no two nodes of an item have the same prefix.
LEMMA PrefixTells ==
  ASSUME NEW header, NEW links, NEW tree, TreeOK(header, links, tree), Sorted(tree),
         NEW n \in DOMAIN tree, NEW m \in DOMAIN tree,
         Last(n) = Last(m), Prefix(n) = Prefix(m)
  PROVE  n = m
<1>1. PICK F, a, b : F = DOMAIN header /\ a = Len(n) /\ b = Len(m)
  OBVIOUS
<1>2. /\ n \in Seq(F) /\ m \in Seq(F) /\ n # <<>> /\ m # <<>>
      /\ \A i, j \in 1 .. a : n[i] = n[j] => i = j
      /\ \A i, j \in 1 .. b : m[i] = m[j] => i = j
  BY <1>1 DEF TreeOK
<1>3. /\ a \in Nat \ {0} /\ b \in Nat \ {0} /\ n[a] = m[b]
      /\ {n[j] : j \in 1 .. a - 1} = {m[j] : j \in 1 .. b - 1}
  <2>1. \A p \in Seq(F) : p # <<>> => /\ Len(p) \in Nat \ {0} /\ Last(p) = p[Len(p)]
                                     /\ Prefix(p) = {p[j] : j \in 1 .. Len(p) - 1}
    BY NodeFacts
  <2>2. Len(n) \in Nat \ {0} /\ Last(n) = n[a] /\ Prefix(n) = {n[j] : j \in 1 .. a - 1}
    BY <1>1, <1>2, <2>1
  <2>3. Len(m) \in Nat \ {0} /\ Last(m) = m[b] /\ Prefix(m) = {m[j] : j \in 1 .. b - 1}
    BY <1>1, <1>2, <2>1
  <2> QED BY <1>1, <2>2, <2>3
<1>4. \A i \in 1 .. a : \E j \in 1 .. b : n[i] = m[j]
  <2> SUFFICES ASSUME NEW i \in 1 .. a  PROVE \E j \in 1 .. b : n[i] = m[j]
    OBVIOUS
  <2>1. CASE i = a
    BY <1>3, <2>1
  <2>2. CASE i # a
    <3>1. n[i] \in {m[j] : j \in 1 .. b - 1}
      BY <1>3, <2>2
    <3> QED BY <1>3, <3>1
  <2> QED BY <2>1, <2>2
<1>5. \A i \in 1 .. b : \E j \in 1 .. a : m[i] = n[j]
  <2> SUFFICES ASSUME NEW i \in 1 .. b  PROVE \E j \in 1 .. a : m[i] = n[j]
    OBVIOUS
  <2>1. CASE i = b
    BY <1>3, <2>1
  <2>2. CASE i # b
    <3>1. m[i] \in {n[j] : j \in 1 .. a - 1}
      BY <1>3, <2>2
    <3> QED BY <1>3, <3>1
  <2> QED BY <2>1, <2>2
<1>6. \A i, j \in 1 .. a, k, l \in 1 .. b : i < j /\ k < l => ~(n[i] = m[l] /\ n[j] = m[k])
  BY <1>1 DEF Sorted
<1> DEFINE Q == {i \in 1 .. a : i \in 1 .. b => n[i] # m[i]}
<1>7. Q = {}
  <2> SUFFICES ASSUME Q # {}  PROVE FALSE
    OBVIOUS
  <2>1. PICK i \in Q : \A j \in Q : i <= j
    <3>1. Q \in SUBSET Nat
      OBVIOUS
    <3> HIDE DEF Q
    <3> QED BY <3>1, Least
  <2>2. i \in 1 .. a /\ \A j \in 1 .. i - 1 : j \in 1 .. a /\ j \in 1 .. b /\ n[j] = m[j]
    BY <1>3, <2>1
  <2>3. PICK k \in 1 .. b : n[i] = m[k]
    BY <1>4, <2>2
  <2>4. ~(k \in 1 .. i - 1)
    BY <1>2, <2>2, <2>3
  <2>5. k # i
    BY <2>1, <2>3
  <2>6. i \in 1 .. b /\ i < k
    BY <1>3, <2>2, <2>3, <2>4, <2>5
  <2>7. PICK l \in 1 .. a : m[i] = n[l]
    BY <1>5, <2>6
  <2>8. ~(l \in 1 .. i - 1)
    BY <1>2, <2>2, <2>6, <2>7
  <2>9. l # i
    BY <2>1, <2>6, <2>7
  <2>10. i < l
    BY <2>2, <2>7, <2>8, <2>9
  <2> QED BY <1>6, <2>2, <2>3, <2>6, <2>7, <2>10
<1>8. \A i \in 1 .. a : i \in 1 .. b /\ n[i] = m[i]
  BY <1>7
<1>9. a = b
  <2>1. a <= b
    BY <1>3, <1>8
  <2>2. ASSUME a < b  PROVE FALSE
    <3>1. a \in 1 .. b /\ b \in 1 .. b /\ n[a] = m[a]
      BY <1>3, <1>8, <2>2
    <3>2. m[a] = m[b]
      BY <1>3, <3>1
    <3> QED BY <1>2, <2>2, <3>1, <3>2
  <2> QED BY <1>3, <2>1, <2>2
<1> QED BY <1>1, <1>2, <1>8, <1>9, SeqEqual

\* The conditional pattern base of an item weighs what the tree has above it.
LEMMA ConditionalExact ==
  ASSUME NEW header, NEW links, NEW tree, TreeOK(header, links, tree), Sorted(tree),
         NEW x \in DOMAIN header, NEW base, base = FindConditionalPatternBase(links[x], tree)
  PROVE  /\ UNION DOMAIN base = Above(tree, x)
         /\ \A T : T # {} => BaseWeight(base, T) = Weight(tree, x, T)
<1>0. PrefixesOf(base, tree, x)
  BY ConditionalBase
<1>1. \A n \in DOMAIN tree : Last(n) = x /\ Len(n) > 1 => Prefix(n) \in DOMAIN base
  BY <1>0 DEF PrefixesOf
<1>2. \A P \in DOMAIN base :
        \E n \in DOMAIN tree : Last(n) = x /\ Len(n) > 1 /\ Prefix(n) = P /\ base[P] = tree[n]
  BY <1>0 DEF PrefixesOf
<1>3. \A n \in DOMAIN tree : Len(n) > 1 <=> Prefix(n) # {}
  BY PrefixFacts
<1>4. UNION DOMAIN base = Above(tree, x)
  <2>1. UNION DOMAIN base \subseteq Above(tree, x)
    BY <1>2 DEF Above
  <2>2. Above(tree, x) \subseteq UNION DOMAIN base
    BY <1>1, <1>3 DEF Above
  <2> QED BY <2>1, <2>2
<1>5. ASSUME NEW T, T # {}  PROVE BaseWeight(base, T) = Weight(tree, x, T)
  <2> DEFINE N == Holding(tree, x, T)
             g == [n \in N |-> Prefix(n)]
  <2>1. IsFiniteSet(N) /\ \A n \in N : tree[n] \in Nat
    BY HoldingFinite
  <2>2. \A n \in N : n \in DOMAIN tree /\ Last(n) = x /\ T \subseteq Prefix(n) /\ Len(n) > 1
    BY <1>3, <1>5 DEF Holding
  <2>3. \A n, m \in DOMAIN tree : Last(n) = Last(m) /\ Prefix(n) = Prefix(m) => n = m
    BY PrefixTells
  <2> HIDE DEF N
  <2>4. \A n \in N : base[g[n]] = tree[n] /\ g[n] \in DOMAIN base
    BY <1>1, <1>2, <2>2, <2>3
  <2>5. \A n, m \in N : g[n] = g[m] => n = m
    BY <2>2, <2>3
  <2>6. {g[n] : n \in N} = {P \in DOMAIN base : T \subseteq P}
    <3>1. \A n \in N : g[n] \in DOMAIN base /\ T \subseteq g[n]
      BY <2>2, <2>4
    <3>2. ASSUME NEW P \in DOMAIN base, T \subseteq P  PROVE \E n \in N : g[n] = P
      <4>1. PICK n \in DOMAIN tree : Last(n) = x /\ Prefix(n) = P
        BY <1>2
      <4>2. n \in N
        BY <3>2, <4>1 DEF N, Holding
      <4> QED BY <4>1, <4>2
    <3> HIDE DEF g
    <3> QED BY <3>1, <3>2
  <2> HIDE DEF g
  <2>7. SumFunctionOnSet(base, {g[n] : n \in N}) = SumFunctionOnSet(tree, N)
    BY <2>1, <2>4, <2>5, SumImage
  <2> QED BY <2>6, <2>7 DEF BaseWeight, Weight, N
<1> QED BY <1>4, <1>5

\* Two items of a sorted tree lead to different itemsets.
LEMMA RegionsApart ==
  ASSUME NEW t, FrameOK(t), Sorted(t.tree), NEW x \in DOMAIN t.header, NEW y \in DOMAIN t.header, x # y
  PROVE  Region(t, x) \cap Region(t, y) = {}
<1>1. PICK header, links, tree, suffix :
        header = t.header /\ links = t.links /\ tree = t.tree /\ suffix = t.suffix
  OBVIOUS
<1>2. TreeOK(header, links, tree) /\ suffix \subseteq Items \ DOMAIN header /\ Sorted(tree)
  BY <1>1 DEF FrameOK
<1> SUFFICES ASSUME NEW S \in Region(t, x), S \in Region(t, y)  PROVE FALSE
  OBVIOUS
<1>3. y \in Above(tree, x) /\ x \in Above(tree, y)
  <2>1. PICK T \in SUBSET Above(tree, x) : S = suffix \cup {x} \cup T
    BY <1>1 DEF Region
  <2>2. PICK U \in SUBSET Above(tree, y) : S = suffix \cup {y} \cup U
    BY <1>1 DEF Region
  <2>3. x \notin suffix /\ y \notin suffix
    BY <1>1, <1>2
  <2> QED BY <2>1, <2>2, <2>3
<1>4. PICK n \in DOMAIN tree : Last(n) = x /\ y \in Prefix(n)
  BY <1>3 DEF Above
<1>5. PICK m \in DOMAIN tree : Last(m) = y /\ x \in Prefix(m)
  BY <1>3 DEF Above
<1>6. \A p \in DOMAIN tree : p \in Seq(DOMAIN header) /\ p # <<>>
  BY <1>2 DEF TreeOK
<1>7. /\ Len(n) \in Nat \ {0} /\ Last(n) = n[Len(n)]
      /\ \E j \in 1 .. Len(n) - 1 : n[j] = y
  BY <1>4, <1>6, AboveFacts
<1>8. /\ Len(m) \in Nat \ {0} /\ Last(m) = m[Len(m)]
      /\ \E j \in 1 .. Len(m) - 1 : m[j] = x
  BY <1>5, <1>6, AboveFacts
<1>9. PICK i \in 1 .. Len(n) - 1 : n[i] = y
  BY <1>7
<1>10. PICK k \in 1 .. Len(m) - 1 : m[k] = x
  BY <1>8
<1>11. /\ Len(n) \in 1 .. Len(n) /\ i \in 1 .. Len(n) /\ i < Len(n)
       /\ Len(m) \in 1 .. Len(m) /\ k \in 1 .. Len(m) /\ k < Len(m)
  BY <1>7, <1>8
<1>12. n[i] = m[Len(m)] /\ n[Len(n)] = m[k]
  BY <1>4, <1>5, <1>7, <1>8, <1>9, <1>10
<1> QED BY <1>2, <1>11, <1>12 DEF Sorted

\* createTree drops what is not frequent from the territory of its pattern base.
LEMMA ShrinkTerritory ==
  ASSUME NEW frequent, NEW frames, NEW current, NEW found,
         Disjoint(frames, current, found), Covered(frequent, frames, current, found),
         NEW less \in SUBSET current, \A S \in frequent : S \in current => S \in less
  PROVE  Disjoint(frames, less, found) /\ Covered(frequent, frames, less, found)
BY DEF Disjoint, Covered

\* One more call, and the items of a tree that divide a territory.
Pushed(more, frames, t) ==
  /\ Len(frames) \in Nat /\ Len(more) = Len(frames) + 1 /\ more[Len(more)] = t
  /\ \A i \in 1 .. Len(frames) : more[i] = frames[i]

Divides(t, frequent, current) ==
  /\ \A x \in t.items : Region(t, x) \subseteq current
  /\ \A x, y \in t.items : x # y => Region(t, x) \cap Region(t, y) = {}
  /\ \A S \in frequent : S \in current => \E x \in t.items : S \in Region(t, x)

\* A call of mineTree divides the territory of its tree among the items.
LEMMA DivideTerritory ==
  ASSUME NEW frequent, NEW frames, NEW current, NEW found, NEW t, NEW more,
         Disjoint(frames, current, found), Covered(frequent, frames, current, found),
         Pushed(more, frames, t), Divides(t, frequent, current)
  PROVE  Disjoint(more, {}, found) /\ Covered(frequent, more, {}, found)
<1>0. /\ \A x \in t.items : Region(t, x) \subseteq current
      /\ \A x, y \in t.items : x # y => Region(t, x) \cap Region(t, y) = {}
      /\ \A S \in frequent : S \in current => \E x \in t.items : S \in Region(t, x)
  BY DEF Divides
<1>1. PICK l : l = Len(frames)
  OBVIOUS
<1>2. l \in Nat /\ Len(more) = l + 1 /\ more[l + 1] = t /\ \A i \in 1 .. l : more[i] = frames[i]
  BY <1>1 DEF Pushed
<1>3. \A i \in 1 .. l + 1 : (i \in 1 .. l /\ more[i] = frames[i]) \/ (i = l + 1 /\ more[i] = t)
  <2>1. \A i \in 1 .. l + 1 : i \in 1 .. l \/ i = l + 1
    BY <1>2
  <2> QED BY <1>2, <2>1, Zenon
<1>4. /\ \A i, j \in 1 .. l : \A x \in frames[i].items, y \in frames[j].items :
           (i = j /\ x = y) \/ Region(frames[i], x) \cap Region(frames[j], y) = {}
      /\ \A i \in 1 .. l : \A x \in frames[i].items :
           Region(frames[i], x) \cap current = {} /\ Region(frames[i], x) \cap found = {}
      /\ current \cap found = {}
  BY <1>1 DEF Disjoint
<1>5. ASSUME NEW i \in 1 .. l + 1, NEW j \in 1 .. l + 1, NEW x \in more[i].items, NEW y \in more[j].items,
             ~(i = j /\ x = y)
      PROVE  Region(more[i], x) \cap Region(more[j], y) = {}
  <2>1. CASE i \in 1 .. l /\ more[i] = frames[i] /\ j \in 1 .. l /\ more[j] = frames[j]
    <3>1. x \in frames[i].items /\ y \in frames[j].items
      BY <2>1
    <3>2. Region(frames[i], x) \cap Region(frames[j], y) = {}
      BY <1>4, <1>5, <2>1, <3>1
    <3> QED BY <2>1, <3>2
  <2>2. CASE i \in 1 .. l /\ more[i] = frames[i] /\ j = l + 1 /\ more[j] = t
    BY <1>0, <1>4, <1>5, <2>2
  <2>3. CASE i = l + 1 /\ more[i] = t /\ j \in 1 .. l /\ more[j] = frames[j]
    BY <1>0, <1>4, <1>5, <2>3
  <2>4. CASE i = l + 1 /\ more[i] = t /\ j = l + 1 /\ more[j] = t
    BY <1>0, <1>5, <2>4
  <2> QED BY <1>3, <2>1, <2>2, <2>3, <2>4
<1>6. ASSUME NEW i \in 1 .. l + 1, NEW x \in more[i].items
      PROVE  Region(more[i], x) \cap ({} \cup found) = {}
  <2>1. CASE i \in 1 .. l /\ more[i] = frames[i]
    BY <1>4, <1>6, <2>1
  <2>2. CASE i = l + 1 /\ more[i] = t
    BY <1>0, <1>4, <1>6, <2>2
  <2> QED BY <1>3, <2>1, <2>2
<1>7. Disjoint(more, {}, found)
  BY <1>2, <1>5, <1>6 DEF Disjoint
<1>8. ASSUME NEW S \in frequent, S \notin found
      PROVE  \E i \in 1 .. l + 1 : \E x \in more[i].items : S \in Region(more[i], x)
  <2>1. CASE S \in current
    <3>1. l + 1 \in 1 .. l + 1 /\ more[l + 1] = t
      BY <1>2
    <3>2. PICK x \in t.items : S \in Region(t, x)
      BY <1>0, <2>1
    <3> QED BY <3>1, <3>2
  <2>2. CASE S \notin current
    <3>1. PICK i \in 1 .. l : \E x \in frames[i].items : S \in Region(frames[i], x)
      BY <1>1, <1>8, <2>2 DEF Covered
    <3>2. i \in 1 .. l + 1 /\ more[i] = frames[i]
      BY <1>2
    <3> QED BY <3>1, <3>2
  <2> QED BY <2>1, <2>2
<1>9. Covered(frequent, more, {}, found)
  BY <1>2, <1>8 DEF Covered
<1> QED BY <1>7, <1>9

\* The items of one call without x.
Without(left, frames, l, x) ==
  /\ l \in 1 .. Len(frames) /\ x \in frames[l].items
  /\ Len(left) = Len(frames) /\ \A i \in 1 .. Len(frames) : i # l => left[i] = frames[i]
  /\ left[l].items = frames[l].items \ {x} /\ \A y : Region(left[l], y) = Region(frames[l], y)

\* Mining an item finds one itemset of the item's territory and leaves the rest
\* to the conditional pattern base.
LEMMA EnterTerritory ==
  ASSUME NEW frequent, NEW frames, NEW found, NEW left, NEW l, NEW x, Without(left, frames, l, x),
         Disjoint(frames, {}, found), Covered(frequent, frames, {}, found),
         NEW S, NEW current, Region(frames[l], x) = {S} \cup current, S \notin current
  PROVE  Disjoint(left, current, found \cup {S}) /\ Covered(frequent, left, current, found \cup {S})
<1> USE DEF Without
<1>1. /\ \A i, j \in 1 .. Len(frames) : \A u \in frames[i].items, v \in frames[j].items :
           (i = j /\ u = v) \/ Region(frames[i], u) \cap Region(frames[j], v) = {}
      /\ \A i \in 1 .. Len(frames) : \A u \in frames[i].items : Region(frames[i], u) \cap found = {}
  BY DEF Disjoint
<1>2. \A i \in 1 .. Len(frames) : \A u \in left[i].items :
        u \in frames[i].items /\ Region(left[i], u) = Region(frames[i], u) /\ ~(i = l /\ u = x)
  OBVIOUS
<1>3. ASSUME NEW i \in 1 .. Len(frames), NEW j \in 1 .. Len(frames), NEW u \in left[i].items, NEW v \in left[j].items
      PROVE  (i = j /\ u = v) \/ Region(left[i], u) \cap Region(left[j], v) = {}
  <2>1. u \in frames[i].items /\ Region(left[i], u) = Region(frames[i], u)
    BY <1>2
  <2>2. v \in frames[j].items /\ Region(left[j], v) = Region(frames[j], v)
    BY <1>2
  <2>3. (i = j /\ u = v) \/ Region(frames[i], u) \cap Region(frames[j], v) = {}
    BY <1>1, <2>1, <2>2
  <2> QED BY <2>1, <2>2, <2>3
<1>4. ASSUME NEW i \in 1 .. Len(frames), NEW u \in left[i].items
      PROVE  Region(left[i], u) \cap (current \cup (found \cup {S})) = {}
  <2>1. u \in frames[i].items /\ Region(left[i], u) = Region(frames[i], u) /\ ~(i = l /\ u = x)
    BY <1>2
  <2>2. Region(frames[i], u) \cap Region(frames[l], x) = {} /\ Region(frames[i], u) \cap found = {}
    BY <1>1, <2>1
  <2> QED BY <2>1, <2>2
<1>5. current \cap (found \cup {S}) = {}
  <2>1. Region(frames[l], x) \cap found = {}
    BY <1>1
  <2> QED BY <2>1
<1>6. Disjoint(left, current, found \cup {S})
  BY <1>3, <1>4, <1>5 DEF Disjoint
<1>7. ASSUME NEW R \in frequent, R \notin found, R # S, R \notin current
      PROVE  \E i \in 1 .. Len(left) : \E u \in left[i].items : R \in Region(left[i], u)
  <2>1. PICK i \in 1 .. Len(frames) : \E u \in frames[i].items : R \in Region(frames[i], u)
    BY <1>7 DEF Covered
  <2>2. PICK u \in frames[i].items : R \in Region(frames[i], u)
    BY <2>1
  <2>3. ~(i = l /\ u = x)
    BY <1>7, <2>2
  <2>4. u \in left[i].items /\ Region(left[i], u) = Region(frames[i], u)
    BY <2>3
  <2> QED BY <2>2, <2>4
<1>8. Covered(frequent, left, current, found \cup {S})
  BY <1>7 DEF Covered
<1> QED BY <1>6, <1>8

\* A call of mineTree leaves no territory when its loop is over.
LEMMA LeaveTerritory ==
  ASSUME NEW frequent, NEW frames, NEW found, NEW left, Len(frames) \in Nat \ {0},
         Disjoint(frames, {}, found), Covered(frequent, frames, {}, found),
         Len(left) = Len(frames) - 1, \A i \in 1 .. Len(frames) - 1 : left[i] = frames[i],
         frames[Len(frames)].items = {}
  PROVE  Disjoint(left, {}, found) /\ Covered(frequent, left, {}, found)
<1>1. PICK l : l = Len(frames) - 1
  OBVIOUS
<1>2. l \in Nat /\ Len(left) = l /\ Len(frames) = l + 1 /\ \A i \in 1 .. l : left[i] = frames[i] /\ i \in 1 .. l + 1
  BY <1>1
<1>3. Disjoint(left, {}, found)
  BY <1>2 DEF Disjoint
<1>4. \A i \in 1 .. l + 1 : \A x \in frames[i].items : i \in 1 .. l
  <2>1. frames[l + 1].items = {}
    BY <1>2
  <2>2. \A i \in 1 .. l + 1 : i \in 1 .. l \/ i = l + 1
    BY <1>2
  <2> QED BY <2>1, <2>2
<1>5. Covered(frequent, left, {}, found)
  BY <1>2, <1>4 DEF Covered
<1> QED BY <1>3, <1>5

\* Nothing changes the dataset or the threshold.
LEMMA UnchangedDataset ==
  ASSUME UNCHANGED <<dataset, minSupport>>
  PROVE  Different' = Different /\ Frequent' = Frequent
BY DEF Different, Frequent

\* What a frequent itemset is.
LEMMA FrequentFacts ==
  \A S : S \in Frequent <=> S \subseteq Items /\ S # {} /\ Count(S, Different) >= minSupport
BY DEF Frequent, FrequentItemsets, IsFrequent, Itemset

\* At first everything that is frequent is an extension of the empty pattern.
LEMMA InitExact == Init => Exact
<1> SUFFICES ASSUME Init  PROVE Exact
  OBVIOUS
<1>1. /\ pc = "createTree" /\ suffixPattern = {} /\ stack = <<>> /\ Len(stack) = 0
      /\ DOMAIN frequentItemsets = {}
  BY DEF Init, EmptyDict
<1>2. BaseExact(patternBase, suffixPattern, Different)
  <2>1. \A T : {} \cup T = T
    OBVIOUS
  <2> QED BY <1>1, <2>1, InitBase DEF BaseExact, Support
<1>3. dataset \in Datasets /\ dataset \in Seq(Itemset) /\ minSupport \in Nat \ {0}
  BY DatasetsAssumption, MinSupportsAssumption DEF Init
<1>4. ASSUME NEW S \in Frequent  PROVE S \in Current
  <2>1. S # {} /\ Count(S, Different) >= minSupport
    BY FrequentFacts
  <2>2. Support(S) \in Nat /\ Support(S) > 0
    BY <1>3, <2>1, SupportFacts DEF Support
  <2>3. PICK t \in DOMAIN dataset : S \subseteq dataset[t]
    BY <1>3, <2>2, SupportFacts
  <2>4. dataset[t] \in DOMAIN patternBase
    BY DEF Init, ToSet
  <2>5. S \in (SUBSET UNION DOMAIN patternBase) \ {{}} /\ S = suffixPattern \cup S
    BY <1>1, <2>1, <2>3, <2>4
  <2> QED BY <1>1, <2>5 DEF Current, Extensions
<1>5. Disjoint(stack, Current, DOMAIN frequentItemsets)
  BY <1>1 DEF Disjoint
<1>6. Covered(Frequent, stack, Current, DOMAIN frequentItemsets)
  BY <1>4 DEF Covered
<1> QED BY <1>1, <1>2, <1>5, <1>6 DEF Exact

\* The items of a frequent itemset are frequent in the pattern base.
LEMMA FrequentParts ==
  ASSUME IndInv, BaseExact(patternBase, suffixPattern, Different),
         NEW S \in Frequent, S \in Extensions(suffixPattern, UNION DOMAIN patternBase)
  PROVE  S \in Extensions(suffixPattern,
                {x \in UNION DOMAIN patternBase : MeetsSupport(Occurrences(x, patternBase))})
<1>1. PICK T \in (SUBSET UNION DOMAIN patternBase) \ {{}} : S = suffixPattern \cup T
  BY DEF Extensions
<1>2. dataset \in Datasets /\ minSupport \in Nat
  BY MinSupportsAssumption DEF IndInv
<1>3. ASSUME NEW x \in T  PROVE MeetsSupport(Occurrences(x, patternBase))
  <2>1. {x} \in (SUBSET UNION DOMAIN patternBase) \ {{}}
    BY <1>1
  <2>2. Occurrences(x, patternBase) = Count(suffixPattern \cup {x}, Different)
    BY <2>1, OccurrencesWeight DEF BaseExact
  <2>3. suffixPattern \cup {x} \subseteq S
    BY <1>1, <1>3
  <2>4. Support(S) <= Support(suffixPattern \cup {x}) /\ Support(suffixPattern \cup {x}) \in Nat
        /\ Support(S) \in Nat
    BY <1>2, <2>3, SupportFacts
  <2>5. Support(S) >= minSupport
    BY FrequentFacts DEF Support
  <2> QED BY <1>2, <2>2, <2>4, <2>5 DEF MeetsSupport, Support
<1> QED BY <1>1, <1>3 DEF Extensions

\* The first scan of createTree leaves out rare items only.
LEMMA CountItemsExact ==
  ASSUME \A l \in Listings : ConsistentListing(l), IndInv, Exact, CountItems
  PROVE  Exact'
<1> DEFINE items == UNION DOMAIN patternBase
           frequent == {x \in items : MeetsSupport(Occurrences(x, patternBase))}
<1>1. /\ pc = "createTree"
      /\ UNCHANGED <<dataset, minSupport, patternBase, suffixPattern, stack, frequentItemsets>>
  BY DEF CountItems
<1>2. Different' = Different /\ Frequent' = Frequent
  BY <1>1, UnchangedDataset
<1>3. /\ BaseExact(patternBase, suffixPattern, Different)
      /\ Current = Extensions(suffixPattern, items)
  BY <1>1 DEF Exact, Current
<1>4. \A S \in Frequent : S \in Current => S \in Extensions(suffixPattern, frequent)
  BY <1>3, FrequentParts
<1>5. Extensions(suffixPattern, frequent) \in SUBSET Current
  BY <1>3 DEF Extensions
<1>6. /\ Disjoint(stack, Extensions(suffixPattern, frequent), DOMAIN frequentItemsets)
      /\ Covered(Frequent, stack, Extensions(suffixPattern, frequent), DOMAIN frequentItemsets)
  <2> HIDE DEF frequent
  <2>1. PICK less, current : less = Extensions(suffixPattern, frequent) /\ current = Current
    OBVIOUS
  <2>2. /\ Disjoint(stack, current, DOMAIN frequentItemsets)
        /\ Covered(Frequent, stack, current, DOMAIN frequentItemsets)
        /\ less \in SUBSET current /\ \A S \in Frequent : S \in current => S \in less
    BY <1>4, <1>5, <2>1 DEF Exact
  <2>3. /\ Disjoint(stack, less, DOMAIN frequentItemsets)
        /\ Covered(Frequent, stack, less, DOMAIN frequentItemsets)
    BY <2>2, ShrinkTerritory
  <2> QED BY <2>1, <2>3
<1>7. /\ \A i \in 1 .. Len(stack) : FrameExact(stack[i], Different, minSupport)
      /\ \A S \in DOMAIN frequentItemsets : S \in Frequent /\ frequentItemsets[S] = 1
  BY DEF Exact
<1>8. CASE frequent = {}
  <2>1. pc' \in {"raised", "mine"} /\ (pc' = "raised" => stack = <<>>)
    BY <1>8 DEF CountItems
  <2>2. Current' = Extensions(suffixPattern, frequent)
    BY <1>8, <2>1 DEF Current, Extensions
  <2> HIDE DEF frequent
  <2> QED BY <1>1, <1>2, <1>6, <1>7, <2>1, <2>2 DEF Exact
<1>9. CASE frequent # {}
  <2>1. /\ headerTable' = [x \in frequent |-> Occurrences(x, patternBase)]
        /\ fpTree' = EmptyDict
        /\ listing' \in Listings
        /\ pc' = "insert"
    BY <1>9 DEF CountItems
  <2>2. frequent \subseteq items /\ \A x \in frequent : Occurrences(x, patternBase) >= minSupport
    BY DEF MeetsSupport
  <2> HIDE DEF frequent
  <2>3. Current' = Extensions(suffixPattern, frequent)
    BY <1>1, <2>1 DEF Current
  <2>4. ASSUME NEW x \in frequent, NEW T \in SUBSET frequent
        PROVE  Weight(fpTree', x, T) + BaseWeight(patternBase, {x} \cup T)
                 = Count(suffixPattern \cup ({x} \cup T), Different)
    <3>1. {x} \cup T \in (SUBSET UNION DOMAIN patternBase) \ {{}}
      BY <2>2
    <3>2. BaseWeight(patternBase, {x} \cup T) = Count(suffixPattern \cup ({x} \cup T), Different)
      BY <1>3, <3>1 DEF BaseExact
    <3>3. Weight(fpTree', x, T) = 0
      BY <2>1, EmptyWeights
    <3>4. BaseWeight(patternBase, {x} \cup T) \in Nat
      BY BaseFinite DEF IndInv
    <3> QED BY <3>2, <3>3, <3>4
  <2>5. DOMAIN fpTree' = {}
    BY <2>1 DEF EmptyDict
  <2>6. DOMAIN headerTable' = frequent /\ \A x \in frequent : headerTable'[x] >= minSupport
    BY <2>1, <2>2
  <2>7. ConsistentListing(listing)'
    BY <2>1
  <2>8. BuildExact'
    BY <1>1, <1>2, <2>4, <2>5, <2>6, <2>7 DEF BuildExact
  <2> QED BY <1>1, <1>2, <1>6, <1>7, <2>1, <2>3, <2>8 DEF Exact
<1> QED BY <1>8, <1>9

\* Inserting a pattern keeps the sums of weights, for all itemsets of the tree.
LEMMA InsertPatternExact ==
  ASSUME IndInv, Exact, InsertPattern
  PROVE  Exact'
<1>1. PICK p \in DOMAIN patternBase :
        /\ UpdateTree(OrderedItems(p), patternBase[p])
        /\ patternBase' = [q \in DOMAIN patternBase \ {p} |-> patternBase[q]]
  BY DEF InsertPattern
<1>2. /\ pc = "insert"
      /\ UNCHANGED <<dataset, minSupport, pc, listing, headerTable, suffixPattern, stack, frequentItemsets>>
  BY DEF InsertPattern
<1>3. /\ BuildOK /\ BuildExact /\ BaseOK(patternBase, suffixPattern) /\ p \in Itemset
      /\ patternBase[p] \in Nat
  BY <1>2 DEF IndInv, Exact, BaseOK, Itemset
<1>4. Different' = Different /\ Frequent' = Frequent
  BY <1>2, UnchangedDataset
<1>5. PICK F, path, count : F = DOMAIN headerTable /\ path = OrderedItems(p) /\ count = patternBase[p]
  OBVIOUS
<1>6. listing \in Listings /\ ConsistentListing(listing) /\ TreeOK(headerTable, nodeLinks, fpTree)
      /\ F \subseteq Items /\ \A x \in F : headerTable[x] \in Nat
  BY <1>3, <1>5 DEF BuildOK, BuildExact, TreeOK
<1>7. PathOf(path, F)
  BY <1>3, <1>5, <1>6, PathFacts
<1>8. /\ \A i, j \in 1 .. Len(path) : i < j => Earlier(path[i], path[j])
      /\ \A x \in F : \A T \in SUBSET {y \in F : Earlier(y, x)} : Passes(path, x, T) <=> {x} \cup T \subseteq p
  BY <1>3, <1>5, <1>6, PathOrder
<1>9. fpTree' = Updated(fpTree, path, count)
  BY <1>1, <1>5, UpdateTreeEffect
<1>10. \A x, y : Earlier(x, y)' <=> Earlier(x, y)
  BY <1>2 DEF Earlier, ListedBefore
<1>11. ASSUME NEW n \in DOMAIN fpTree', NEW i \in 1 .. Len(n), NEW j \in 1 .. Len(n), i < j
       PROVE  Earlier(n[i], n[j])
  <2>1. DOMAIN fpTree' = DOMAIN fpTree \cup Along(path)
    BY <1>9, UpdatedEntries DEF AddsAlong
  <2>2. CASE n \in DOMAIN fpTree
    BY <1>3, <1>11, <2>2 DEF BuildExact
  <2>3. CASE n \in Along(path)
    <3>1. path \in Seq(F) /\ DOMAIN path = 1 .. Len(path) /\ Len(path) \in Nat
      BY <1>7, LenProperties DEF PathOf
    <3>2. PICK k \in 1 .. Len(path) : n = SubSeq(path, 1, k)
      BY <2>3, <3>1 DEF Along
    <3>3. Len(n) = k /\ \A h \in 1 .. k : n[h] = path[h]
      BY <3>1, <3>2, BeginningFacts
    <3>4. i \in 1 .. Len(path) /\ j \in 1 .. Len(path) /\ n[i] = path[i] /\ n[j] = path[j]
      BY <3>1, <3>3
    <3> QED BY <1>8, <1>11, <3>4
  <2> QED BY <2>1, <2>2, <2>3
<1>12. ASSUME NEW x \in F, NEW T \in SUBSET {y \in F : Earlier(y, x)}
       PROVE  Weight(fpTree', x, T) + BaseWeight(patternBase', {x} \cup T)
                = Count(suffixPattern \cup ({x} \cup T), Different)
  <2>1. PICK S : S = {x} \cup T
    OBVIOUS
  <2>2. PICK add : add = IF S \subseteq p THEN count ELSE 0
    OBVIOUS
  <2>3. Weight(fpTree', x, T) = Weight(fpTree, x, T) + IF Passes(path, x, T) THEN count ELSE 0
    BY <1>3, <1>5, <1>6, <1>7, <1>9, WeightUpdated
  <2>4. Passes(path, x, T) <=> S \subseteq p
    BY <1>8, <2>1
  <2>5. Weight(fpTree', x, T) = Weight(fpTree, x, T) + add
    BY <2>2, <2>3, <2>4
  <2>6. BaseWeight(patternBase, S) = BaseWeight(patternBase', S) + IF S \subseteq p THEN count ELSE 0
    BY <1>1, <1>3, <1>5, BaseWithout
  <2>7. BaseWeight(patternBase, S) = BaseWeight(patternBase', S) + add
    BY <2>2, <2>6
  <2>8. Weight(fpTree, x, T) + BaseWeight(patternBase, S) = Count(suffixPattern \cup S, Different)
    BY <1>3, <1>5, <2>1 DEF BuildExact
  <2>9. BaseOK(patternBase', suffixPattern)
    BY <1>1, <1>3 DEF BaseOK
  <2>10. Weight(fpTree, x, T) \in Nat /\ BaseWeight(patternBase', S) \in Nat /\ add \in Nat
    BY <1>3, <1>5, <1>6, <2>2, <2>9, HoldingFinite, BaseFinite
  <2>11. Weight(fpTree', x, T) + BaseWeight(patternBase', S) = Count(suffixPattern \cup S, Different)
    BY <2>5, <2>7, <2>8, <2>10
  <2> QED BY <2>1, <2>11
<1>13. BuildExact'
  <2>1. ConsistentListing(listing') /\ DOMAIN headerTable' = F
        /\ \A x \in F : headerTable'[x] >= minSupport'
    BY <1>2, <1>3, <1>5 DEF BuildExact
  <2>2. \A x \in F : {y \in F : Earlier(y, x)} = {y \in F : Earlier(y, x)'}
    BY <1>10
  <2> QED BY <1>2, <1>4, <1>10, <1>11, <1>12, <2>1, <2>2 DEF BuildExact
<1>14. Current' = Current
  BY <1>2 DEF Current
<1> QED BY <1>2, <1>4, <1>13, <1>14 DEF Exact

\* When all patterns are inserted, mineTree is called with a tree that weighs what
\* the dataset has, and that divides the territory of the pattern base.
LEMMA CallMineTreeExact ==
  ASSUME IndInv, Exact, CallMineTree
  PROVE  Exact'
<1>1. /\ pc = "insert" /\ patternBase = EmptyDict /\ pc' = "mine"
      /\ stack' = Append(stack, CurrentFrame)
      /\ UNCHANGED <<dataset, minSupport, suffixPattern, frequentItemsets>>
  BY DEF CallMineTree, CurrentFrame
<1>2. Different' = Different /\ Frequent' = Frequent
  BY <1>1, UnchangedDataset
<1>3. BuildOK /\ BuildExact
  BY <1>1 DEF IndInv, Exact
<1>4. PICK F, tree, suffix : F = DOMAIN headerTable /\ tree = fpTree /\ suffix = suffixPattern
  OBVIOUS
<1>5. /\ TreeOK(headerTable, nodeLinks, tree) /\ listing \in Listings
      /\ F \subseteq Items /\ \A x \in F : headerTable[x] \in Nat
  BY <1>3, <1>4 DEF BuildOK, TreeOK
<1>6. PICK t : t = CurrentFrame
  OBVIOUS
<1>7. t.header = headerTable /\ t.tree = tree /\ t.suffix = suffix /\ t.items = F
  BY <1>4, <1>6 DEF CurrentFrame
<1>8. \A x \in F : \A T \in SUBSET {y \in F : Earlier(y, x)} :
        Weight(tree, x, T) = Count(suffix \cup ({x} \cup T), Different)
  <2> SUFFICES ASSUME NEW x \in F, NEW T \in SUBSET {y \in F : Earlier(y, x)}
               PROVE  Weight(tree, x, T) = Count(suffix \cup ({x} \cup T), Different)
    OBVIOUS
  <2>1. Weight(tree, x, T) + BaseWeight(patternBase, {x} \cup T) = Count(suffix \cup ({x} \cup T), Different)
    BY <1>3, <1>4 DEF BuildExact
  <2>2. BaseWeight(patternBase, {x} \cup T) = 0
    BY <1>1, EmptyWeights
  <2>3. Weight(tree, x, T) \in Nat
    BY <1>5, HoldingFinite
  <2> QED BY <2>1, <2>2, <2>3
<1>9. Sorted(tree)
  <2>1. DOMAIN tree \subseteq Seq(F)
    BY <1>4, <1>5 DEF TreeOK
  <2>2. \A x, y \in F : ~(Earlier(x, y) /\ Earlier(y, x))
    BY <1>4, <1>5, EarlierFacts
  <2>3. \A n \in DOMAIN tree : \A i, j \in 1 .. Len(n) : i < j => Earlier(n[i], n[j])
    BY <1>3, <1>4 DEF BuildExact
  <2> QED BY <2>1, <2>2, <2>3, AscendingSorted
<1>10. ASSUME NEW x \in F  PROVE Above(tree, x) \subseteq {y \in F : Earlier(y, x)}
  <2> SUFFICES ASSUME NEW n \in DOMAIN tree, Last(n) = x, NEW y \in Prefix(n)
               PROVE  y \in F /\ Earlier(y, x)
    BY DEF Above
  <2>1. n \in Seq(F) /\ n # <<>>
    BY <1>4, <1>5 DEF TreeOK
  <2>2. /\ Len(n) \in Nat \ {0} /\ Last(n) = n[Len(n)]
        /\ \E j \in 1 .. Len(n) - 1 : n[j] = y
    BY <2>1, AboveFacts
  <2>3. PICK j \in 1 .. Len(n) - 1 : n[j] = y
    BY <2>2
  <2>4. j \in 1 .. Len(n) /\ Len(n) \in 1 .. Len(n) /\ j < Len(n)
    BY <2>2
  <2>5. Earlier(n[j], n[Len(n)])
    BY <1>3, <1>4, <2>4 DEF BuildExact
  <2>6. y \in F
    BY <2>1, <2>3, <2>4, ElementOfSeq
  <2> QED BY <2>2, <2>3, <2>5, <2>6
<1>11. FrameExact(t, Different, minSupport)
  <2>1. \A x \in F : headerTable[x] >= minSupport
    BY <1>3, <1>4 DEF BuildExact
  <2>2. \A x \in F : \A T \in SUBSET Above(tree, x) : Weight(tree, x, T) = Count(suffix \cup ({x} \cup T), Different)
    BY <1>8, <1>10
  <2> QED BY <1>4, <1>7, <1>9, <2>1, <2>2 DEF FrameExact
<1>12. PICK S : stack \in Seq(S)
  BY DEF IndInv, StackOK
<1>13. /\ Len(stack) \in Nat /\ Len(stack') = Len(stack) + 1 /\ stack'[Len(stack')] = t
       /\ \A i \in 1 .. Len(stack) : stack'[i] = stack[i]
  <2>1. stack \in Seq(S \cup {t})
    BY <1>12, SeqMonotonic
  <2> QED BY <1>1, <1>6, <2>1, AppendProperties, LenProperties
<1>14. /\ Current = Extensions(suffix, F) /\ Current' = {}
  BY <1>1, <1>4 DEF Current
<1>15. \A x \in F : Region(t, x) \subseteq Extensions(suffix, F)
  <2> SUFFICES ASSUME NEW x \in F, NEW T \in SUBSET Above(tree, x)
               PROVE  suffix \cup {x} \cup T \in Extensions(suffix, F)
    BY <1>7 DEF Region
  <2>1. {x} \cup T \in (SUBSET F) \ {{}} /\ suffix \cup {x} \cup T = suffix \cup ({x} \cup T)
    BY <1>10
  <2> QED BY <2>1 DEF Extensions
<1>16. FrameOK(t)
  <2>1. FrameOK(stack'[Len(stack')])
    <3>1. IndInv'
      BY CallMineTreeInv
    <3>2. Len(stack') \in 1 .. Len(stack')
      BY <1>13
    <3> QED BY <3>1, <3>2 DEF IndInv, StackOK
  <2> QED BY <1>13, <2>1
<1>17. \A x, y \in F : x # y => Region(t, x) \cap Region(t, y) = {}
  BY <1>4, <1>7, <1>9, <1>16, RegionsApart
<1>18. ASSUME NEW R \in Frequent, R \in Extensions(suffix, F)  PROVE \E x \in F : R \in Region(t, x)
  <2>1. PICK T \in (SUBSET F) \ {{}} : R = suffix \cup T
    BY <1>18 DEF Extensions
  <2>2. PICK x \in T : \A y \in T \ {x} : Earlier(y, x)
    <3>1. T \in SUBSET DOMAIN headerTable /\ T # {}
      BY <1>4, <2>1
    <3> QED BY <1>4, <1>5, <3>1, LastInOrder
  <2>3. PICK U : U = T \ {x}
    OBVIOUS
  <2>4. x \in F /\ U \in SUBSET {y \in F : Earlier(y, x)} /\ R = suffix \cup ({x} \cup U)
    BY <2>1, <2>2, <2>3
  <2>5. Weight(tree, x, U) >= minSupport /\ minSupport \in Nat \ {0}
    BY <1>8, <2>4, FrequentFacts, MinSupportsAssumption DEF IndInv
  <2>6. Weight(tree, x, U) # 0
    BY <1>5, <2>5, HoldingFinite
  <2>7. PICK n \in DOMAIN tree : Last(n) = x /\ U \subseteq Prefix(n)
    BY <2>6, WeightPositive
  <2>8. U \in SUBSET Above(tree, x) /\ R = suffix \cup {x} \cup U
    BY <2>4, <2>7 DEF Above
  <2> QED BY <1>7, <2>4, <2>8 DEF Region
<1>19. /\ Disjoint(stack', {}, DOMAIN frequentItemsets)
       /\ Covered(Frequent, stack', {}, DOMAIN frequentItemsets)
  <2>1. PICK frequent, frames, current, found, more :
          /\ frequent = Frequent /\ frames = stack /\ current = Current
          /\ found = DOMAIN frequentItemsets /\ more = stack'
    OBVIOUS
  <2>2. Disjoint(frames, current, found) /\ Covered(frequent, frames, current, found)
    BY <2>1 DEF Exact
  <2>3. Pushed(more, frames, t)
    BY <1>13, <2>1 DEF Pushed
  <2>4. Divides(t, frequent, current)
    BY <1>7, <1>14, <1>15, <1>17, <1>18, <2>1 DEF Divides
  <2>5. Disjoint(more, {}, found) /\ Covered(frequent, more, {}, found)
    BY <2>2, <2>3, <2>4, DivideTerritory
  <2> QED BY <2>1, <2>5
<1>20. \A i \in 1 .. Len(stack') : FrameExact(stack'[i], Different, minSupport)
  <2> SUFFICES ASSUME NEW i \in 1 .. Len(stack')  PROVE FrameExact(stack'[i], Different, minSupport)
    OBVIOUS
  <2>1. CASE i \in 1 .. Len(stack)
    BY <1>13, <2>1 DEF Exact
  <2>2. CASE i \notin 1 .. Len(stack)
    <3>1. i = Len(stack')
      BY <1>13, <2>2
    <3> QED BY <1>11, <1>13, <3>1
  <2> QED BY <2>1, <2>2
<1> QED BY <1>1, <1>2, <1>14, <1>19, <1>20 DEF Exact

\* The itemset that a round of mineTree appends is frequent and new, and the
\* conditional pattern base weighs what the dataset has beyond it.
LEMMA MineItemExact ==
  ASSUME IndInv, Exact, MineItem
  PROVE  /\ Exact'
         /\ DOMAIN frequentItemsets' = DOMAIN frequentItemsets \cup {suffixPattern'}
         /\ suffixPattern' \in Frequent
<1>1. PICK frame : frame = Last(stack)
  OBVIOUS
<1>2. PICK x \in frame.items :
        /\ suffixPattern' = frame.suffix \cup {x}
        /\ frequentItemsets' = frequentItemsets (+) SetToBag({suffixPattern'})
        /\ patternBase' = FindConditionalPatternBase(frame.links[x], frame.tree)
        /\ LoopOn(x)
  BY <1>1 DEF MineItem
<1>3. pc = "mine" /\ stack # <<>> /\ pc' = "createTree" /\ UNCHANGED <<dataset, minSupport>>
  BY DEF MineItem
<1>4. Different' = Different /\ Frequent' = Frequent
  BY <1>3, UnchangedDataset
<1>5. PICK header, links, tree, suffix, items :
        /\ header = frame.header /\ links = frame.links /\ tree = frame.tree
        /\ suffix = frame.suffix /\ items = frame.items
  OBVIOUS
<1>6. PICK l : l = Len(stack)
  OBVIOUS
<1>7. /\ l \in 1 .. l /\ l \in Nat /\ frame = stack[l] /\ Len(stack') = l
      /\ \A i \in 1 .. l : i # l => stack'[i] = stack[i]
      /\ stack'[l] = [header |-> header, links |-> links, tree |-> tree, suffix |-> suffix,
                      items |-> items \ {x}]
  <2>1. l \in 1 .. l /\ l \in Nat
    BY <1>3, <1>6, LenProperties, EmptySeq DEF IndInv, StackOK
  <2> QED BY <1>1, <1>2, <1>3, <1>5, <1>6, <2>1, LoopOnFacts DEF IndInv, Last
<1>8. FrameOK(frame) /\ FrameExact(frame, Different, minSupport)
  BY <1>6, <1>7 DEF IndInv, StackOK, Exact
<1>9. /\ TreeOK(header, links, tree) /\ suffix \subseteq Items \ DOMAIN header
      /\ x \in DOMAIN header /\ header[x] = Weight(tree, x, {})
      /\ Sorted(tree) /\ header[x] >= minSupport
      /\ \A T \in SUBSET Above(tree, x) : Weight(tree, x, T) = Count(suffix \cup ({x} \cup T), Different)
  BY <1>2, <1>5, <1>8 DEF FrameOK, FrameExact
<1>10. PICK S, A : S = suffixPattern' /\ A = Above(tree, x)
  OBVIOUS
<1>11. S = suffix \cup {x} /\ S \subseteq Items /\ S # {}
  BY <1>2, <1>5, <1>9, <1>10 DEF TreeOK
<1>12. A \cap S = {}
  <2> SUFFICES ASSUME NEW n \in DOMAIN tree, Last(n) = x  PROVE Prefix(n) \cap S = {}
    BY <1>10 DEF Above
  <2>1. Prefix(n) \subseteq DOMAIN header \ {x}
    BY <1>9, PrefixFacts
  <2> QED BY <1>9, <1>11, <2>1
<1>13. S \in Frequent
  <2>1. suffix \cup ({x} \cup {}) = S
    BY <1>11
  <2>2. Count(S, Different) = header[x]
    BY <1>9, <2>1
  <2> QED BY <1>9, <1>11, <2>2, FrequentFacts
<1>14. UNION DOMAIN patternBase' = A /\ \A T : T # {} => BaseWeight(patternBase', T) = Weight(tree, x, T)
  BY <1>2, <1>5, <1>9, <1>10, ConditionalExact
<1>15. BaseExact(patternBase', suffixPattern', Different)
  <2> SUFFICES ASSUME NEW T \in (SUBSET A) \ {{}}
               PROVE  BaseWeight(patternBase', T) = Count(S \cup T, Different)
    BY <1>10, <1>14 DEF BaseExact
  <2>1. S \cup T = suffix \cup ({x} \cup T)
    BY <1>11
  <2> QED BY <1>9, <1>10, <1>14, <2>1
<1>16. PICK current : current = Extensions(S, A)
  OBVIOUS
<1>17. Current' = current /\ Current = {}
  BY <1>3, <1>10, <1>14, <1>16 DEF Current
<1>18. Region(frame, x) = {S} \cup current /\ S \notin current
  <2>1. Region(frame, x) = {S \cup T : T \in SUBSET A}
    BY <1>5, <1>10, <1>11 DEF Region
  <2>2. current = {S \cup T : T \in (SUBSET A) \ {{}}}
    BY <1>16 DEF Extensions
  <2>3. \A T \in SUBSET A : T # {} => S \cup T # S
    BY <1>12
  <2>4. {} \in SUBSET A /\ S \cup {} = S
    OBVIOUS
  <2> QED BY <2>1, <2>2, <2>3, <2>4
<1>19. PICK left, found : left = stack' /\ found = DOMAIN frequentItemsets
  OBVIOUS
<1>20. Disjoint(stack, {}, found) /\ Covered(Frequent, stack, {}, found)
  BY <1>17, <1>19 DEF Exact
<1>21. Without(left, stack, l, x)
  <2>1. left[l].suffix = suffix /\ left[l].tree = tree /\ left[l].items = items \ {x}
    BY <1>7, <1>19
  <2>2. \A y : Region(left[l], y) = Region(frame, y)
    BY <1>5, <2>1 DEF Region
  <2> QED BY <1>2, <1>5, <1>6, <1>7, <1>19, <2>1, <2>2 DEF Without
<1>22. Disjoint(left, current, found \cup {S}) /\ Covered(Frequent, left, current, found \cup {S})
  <2>1. PICK frequent, frames : frequent = Frequent /\ frames = stack
    OBVIOUS
  <2>2. Disjoint(left, current, found \cup {S}) /\ Covered(frequent, left, current, found \cup {S})
    BY <1>7, <1>18, <1>20, <1>21, <2>1, EnterTerritory
  <2> QED BY <2>1, <2>2
<1>23. S \notin found
  <2>1. S \in Region(frame, x)
    BY <1>18
  <2>2. Region(stack[l], x) \cap ({} \cup found) = {}
    BY <1>2, <1>6, <1>7, <1>20 DEF Disjoint
  <2> QED BY <1>7, <2>1, <2>2
<1>24. /\ DOMAIN frequentItemsets' = found \cup {S}
       /\ frequentItemsets'[S] = 1 /\ \A R \in found : frequentItemsets'[R] = frequentItemsets[R]
  <2>1. PICK counts : counts = frequentItemsets
    OBVIOUS
  <2>2. frequentItemsets' = counts (+) SetToBag({S}) /\ DOMAIN counts = found
    BY <1>2, <1>10, <1>19, <2>1
  <2>3. DOMAIN SetToBag({S}) = {S} /\ SetToBag({S})[S] = 1
    BY DEF SetToBag
  <2>4. \A R \in found : counts[R] = 1
    BY <1>19, <2>1 DEF Exact
  <2> QED BY <1>23, <2>1, <2>2, <2>3, <2>4 DEF (+)
<1>25. \A R \in found \cup {S} : R \in Frequent /\ frequentItemsets'[R] = 1
  BY <1>13, <1>19, <1>24 DEF Exact
<1>26. \A i \in 1 .. l : FrameExact(stack'[i], Different, minSupport)
  <2>1. FrameExact(stack'[l], Different, minSupport)
    BY <1>5, <1>7, <1>8 DEF FrameExact
  <2> QED BY <1>6, <1>7, <2>1 DEF Exact
<1>27. Exact'
  BY <1>3, <1>4, <1>7, <1>15, <1>17, <1>19, <1>22, <1>24, <1>25, <1>26 DEF Exact
<1> QED BY <1>10, <1>13, <1>19, <1>24, <1>27

\* A call returns when the territories of all its items have been mined.
LEMMA ReturnFromMineTreeExact ==
  ASSUME IndInv, Exact, ReturnFromMineTree
  PROVE  Exact'
<1>1. /\ pc = "mine" /\ stack # <<>> /\ Last(stack).items = {} /\ stack' = Front(stack)
      /\ pc' = (IF stack' = <<>> THEN "returned" ELSE "mine")
      /\ UNCHANGED <<dataset, minSupport, frequentItemsets>>
  BY DEF ReturnFromMineTree
<1>2. Different' = Different /\ Frequent' = Frequent
  BY <1>1, UnchangedDataset
<1>3. PICK S : stack \in Seq(S)
  BY DEF IndInv, StackOK
<1>4. /\ Len(stack) \in Nat \ {0} /\ Last(stack) = stack[Len(stack)]
      /\ Len(stack') = Len(stack) - 1 /\ \A i \in 1 .. Len(stack) - 1 : stack'[i] = stack[i]
  BY <1>1, <1>3, NodeFacts
<1>5. Current = {} /\ Current' = {}
  BY <1>1 DEF Current
<1>6. Disjoint(stack', {}, DOMAIN frequentItemsets) /\ Covered(Frequent, stack', {}, DOMAIN frequentItemsets)
  <2>1. PICK frequent, frames, found, left :
          frequent = Frequent /\ frames = stack /\ found = DOMAIN frequentItemsets /\ left = stack'
    OBVIOUS
  <2>2. Disjoint(frames, {}, found) /\ Covered(frequent, frames, {}, found)
    BY <1>5, <2>1 DEF Exact
  <2>3. /\ Len(frames) \in Nat \ {0} /\ frames[Len(frames)].items = {}
        /\ Len(left) = Len(frames) - 1 /\ \A i \in 1 .. Len(frames) - 1 : left[i] = frames[i]
    BY <1>1, <1>4, <2>1
  <2>4. Disjoint(left, {}, found) /\ Covered(frequent, left, {}, found)
    BY <2>2, <2>3, LeaveTerritory
  <2> QED BY <2>1, <2>4
<1>7. \A i \in 1 .. Len(stack') : FrameExact(stack'[i], Different, minSupport)
  BY <1>4 DEF Exact
<1>8. pc' \in {"returned", "mine"} /\ (pc' = "returned" => stack' = <<>>)
  BY <1>1
<1> QED BY <1>1, <1>2, <1>5, <1>6, <1>7, <1>8 DEF Exact

\* Every step keeps the second inductive invariant.
LEMMA NextExact ==
  ASSUME \A l \in Listings : ConsistentListing(l), IndInv, Exact, [Next]_vars
  PROVE  Exact'
<1>1. CASE CountItems
  BY <1>1, CountItemsExact
<1>2. CASE InsertPattern
  BY <1>2, InsertPatternExact
<1>3. CASE CallMineTree
  BY <1>3, CallMineTreeExact
<1>4. CASE MineItem
  BY <1>4, MineItemExact
<1>5. CASE ReturnFromMineTree
  BY <1>5, ReturnFromMineTreeExact
<1>6. CASE UNCHANGED vars
  <2>1. UNCHANGED <<dataset, minSupport>> /\ UNCHANGED <<pc, patternBase, suffixPattern, stack, frequentItemsets>>
        /\ UNCHANGED <<listing, headerTable, fpTree>>
    BY <1>6 DEF vars, treeVars
  <2>2. Different' = Different /\ Frequent' = Frequent
    BY <2>1, UnchangedDataset
  <2>3. Current' = Current
    BY <2>1 DEF Current
  <2>4. BuildExact => BuildExact'
    <3>1. \A x, y : Earlier(x, y)' <=> Earlier(x, y)
      BY <2>1 DEF Earlier, ListedBefore
    <3>2. \A x : {y \in DOMAIN headerTable : Earlier(y, x)} = {y \in DOMAIN headerTable : Earlier(y, x)'}
      BY <3>1
    <3> QED BY <2>1, <2>2, <3>1, <3>2 DEF BuildExact
  <2> QED BY <2>1, <2>2, <2>3, <2>4 DEF Exact
<1> QED BY <1>1, <1>2, <1>3, <1>4, <1>5, <1>6 DEF Next

\* With consistent listings the trees weigh what the different transactions have, and
\* every itemset that is frequent in those is found, or in exactly one of the territories
\* that are left to mine.
LEMMA ExactHolds ==
  ASSUME \A l \in Listings : ConsistentListing(l)
  PROVE  Spec => []Exact
<1>1. IndInv /\ Exact /\ [Next]_vars => Exact'
  BY NextExact
<1> QED BY <1>1, InitExact, IndInvHolds, PTL DEF Spec

-----------------------------------------------------------------------------
\* Where no transaction repeats another, the different transactions are the dataset.
LEMMA DifferentIsDataset ==
  ASSUME NoRepeats, dataset \in Datasets
  PROVE  Different = dataset /\ Frequent = FrequentItemsets(dataset, minSupport)
<1>1. dataset \in Seq(Itemset)
  BY DatasetsAssumption
<1>2. dataset = [t \in DOMAIN dataset |-> dataset[t]] /\ DOMAIN dataset = 1 .. Len(dataset) /\ Len(dataset) \in Nat
  BY <1>1, LenProperties
<1>3. \A u, v \in DOMAIN dataset : dataset[v] = dataset[u] => v = u
  BY DEF NoRepeats, IsInjective
<1>4. \A u \in DOMAIN dataset : \A v \in 1 .. u - 1 : v \in DOMAIN dataset /\ v # u
  BY <1>2
<1>5. {u \in DOMAIN dataset : \A v \in 1 .. u - 1 : dataset[v] # dataset[u]} = DOMAIN dataset
  BY <1>3, <1>4
<1>6. Different = dataset
  BY <1>2, <1>5 DEF Different
<1> QED BY <1>6 DEF Frequent

\* The supports in the header table of every conditional tree are those that the
\* itemsets have in the dataset, if no transaction repeats another.
THEOREM SupportsAreConditional ==
  ASSUME NoRepeats, \A l \in Listings : ConsistentListing(l)
  PROVE  Spec => []ConditionalSupports
<1>1. ASSUME NEW t, FrameOK(t), FrameExact(t, Different, minSupport), NEW x \in DOMAIN t.header
      PROVE  t.header[x] = Count(t.suffix \cup {x}, Different)
  <2>1. t.header[x] = Weight(t.tree, x, {})
    BY <1>1 DEF FrameOK
  <2>2. Weight(t.tree, x, {}) = Count(t.suffix \cup ({x} \cup {}), Different)
    BY <1>1 DEF FrameExact
  <2>3. {x} \cup {} = {x}
    OBVIOUS
  <2> QED BY <2>1, <2>2, <2>3
<1>2. ASSUME BuildOK, BuildExact, NEW x \in DOMAIN headerTable
      PROVE  headerTable[x] = Count(suffixPattern \cup {x}, Different)
  <2>1. headerTable[x] = Weight(fpTree, x, {}) + BaseWeight(patternBase, {x})
    BY <1>2 DEF BuildOK
  <2>2. Weight(fpTree, x, {}) + BaseWeight(patternBase, {x} \cup {})
          = Count(suffixPattern \cup ({x} \cup {}), Different)
    BY <1>2 DEF BuildExact
  <2>3. {x} \cup {} = {x}
    OBVIOUS
  <2> QED BY <2>1, <2>2, <2>3
<1>3. ASSUME IndInv, Exact, NEW t \in Trees, NEW x \in DOMAIN t.header
      PROVE  t.header[x] = Count(t.suffix \cup {x}, Different)
  <2>1. CASE t \in Frames
    <3>1. PICK i \in DOMAIN stack : t = stack[i]
      BY <2>1 DEF Frames
    <3>2. i \in 1 .. Len(stack)
      BY <1>3, LenProperties DEF IndInv, StackOK
    <3>3. FrameOK(t) /\ FrameExact(t, Different, minSupport)
      BY <1>3, <3>1, <3>2 DEF IndInv, StackOK, Exact
    <3> QED BY <1>1, <1>3, <3>3
  <2>2. CASE t \notin Frames
    <3>1. pc = "insert" /\ t = CurrentFrame
      BY <1>3, <2>2 DEF Trees, CurrentFrame
    <3>2. BuildOK /\ BuildExact
      BY <1>3, <3>1 DEF IndInv, Exact
    <3>3. t.header = headerTable /\ t.suffix = suffixPattern
      BY <3>1 DEF CurrentFrame
    <3> QED BY <1>2, <1>3, <3>2, <3>3
  <2> QED BY <2>1, <2>2
<1>4. IndInv => Different = dataset
  BY DifferentIsDataset DEF IndInv
<1>5. IndInv /\ Exact => ConditionalSupports
  BY <1>3, <1>4 DEF ConditionalSupports
<1> QED BY <1>5, IndInvHolds, ExactHolds, PTL

\* mineTree appends no itemset twice, whether transactions repeat or not.
THEOREM EachIsMinedOnce ==
  ASSUME \A l \in Listings : ConsistentListing(l)
  PROVE  Spec => []MinedOnce
<1>1. Exact => MinedOnce
  BY DEF Exact, MinedOnce
<1> QED BY <1>1, ExactHolds, PTL

\* When the outermost call returns, or raises because nothing is frequent, no
\* territory is left.
LEMMA ExactNothingMissed ==
  ASSUME NoRepeats, IndInv, Exact
  PROVE  NothingMissed
<1> SUFFICES ASSUME Returned  PROVE Frequent \subseteq DOMAIN frequentItemsets
  BY DifferentIsDataset DEF NothingMissed, IndInv
<1>1. pc \in {"returned", "raised"} /\ stack = <<>>
  BY DEF Exact, Returned
<1>2. Current = {} /\ 1 .. Len(stack) = {}
  BY <1>1 DEF Current
<1>3. Covered(Frequent, stack, {}, DOMAIN frequentItemsets)
  BY <1>2 DEF Exact
<1> QED BY <1>2, <1>3 DEF Covered

\* With dicts that list items of the same support in one order, what the run with
\* tied items loses is found; and without repeated transactions what the other loses.
THEOREM NothingIsMissed ==
  ASSUME NoRepeats, \A l \in Listings : ConsistentListing(l)
  PROVE  Spec => []NothingMissed
<1>1. IndInv /\ Exact => NothingMissed
  BY ExactNothingMissed
<1> QED BY <1>1, IndInvHolds, ExactHolds, PTL

\* Every step of createTree and mineTree is a step of the miner or leaves what it
\* shows unchanged.
LEMMA StepImplements ==
  ASSUME NoRepeats, IndInv, Exact, Exact', NothingMissed', Next
  PROVE  Mining!Report \/ UNCHANGED Mining!vars
<1>1. PICK found, found2 : found = DOMAIN frequentItemsets /\ found2 = DOMAIN frequentItemsets'
  OBVIOUS
<1>2. UNCHANGED <<dataset, minSupport>> /\ ~Returned
  BY DEF Next, CountItems, InsertPattern, CallMineTree, MineItem, ReturnFromMineTree, Returned
<1>3. /\ Frequent' = Frequent /\ Frequent = FrequentItemsets(dataset, minSupport)
      /\ FrequentItemsets(dataset, minSupport)' = FrequentItemsets(dataset, minSupport)
  BY <1>2, UnchangedDataset, DifferentIsDataset DEF IndInv, FrequentItemsets, IsFrequent, Count
<1>4. found2 \subseteq Frequent
  BY <1>1, <1>3 DEF Exact
<1>5. Returned' => found2 = Frequent
  BY <1>1, <1>3, <1>4 DEF NothingMissed
<1>6. found \subseteq found2
  <2>1. CASE MineItem
    BY <1>1, <2>1, MineItemExact
  <2>2. CASE ~MineItem
    <3>1. frequentItemsets' = frequentItemsets
      BY <2>2 DEF Next, CountItems, InsertPattern, CallMineTree, ReturnFromMineTree
    <3> QED BY <1>1, <3>1
  <2> QED BY <2>1, <2>2
<1>7. Returned' \in BOOLEAN
  BY DEF Returned
<1> QED BY <1>1, <1>2, <1>3, <1>4, <1>5, <1>6, <1>7 DEF Mining!Report

\* createTree and mineTree are a frequent-itemset miner of datasets whose transactions
\* differ.
THEOREM FPGrowthImplementsMining ==
  ASSUME NoRepeats, \A l \in Listings : ConsistentListing(l)
  PROVE  Spec => ImplementsMining
<1>1. Init => Mining!Init
  BY DEF Init, Mining!Init, EmptyDict, Returned
<1>2. IndInv /\ Exact /\ Exact' /\ NothingMissed' /\ [Next]_vars => [Mining!Report]_(Mining!vars)
  <2> SUFFICES ASSUME IndInv, Exact, Exact', NothingMissed', [Next]_vars  PROVE [Mining!Report]_(Mining!vars)
    OBVIOUS
  <2>1. CASE Next
    BY <2>1, StepImplements
  <2>2. CASE UNCHANGED vars
    BY <2>2 DEF vars, treeVars, Mining!vars, Returned
  <2> QED BY <2>1, <2>2
<1>3. IndInv /\ Exact => NothingMissed
  BY ExactNothingMissed
<1> QED
  BY <1>1, <1>2, <1>3, IndInvHolds, ExactHolds, PTL DEF Spec, ImplementsMining, Mining!Spec
=============================================================================
