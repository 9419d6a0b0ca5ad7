----------------------------- MODULE DataLemmas -----------------------------
(***************************************************************************)
(* Lemmas about numbers, sequences and sums that the proofs of several     *)
(* components use.                                                         *)
(***************************************************************************)
EXTENDS Integers, SequencesExt, Selection, Products, TLAPS, SequenceTheorems, FiniteSetTheorems, WellFoundedInduction

-----------------------------------------------------------------------------
(* Induction.  The induction theorems of the library have an operator as a *)
(* parameter; here the property is the set of the numbers that have it.    *)

\* A set of numbers that has 0, and with every number the next, has all of them.
LEMMA SetInduction ==
  ASSUME NEW T \in SUBSET Nat, 0 \in T, \A n \in T : n + 1 \in T
  PROVE  T = Nat
<1> DEFINE R == OpToRel(<, Nat)
           C == Nat \ T
<1>1. IsWellFoundedOn(R, Nat)
  BY NatLessThanWellFounded
<1>2. ASSUME C # {} PROVE FALSE
  <2>1. PICK x \in C : \A y \in C : ~ (<<y, x>> \in R)
    <3> HIDE DEF R
    <3> QED
      BY <1>1, <1>2, WFMin
  <2>2. x \in Nat /\ x # 0 /\ x - 1 \in Nat
    OBVIOUS
  <2>3. x - 1 \notin T
    BY <2>2
  <2>4. <<x - 1, x>> \in R
    BY <2>2 DEF OpToRel
  <2> QED
    BY <2>1, <2>2, <2>3, <2>4
<1> QED
  BY <1>2

\* A set of numbers that is not empty has a least element.
LEMMA Least ==
  ASSUME NEW K \in SUBSET Nat, K # {}
  PROVE  \E k \in K : \A j \in K : k <= j
<1> DEFINE R == OpToRel(<, Nat)
<1>1. PICK k \in K : \A j \in K : ~ (<<j, k>> \in R)
  <2> HIDE DEF R
  <2> QED BY NatLessThanWellFounded, WFMin DEF R
<1>2. \A j \in K : j \in Nat /\ k \in Nat /\ ~ (j < k)
  BY <1>1 DEF OpToRel
<1> QED BY <1>2

\* A set of numbers up to n that is not empty has a greatest element.
LEMMA Greatest ==
  ASSUME NEW n \in Nat, NEW K \in SUBSET (1 .. n), K # {}
  PROVE  \E k \in K : \A j \in K : j <= k
<1> DEFINE T == {m \in Nat : \A L \in SUBSET (1 .. m) : L # {} => \E k \in L : \A j \in L : j <= k}
<1>1. 0 \in T
  <2>1. 1 .. 0 = {}
    OBVIOUS
  <2> QED BY <2>1
<1>2. ASSUME NEW m \in T  PROVE m + 1 \in T
  <2> SUFFICES ASSUME NEW L \in SUBSET (1 .. m + 1), L # {}
               PROVE  \E k \in L : \A j \in L : j <= k
    OBVIOUS
  <2>1. CASE m + 1 \in L
    BY <2>1
  <2>2. CASE m + 1 \notin L
    <3>1. L \in SUBSET (1 .. m)
      BY <2>2
    <3> QED BY <3>1
  <2> QED BY <2>1, <2>2
<1> HIDE DEF T
<1>3. T = Nat
  <2>1. T \in SUBSET Nat
    BY DEF T
  <2> QED BY <1>1, <1>2, <2>1, SetInduction
<1> QED BY <1>3 DEF T

-----------------------------------------------------------------------------
(* Sequences. *)

\* Removing one element shifts those behind it.
LEMMA RemoveAtProperties ==
  ASSUME NEW S, NEW s \in Seq(S), NEW k \in 1 .. Len(s)
  PROVE  /\ RemoveAt(s, k) \in Seq(S)
         /\ Len(RemoveAt(s, k)) = Len(s) - 1
         /\ \A n \in 1 .. Len(s) - 1 : RemoveAt(s, k)[n] = IF n < k THEN s[n] ELSE s[n + 1]
<1> DEFINE front == SubSeq(s, 1, k - 1)
           back == SubSeq(s, k + 1, Len(s))
<1>1. Len(s) \in Nat /\ k \in Int /\ 1 <= k /\ k <= Len(s) /\ \A n \in 1 .. Len(s) : s[n] \in S
  BY LenProperties, ElementOfSeq
<1>2. front \in Seq(S) /\ Len(front) = k - 1 /\ \A n \in 1 .. k - 1 : front[n] = s[n]
  BY <1>1, SubSeqProperties
<1>3. back \in Seq(S) /\ Len(back) = Len(s) - k /\ \A n \in 1 .. Len(s) - k : back[n] = s[k + n]
  BY <1>1, SubSeqProperties
<1>4. RemoveAt(s, k) = front \o back
  BY DEF RemoveAt
<1> HIDE DEF front, back
<1>5. /\ front \o back \in Seq(S)
      /\ Len(front \o back) = Len(front) + Len(back)
      /\ \A n \in 1 .. Len(front) + Len(back) :
           (front \o back)[n] = IF n <= Len(front) THEN front[n] ELSE back[n - Len(front)]
  BY <1>2, <1>3, ConcatProperties
<1>6. Len(front) + Len(back) = Len(s) - 1
  BY <1>1, <1>2, <1>3
<1>7. ASSUME NEW n \in 1 .. Len(s) - 1
      PROVE  (front \o back)[n] = IF n < k THEN s[n] ELSE s[n + 1]
  <2>1. (front \o back)[n] = IF n <= k - 1 THEN front[n] ELSE back[n - (k - 1)]
    BY <1>2, <1>5, <1>6
  <2>2. CASE n < k
    BY <1>1, <1>2, <2>1, <2>2
  <2>3. CASE ~ (n < k)
    <3>1. n - (k - 1) \in 1 .. Len(s) - k /\ k + (n - (k - 1)) = n + 1
      BY <1>1, <2>3
    <3> QED
      BY <1>1, <1>3, <2>1, <2>3, <3>1
  <2> QED
    BY <2>2, <2>3
<1> QED
  BY <1>4, <1>5, <1>6, <1>7

\* The image of a finite set is finite.
LEMMA ImageFinite ==
  ASSUME NEW S, IsFiniteSet(S), NEW f
  PROVE  IsFiniteSet({f[x] : x \in S})
<1> DEFINE T == {f[x] : x \in S}
           g == [x \in S |-> f[x]]
<1>1. g \in Surjection(S, T)
  <2>1. g \in [S -> T]
    OBVIOUS
  <2>2. \A t \in T : \E x \in S : g[x] = t
    OBVIOUS
  <2> HIDE DEF T, g
  <2> QED
    BY <2>1, <2>2 DEF Surjection
<1> HIDE DEF T, g
<1>2. IsFiniteSet(T)
  BY <1>1, FS_Surjection
<1> QED
  BY <1>2 DEF T

-----------------------------------------------------------------------------
(* Sums over finite sets, of natural numbers. *)

Pick(s) == CHOOSE x \in s : TRUE

\* What SumFunctionOnSet folds with, on the subsets of S.
IsIteration(iter, f, S) ==
  iter = [s \in SUBSET S |-> IF s = {} THEN 0 ELSE f[Pick(s)] + iter[s \ {Pick(s)}]]

\* The element that a sum begins with, and the others.
LEMMA PickProperties ==
  ASSUME NEW s, IsFiniteSet(s), s # {}
  PROVE  /\ Pick(s) \in s
         /\ IsFiniteSet(s \ {Pick(s)})
         /\ Cardinality(s \ {Pick(s)}) = Cardinality(s) - 1
         /\ Cardinality(s) \in Nat \ {0}
<1>1. Pick(s) \in s
  BY DEF Pick
<1> HIDE DEF Pick
<1> QED
  BY <1>1, FS_RemoveElement, FS_EmptySet, FS_CardinalityType

\* There is a function that satisfies the recursion.
LEMMA IterationExists ==
  ASSUME NEW f, NEW S, IsFiniteSet(S)
  PROVE  \E iter : IsIteration(iter, f, S)
<1> DEFINE Upto(n) == {s \in SUBSET S : Cardinality(s) <= n}
           Body(g, s) == IF s = {} THEN 0 ELSE f[Pick(s)] + g[s \ {Pick(s)}]
           T == {n \in Nat : \E g : g = [s \in Upto(n) |-> Body(g, s)]}
<1>0. \A s \in SUBSET S : IsFiniteSet(s) /\ Cardinality(s) \in Nat
  BY FS_Subset, FS_CardinalityType
<1>1. 0 \in T
  <2>1. Upto(0) = {{}}
    BY <1>0, FS_EmptySet
  <2> DEFINE g == [s \in Upto(0) |-> 0]
  <2>2. g = [s \in Upto(0) |-> Body(g, s)]
    BY <2>1
  <2> QED
    BY <2>2
<1>2. ASSUME NEW n \in T PROVE n + 1 \in T
  <2>1. PICK g : g = [s \in Upto(n) |-> Body(g, s)]
    BY <1>2
  <2> DEFINE h == [s \in Upto(n + 1) |-> Body(g, s)]
  <2>2. ASSUME NEW s \in Upto(n) PROVE s \in Upto(n + 1) /\ h[s] = g[s]
    <3>1. s \in Upto(n + 1)
      BY <1>0
    <3>2. h[s] = Body(g, s)
      BY <3>1
    <3>3. g[s] = Body(g, s)
      BY <2>1
    <3> QED
      BY <3>1, <3>2, <3>3
  <2>3. ASSUME NEW s \in Upto(n + 1), s # {} PROVE s \ {Pick(s)} \in Upto(n)
    BY <1>0, <2>3, PickProperties
  <2>4. ASSUME NEW s \in Upto(n + 1) PROVE Body(g, s) = Body(h, s)
    BY <2>2, <2>3
  <2>5. h = [s \in Upto(n + 1) |-> Body(h, s)]
    <3> HIDE DEF Upto, Body
    <3> QED
      BY <2>4
  <2>6. \E x : x = [s \in Upto(n + 1) |-> Body(x, s)]
    <3> HIDE DEF Upto, Body, h
    <3> QED
      BY <2>5
  <2>7. n + 1 \in Nat
    BY <1>2
  <2> HIDE DEF Upto, Body, h
  <2> QED
    BY <2>6, <2>7
<1> HIDE DEF T
<1>3. T = Nat
  <2>1. T \in SUBSET Nat
    BY DEF T
  <2> QED
    BY <1>1, <1>2, <2>1, SetInduction
<1>4. Cardinality(S) \in T /\ Upto(Cardinality(S)) = SUBSET S
  <2>1. \A s \in SUBSET S : Cardinality(s) <= Cardinality(S)
    BY FS_Subset
  <2> QED
    BY <1>3, <2>1, FS_CardinalityType
<1>5. PICK g : g = [s \in Upto(Cardinality(S)) |-> Body(g, s)]
  BY <1>4 DEF T
<1>6. g = [s \in SUBSET S |-> Body(g, s)]
  BY <1>4, <1>5
<1> QED
  BY <1>6 DEF IsIteration

\* It has one value on a set, whichever set it was defined on.
LEMMA IterationUnique ==
  ASSUME NEW f, NEW S, IsFiniteSet(S), NEW R \in SUBSET S,
         NEW g, IsIteration(g, f, S), NEW h, IsIteration(h, f, R)
  PROVE  \A s \in SUBSET R : g[s] = h[s]
<1> DEFINE T == {n \in Nat : \A s \in SUBSET R : Cardinality(s) = n => g[s] = h[s]}
<1>0. \A s \in SUBSET R : IsFiniteSet(s) /\ Cardinality(s) \in Nat
  BY FS_Subset, FS_CardinalityType
<1>1. /\ \A s \in SUBSET S : g[s] = IF s = {} THEN 0 ELSE f[Pick(s)] + g[s \ {Pick(s)}]
      /\ \A s \in SUBSET R : h[s] = IF s = {} THEN 0 ELSE f[Pick(s)] + h[s \ {Pick(s)}]
  BY DEF IsIteration
<1>2. 0 \in T
  BY <1>0, <1>1, FS_EmptySet
<1>3. ASSUME NEW n \in T PROVE n + 1 \in T
  <2> SUFFICES ASSUME NEW s \in SUBSET R, Cardinality(s) = n + 1 PROVE g[s] = h[s]
    BY <1>3
  <2>1. s # {} /\ IsFiniteSet(s)
    BY <1>0, <1>3, FS_EmptySet
  <2>2. s \ {Pick(s)} \in SUBSET R /\ Cardinality(s \ {Pick(s)}) = n
    <3>1. Cardinality(s \ {Pick(s)}) = Cardinality(s) - 1
      BY <2>1, PickProperties
    <3>2. n \in Nat
      BY <1>3
    <3> QED
      BY <3>1, <3>2
  <2>3. g[s \ {Pick(s)}] = h[s \ {Pick(s)}]
    BY <1>3, <2>2
  <2> QED
    BY <1>1, <2>1, <2>3
<1> HIDE DEF T
<1>4. T = Nat
  <2>1. T \in SUBSET Nat
    BY DEF T
  <2> QED
    BY <1>2, <1>3, <2>1, SetInduction
<1> QED
  BY <1>0, <1>4 DEF T

\* The recursion of a sum.
LEMMA SumRecursion ==
  ASSUME NEW f, NEW S, IsFiniteSet(S)
  PROVE  SumFunctionOnSet(f, S) =
           IF S = {} THEN 0 ELSE f[Pick(S)] + SumFunctionOnSet(f, S \ {Pick(S)})
<1> DEFINE Iter(R) == CHOOSE iter : IsIteration(iter, f, R)
<1>1. \A R : SumFunctionOnSet(f, R) = Iter(R)[R]
  BY DEF SumFunctionOnSet, FoldFunctionOnSet, MapThenFoldSet, IsIteration, Pick
<1>2. IsIteration(Iter(S), f, S)
  BY IterationExists
<1>3. CASE S = {}
  <2>1. Iter(S)[S] = 0
    BY <1>2, <1>3 DEF IsIteration
  <2> QED
    BY <1>1, <1>3, <2>1
<1>4. CASE S # {}
  <2> DEFINE R == S \ {Pick(S)}
  <2>1. IsFiniteSet(R) /\ R \in SUBSET S
    BY <1>4, PickProperties
  <2>2. IsIteration(Iter(R), f, R)
    BY <2>1, IterationExists
  <2>3. Iter(S)[R] = Iter(R)[R]
    <3> HIDE DEF R, Iter
    <3> QED
      BY <1>2, <2>1, <2>2, IterationUnique
  <2>4. Iter(S)[S] = f[Pick(S)] + Iter(S)[R]
    <3> HIDE DEF Iter
    <3> QED
      BY <1>2, <1>4 DEF IsIteration
  <2> QED
    BY <1>1, <1>4, <2>3, <2>4
<1> QED
  BY <1>3, <1>4

\* The sum over no elements.
LEMMA SumEmpty == \A f : SumFunctionOnSet(f, {}) = 0
BY SumRecursion, FS_EmptySet

\* Induction on the number of summands: a fact of sums holds of all finite sets
\* if it holds of a set whenever it does without its first element.
LEMMA SumType ==
  ASSUME NEW f, NEW S, IsFiniteSet(S), \A x \in S : f[x] \in Nat
  PROVE  SumFunctionOnSet(f, S) \in Nat
<1> DEFINE T == {n \in Nat : \A s \in SUBSET S : Cardinality(s) = n => SumFunctionOnSet(f, s) \in Nat}
<1>0. \A s \in SUBSET S : IsFiniteSet(s) /\ Cardinality(s) \in Nat
  BY FS_Subset, FS_CardinalityType
<1>1. 0 \in T
  BY <1>0, SumEmpty, FS_EmptySet
<1>2. ASSUME NEW n \in T PROVE n + 1 \in T
  <2> SUFFICES ASSUME NEW s \in SUBSET S, Cardinality(s) = n + 1 PROVE SumFunctionOnSet(f, s) \in Nat
    BY <1>2
  <2>1. n \in Nat /\ s # {} /\ IsFiniteSet(s)
    BY <1>0, <1>2, FS_EmptySet
  <2>2. Pick(s) \in s /\ Cardinality(s \ {Pick(s)}) = Cardinality(s) - 1
    BY <2>1, PickProperties
  <2>3. SumFunctionOnSet(f, s \ {Pick(s)}) \in Nat
    BY <1>2, <2>1, <2>2
  <2>4. SumFunctionOnSet(f, s) = f[Pick(s)] + SumFunctionOnSet(f, s \ {Pick(s)})
    BY <2>1, SumRecursion
  <2>5. f[Pick(s)] \in Nat
    BY <2>2
  <2> QED
    BY <2>3, <2>4, <2>5
<1> HIDE DEF T
<1>3. T = Nat
  <2>1. T \in SUBSET Nat
    BY DEF T
  <2> QED
    BY <1>1, <1>2, <2>1, SetInduction
<1> QED
  BY <1>0, <1>3 DEF T

\* The summands may be taken in any order.
LEMMA SumRemove ==
  ASSUME NEW f, NEW S, IsFiniteSet(S), \A x \in S : f[x] \in Nat, NEW x \in S
  PROVE  SumFunctionOnSet(f, S) = f[x] + SumFunctionOnSet(f, S \ {x})
<1> DEFINE Sum(s) == SumFunctionOnSet(f, s)
           T == {n \in Nat : \A s \in SUBSET S : Cardinality(s) = n =>
                               \A y \in s : Sum(s) = f[y] + Sum(s \ {y})}
<1>0. \A s \in SUBSET S : IsFiniteSet(s) /\ Cardinality(s) \in Nat /\ Sum(s) \in Nat
  BY FS_Subset, FS_CardinalityType, SumType
<1>1. \A s \in SUBSET S : s # {} => Sum(s) = f[Pick(s)] + Sum(s \ {Pick(s)})
  BY <1>0, SumRecursion
<1> HIDE DEF Sum
<1>2. 0 \in T
  BY <1>0, FS_EmptySet
<1>3. ASSUME NEW n \in T PROVE n + 1 \in T
  <2> SUFFICES ASSUME NEW s \in SUBSET S, Cardinality(s) = n + 1, NEW y \in s
               PROVE  Sum(s) = f[y] + Sum(s \ {y})
    BY <1>3
  <2> DEFINE z == Pick(s)
  <2>1. n \in Nat /\ s # {} /\ IsFiniteSet(s)
    BY <1>0, <1>3
  <2>2. z \in s /\ Cardinality(s \ {z}) = n
    BY <2>1, PickProperties
  <2>3. Sum(s) = f[z] + Sum(s \ {z})
    BY <1>1, <2>1
  <2> HIDE DEF z
  <2>4. CASE y = z
    BY <2>3, <2>4
  <2>5. CASE y # z
    <3>1. Cardinality(s \ {y}) = n
      <4>1. Cardinality(s \ {y}) = Cardinality(s) - 1
        BY <2>1, FS_RemoveElement
      <4> QED
        BY <2>1, <4>1
    <3>2. Sum(s \ {z}) = f[y] + Sum((s \ {z}) \ {y})
      BY <1>3, <2>2, <2>5
    <3>3. Sum(s \ {y}) = f[z] + Sum((s \ {y}) \ {z})
      BY <1>3, <2>2, <2>5, <3>1
    <3>4. (s \ {y}) \ {z} = (s \ {z}) \ {y}
      OBVIOUS
    <3>5. f[y] \in Nat /\ f[z] \in Nat /\ Sum((s \ {z}) \ {y}) \in Nat
      BY <1>0, <2>2
    <3> DEFINE rest == Sum((s \ {z}) \ {y})
    <3>6. Sum(s \ {y}) = f[z] + rest
      BY <3>3, <3>4, Zenon
    <3>7. Sum(s) = f[z] + (f[y] + rest)
      BY <2>3, <3>2, Zenon
    <3> HIDE DEF rest
    <3>8. f[z] + (f[y] + rest) = f[y] + (f[z] + rest)
      BY <3>5 DEF rest
    <3> QED
      BY <3>6, <3>7, <3>8, Zenon
  <2> QED
    BY <2>4, <2>5
<1> HIDE DEF T
<1>4. T = Nat
  <2>1. T \in SUBSET Nat
    BY DEF T
  <2> QED
    BY <1>2, <1>3, <2>1, SetInduction
<1>5. Cardinality(S) \in T
  BY <1>0, <1>4
<1> QED
  BY <1>5 DEF T, Sum

\* A sum of sums; with all of g zero it says that equal summands have equal sums.
LEMMA SumPlus ==
  ASSUME NEW f, NEW g, NEW h, NEW S, IsFiniteSet(S),
         \A x \in S : f[x] \in Nat /\ g[x] \in Nat /\ h[x] = f[x] + g[x]
  PROVE  SumFunctionOnSet(h, S) = SumFunctionOnSet(f, S) + SumFunctionOnSet(g, S)
<1> DEFINE T == {n \in Nat : \A s \in SUBSET S : Cardinality(s) = n =>
                   SumFunctionOnSet(h, s) = SumFunctionOnSet(f, s) + SumFunctionOnSet(g, s)}
<1>0. \A s \in SUBSET S : /\ IsFiniteSet(s) /\ Cardinality(s) \in Nat
                          /\ SumFunctionOnSet(f, s) \in Nat /\ SumFunctionOnSet(g, s) \in Nat
  BY FS_Subset, FS_CardinalityType, SumType
<1>1. 0 \in T
  <2>1. \A s \in SUBSET S : Cardinality(s) = 0 => s = {}
    BY <1>0, FS_EmptySet
  <2>2. SumFunctionOnSet(h, {}) = SumFunctionOnSet(f, {}) + SumFunctionOnSet(g, {})
    BY SumEmpty
  <2> QED
    BY <2>1, <2>2
<1>2. ASSUME NEW n \in T PROVE n + 1 \in T
  <2> SUFFICES ASSUME NEW s \in SUBSET S, Cardinality(s) = n + 1
               PROVE  SumFunctionOnSet(h, s) = SumFunctionOnSet(f, s) + SumFunctionOnSet(g, s)
    BY <1>2
  <2> DEFINE z == Pick(s)
             r == s \ {z}
  <2>1. n \in Nat /\ s # {} /\ IsFiniteSet(s)
    BY <1>0, <1>2, FS_EmptySet
  <2>2. z \in s /\ Cardinality(r) = n /\ r \in SUBSET S
    <3>1. z \in s /\ Cardinality(r) = Cardinality(s) - 1
      BY <2>1, PickProperties
    <3> QED
      BY <2>1, <3>1
  <2>3. /\ SumFunctionOnSet(h, s) = h[z] + SumFunctionOnSet(h, r)
        /\ SumFunctionOnSet(f, s) = f[z] + SumFunctionOnSet(f, r)
        /\ SumFunctionOnSet(g, s) = g[z] + SumFunctionOnSet(g, r)
    BY <2>1, SumRecursion
  <2> HIDE DEF z, r
  <2>4. SumFunctionOnSet(h, r) = SumFunctionOnSet(f, r) + SumFunctionOnSet(g, r)
    BY <1>2, <2>2
  <2>5. h[z] = f[z] + g[z] /\ f[z] \in Nat /\ g[z] \in Nat
    BY <2>2
  <2> QED
    BY <1>0, <2>2, <2>3, <2>4, <2>5
<1> HIDE DEF T
<1>3. T = Nat
  <2>1. T \in SUBSET Nat
    BY DEF T
  <2> QED
    BY <1>1, <1>2, <2>1, SetInduction
<1> QED
  BY <1>0, <1>3 DEF T

\* A sum of zeros.
LEMMA SumZero ==
  ASSUME NEW f, NEW S, IsFiniteSet(S), \A x \in S : f[x] = 0
  PROVE  SumFunctionOnSet(f, S) = 0
<1>1. SumFunctionOnSet(f, S) = SumFunctionOnSet(f, S) + SumFunctionOnSet(f, S)
  BY SumPlus
<1>2. SumFunctionOnSet(f, S) \in Nat
  BY SumType
<1>3. \A n \in Nat : n = n + n => n = 0
  OBVIOUS
<1> QED
  BY <1>1, <1>2, <1>3

\* Equal summands have equal sums.
LEMMA SumEqual ==
  ASSUME NEW f, NEW g, NEW S, IsFiniteSet(S), \A x \in S : f[x] \in Nat /\ g[x] = f[x]
  PROVE  SumFunctionOnSet(g, S) = SumFunctionOnSet(f, S)
<1> DEFINE zero == [x \in S |-> 0]
<1>1. SumFunctionOnSet(g, S) = SumFunctionOnSet(f, S) + SumFunctionOnSet(zero, S)
  BY SumPlus
<1>2. SumFunctionOnSet(zero, S) = 0
  BY SumZero
<1>3. SumFunctionOnSet(f, S) \in Nat
  BY SumType
<1> QED
  BY <1>1, <1>2, <1>3

\* One summand grows, or is new.
LEMMA SumInsert ==
  ASSUME NEW f, NEW g, NEW N, IsFiniteSet(N), NEW m, NEW count \in Nat,
         \A n \in N : f[n] \in Nat,
         \A n \in N \ {m} : g[n] = f[n],
         m \in N => g[m] = f[m] + count,
         m \notin N => g[m] = count
  PROVE  SumFunctionOnSet(g, N \cup {m}) = SumFunctionOnSet(f, N) + count
<1> DEFINE rest == N \ {m}
           both == N \cup {m}
<1>1. IsFiniteSet(rest) /\ IsFiniteSet(both) /\ both \ {m} = rest /\ m \in both
  BY FS_RemoveElement, FS_AddElement
<1>2. \A n \in rest : f[n] \in Nat /\ g[n] = f[n]
  OBVIOUS
<1>3. \A n \in both : g[n] \in Nat
  OBVIOUS
<1> HIDE DEF rest, both
<1>4. SumFunctionOnSet(g, both) = g[m] + SumFunctionOnSet(g, both \ {m})
  BY <1>1, <1>3, SumRemove
<1>5. SumFunctionOnSet(g, rest) = SumFunctionOnSet(f, rest)
  BY <1>1, <1>2, SumEqual
<1>6. SumFunctionOnSet(f, rest) \in Nat
  BY <1>1, <1>2, SumType
<1>7. CASE m \in N
  <2>1. SumFunctionOnSet(f, N) = f[m] + SumFunctionOnSet(f, rest)
    BY <1>7, SumRemove DEF rest
  <2>2. f[m] \in Nat /\ g[m] = f[m] + count
    BY <1>7
  <2> QED BY <1>1, <1>4, <1>5, <1>6, <2>1, <2>2 DEF both
<1>8. CASE m \notin N
  <2>1. rest = N /\ g[m] = count
    BY <1>8 DEF rest
  <2>2. SumFunctionOnSet(f, rest) = SumFunctionOnSet(f, N)
    BY <2>1
  <2>3. SumFunctionOnSet(g, both) = count + SumFunctionOnSet(f, N)
    BY <1>1, <1>4, <1>5, <2>1, <2>2
  <2>4. SumFunctionOnSet(f, N) \in Nat
    BY <1>6, <2>2
  <2> QED BY <2>3, <2>4 DEF both
<1> QED BY <1>7, <1>8

\* The summands may be renamed.
LEMMA SumImage ==
  ASSUME NEW f, NEW g, NEW h, NEW S, IsFiniteSet(S),
         \A x \in S : h[x] \in Nat /\ f[g[x]] = h[x],
         \A x, y \in S : g[x] = g[y] => x = y
  PROVE  SumFunctionOnSet(f, {g[x] : x \in S}) = SumFunctionOnSet(h, S)
<1> DEFINE Image(s) == {g[x] : x \in s}
           T == {n \in Nat : \A s \in SUBSET S : Cardinality(s) = n =>
                   SumFunctionOnSet(f, Image(s)) = SumFunctionOnSet(h, s)}
<1>0. \A s \in SUBSET S : IsFiniteSet(s) /\ Cardinality(s) \in Nat
  BY FS_Subset, FS_CardinalityType
<1>1. 0 \in T
  <2>1. \A s \in SUBSET S : Cardinality(s) = 0 => s = {}
    BY <1>0, FS_EmptySet
  <2>2. Image({}) = {}
    OBVIOUS
  <2>3. SumFunctionOnSet(f, Image({})) = SumFunctionOnSet(h, {})
    BY <2>2, SumEmpty
  <2> HIDE DEF Image
  <2> QED
    BY <2>1, <2>3
<1>2. ASSUME NEW n \in T PROVE n + 1 \in T
  <2> SUFFICES ASSUME NEW s \in SUBSET S, Cardinality(s) = n + 1
               PROVE  SumFunctionOnSet(f, Image(s)) = SumFunctionOnSet(h, s)
    BY <1>2
  <2> DEFINE z == Pick(s)
             r == s \ {z}
  <2>1. n \in Nat /\ s # {} /\ IsFiniteSet(s)
    BY <1>0, <1>2, FS_EmptySet
  <2>2. z \in s /\ Cardinality(r) = n /\ r \in SUBSET S
    <3>1. z \in s /\ Cardinality(r) = Cardinality(s) - 1
      BY <2>1, PickProperties
    <3> QED
      BY <2>1, <3>1
  <2>3. SumFunctionOnSet(h, s) = h[z] + SumFunctionOnSet(h, r)
    BY <2>1, SumRecursion
  <2> HIDE DEF z
  <2>4. Image(s) \ {g[z]} = Image(r) /\ g[z] \in Image(s)
    BY <2>2
  <2>5. \A y \in Image(s) : f[y] \in Nat
    OBVIOUS
  <2>6. IsFiniteSet(Image(s))
    BY <2>1, ImageFinite
  <2> HIDE DEF r, Image
  <2>7. SumFunctionOnSet(f, Image(s)) = f[g[z]] + SumFunctionOnSet(f, Image(r))
    BY <2>4, <2>5, <2>6, SumRemove
  <2>8. SumFunctionOnSet(f, Image(r)) = SumFunctionOnSet(h, r)
    BY <1>2, <2>2
  <2> QED
    BY <2>2, <2>3, <2>7, <2>8
<1> HIDE DEF T
<1>3. T = Nat
  <2>1. T \in SUBSET Nat
    BY DEF T
  <2> QED
    BY <1>1, <1>2, <2>1, SetInduction
<1> QED
  BY <1>0, <1>3 DEF T

\* A sum of ones.
LEMMA SumOnes ==
  ASSUME NEW f, NEW S, IsFiniteSet(S), \A x \in S : f[x] = 1
  PROVE  SumFunctionOnSet(f, S) = Cardinality(S)
<1> DEFINE T == {n \in Nat : \A s \in SUBSET S : Cardinality(s) = n => SumFunctionOnSet(f, s) = n}
<1>0. \A s \in SUBSET S : IsFiniteSet(s) /\ Cardinality(s) \in Nat
  BY FS_Subset, FS_CardinalityType
<1>1. 0 \in T
  <2>1. \A s \in SUBSET S : Cardinality(s) = 0 => s = {}
    BY <1>0, FS_EmptySet
  <2> QED
    BY <2>1, SumEmpty
<1>2. ASSUME NEW n \in T PROVE n + 1 \in T
  <2> SUFFICES ASSUME NEW s \in SUBSET S, Cardinality(s) = n + 1
               PROVE  SumFunctionOnSet(f, s) = n + 1
    BY <1>2
  <2> DEFINE z == Pick(s)
             r == s \ {z}
  <2>1. n \in Nat /\ s # {} /\ IsFiniteSet(s)
    BY <1>0, <1>2, FS_EmptySet
  <2>2. z \in s /\ Cardinality(r) = n /\ r \in SUBSET S
    <3>1. z \in s /\ Cardinality(r) = Cardinality(s) - 1
      BY <2>1, PickProperties
    <3> QED
      BY <2>1, <3>1
  <2>3. SumFunctionOnSet(f, s) = f[z] + SumFunctionOnSet(f, r)
    BY <2>1, SumRecursion
  <2> HIDE DEF z, r
  <2>4. SumFunctionOnSet(f, r) = n /\ f[z] = 1
    BY <1>2, <2>2
  <2> QED
    BY <2>1, <2>3, <2>4
<1> HIDE DEF T
<1>3. T = Nat
  <2>1. T \in SUBSET Nat
    BY DEF T
  <2> QED
    BY <1>1, <1>2, <2>1, SetInduction
<1> QED
  BY <1>0, <1>3 DEF T

-----------------------------------------------------------------------------
(* Finite sets put in order. *)

\* In a strict total order of a finite set, in which before[x] are the elements
\* before x, there is one element for each number of elements before it.
LEMMA Ranking ==
  ASSUME NEW S, IsFiniteSet(S), NEW before,
         \A x \in S : before[x] \subseteq S /\ x \notin before[x],
         \A x, y \in S : x # y => x \in before[y] \/ y \in before[x],
         \A x, y \in S : x \in before[y] => before[x] \subseteq before[y]
  PROVE  /\ \A x \in S : Cardinality(before[x]) \in 0 .. Cardinality(S) - 1
         /\ \A x, y \in S : x \in before[y] => Cardinality(before[x]) < Cardinality(before[y])
         /\ \A x, y \in S : Cardinality(before[x]) = Cardinality(before[y]) => x = y
         /\ \A k \in 0 .. Cardinality(S) - 1 : \E x \in S : Cardinality(before[x]) = k
<1> DEFINE n == Cardinality(S)
           rank == [x \in S |-> Cardinality(before[x])]
<1>0. n \in Nat
  BY FS_CardinalityType
<1>1. ASSUME NEW A \in SUBSET S, NEW x \in S, x \notin A
      PROVE  Cardinality(A) \in 0 .. n - 1
  <2>1. IsFiniteSet(A) /\ Cardinality(A) \in Nat /\ Cardinality(A) <= n /\ A # S
    BY <1>1, FS_Subset, FS_CardinalityType
  <2>2. Cardinality(A) # n
    BY <2>1, FS_Subset
  <2> QED BY <1>0, <2>1, <2>2
<1>2. \A x \in S : Cardinality(before[x]) \in 0 .. n - 1
  BY <1>1
<1>3. ASSUME NEW x \in S, NEW y \in S, x \in before[y]
      PROVE  Cardinality(before[x]) < Cardinality(before[y])
  <2>1. IsFiniteSet(before[x]) /\ IsFiniteSet(before[y])
    BY FS_Subset
  <2>2. IsFiniteSet(before[x] \cup {x}) /\ Cardinality(before[x] \cup {x}) = Cardinality(before[x]) + 1
    BY <2>1, FS_AddElement
  <2>3. before[x] \cup {x} \in SUBSET before[y]
    BY <1>3
  <2>4. Cardinality(before[x] \cup {x}) <= Cardinality(before[y])
    BY <2>1, <2>3, FS_Subset
  <2> QED BY <1>2, <2>2, <2>4
<1>4. ASSUME NEW x \in S, NEW y \in S, Cardinality(before[x]) = Cardinality(before[y])
      PROVE  x = y
  <2>1. ~(Cardinality(before[x]) < Cardinality(before[y])) /\ ~(Cardinality(before[y]) < Cardinality(before[x]))
    BY <1>2, <1>4
  <2> QED BY <1>3, <2>1
<1>5. rank \in [S -> 0 .. n - 1]
  BY <1>2
<1>6. rank \in Injection(S, 0 .. n - 1)
  BY <1>4, <1>5 DEF Injection, IsInjective
<1>7. IsFiniteSet(0 .. n - 1) /\ Cardinality(0 .. n - 1) = n
  <2>1. IsFiniteSet(0 .. n - 1) /\ Cardinality(0 .. n - 1) = IF 0 > n - 1 THEN 0 ELSE (n - 1) - 0 + 1
    BY <1>0, FS_Interval
  <2> QED BY <1>0, <2>1
<1>8. rank \in Surjection(S, 0 .. n - 1)
  <2> HIDE DEF rank
  <2> QED BY <1>6, <1>7, FS_Injection
<1>9. \A k \in 0 .. n - 1 : \E x \in S : rank[x] = k
  <2> HIDE DEF rank
  <2> QED BY <1>8 DEF Surjection
<1> QED BY <1>2, <1>3, <1>4, <1>9

\* SetToSeq lists a finite set.
LEMMA SetToSeqProperties ==
  ASSUME NEW S, IsFiniteSet(S)
  PROVE  SetToSeq(S) \in Seq(S) /\ IsInjective(SetToSeq(S)) /\ ToSet(SetToSeq(S)) = S
<1> DEFINE n == Cardinality(S)
<1>1. n \in Nat /\ ExistsBijection(1 .. n, S)
  BY FS_CardinalityType
<1>2. PICK f : f \in Bijection(1 .. n, S)
  BY <1>1 DEF ExistsBijection
<1>3. f \in [1 .. n -> S] /\ IsInjective(f)
  BY <1>2 DEF Bijection, Injection
<1> DEFINE s == SetToSeq(S)
<1>4. s \in [1 .. n -> S] /\ IsInjective(s)
  BY <1>3 DEF SetToSeq
<1> HIDE DEF s
<1>5. s \in Injection(1 .. n, S)
  BY <1>4 DEF Injection
<1>6. IsFiniteSet(1 .. n) /\ Cardinality(1 .. n) = n
  <2>1. IsFiniteSet(1 .. n) /\ Cardinality(1 .. n) = IF 1 > n THEN 0 ELSE n - 1 + 1
    BY <1>1, FS_Interval
  <2> QED BY <1>1, <2>1
<1>7. s \in Surjection(1 .. n, S)
  BY <1>5, <1>6, FS_Injection
<1>8. \A x \in S : \E i \in 1 .. n : s[i] = x
  BY <1>7 DEF Surjection
<1>9. s \in Seq(S)
  BY <1>1, <1>4, SeqDef
<1>10. ToSet(s) = S
  BY <1>4, <1>8 DEF ToSet
<1> QED BY <1>4, <1>9, <1>10 DEF s

-----------------------------------------------------------------------------
(* Products over finite sets, of integers. *)

\* What Product folds with, on the subsets of S.
IsProductOf(iter, f, S) ==
  iter = [s \in SUBSET S |-> IF s = {} THEN 1 ELSE f[Pick(s)] * iter[s \ {Pick(s)}]]

\* There is a function that satisfies the recursion.
LEMMA ProductExists ==
  ASSUME NEW f, NEW S, IsFiniteSet(S)
  PROVE  \E iter : IsProductOf(iter, f, S)
<1> DEFINE Upto(n) == {s \in SUBSET S : Cardinality(s) <= n}
           Body(g, s) == IF s = {} THEN 1 ELSE f[Pick(s)] * g[s \ {Pick(s)}]
           T == {n \in Nat : \E g : g = [s \in Upto(n) |-> Body(g, s)]}
<1>0. \A s \in SUBSET S : IsFiniteSet(s) /\ Cardinality(s) \in Nat
  BY FS_Subset, FS_CardinalityType
<1>1. 0 \in T
  <2>1. Upto(0) = {{}}
    BY <1>0, FS_EmptySet
  <2> DEFINE g == [s \in Upto(0) |-> 1]
  <2>2. g = [s \in Upto(0) |-> Body(g, s)]
    BY <2>1
  <2> QED
    BY <2>2
<1>2. ASSUME NEW n \in T PROVE n + 1 \in T
  <2>1. PICK g : g = [s \in Upto(n) |-> Body(g, s)]
    BY <1>2
  <2> DEFINE h == [s \in Upto(n + 1) |-> Body(g, s)]
  <2>2. ASSUME NEW s \in Upto(n) PROVE s \in Upto(n + 1) /\ h[s] = g[s]
    <3>1. s \in Upto(n + 1)
      BY <1>0
    <3> QED
      BY <2>1, <3>1
  <2>3. ASSUME NEW s \in Upto(n + 1), s # {} PROVE s \ {Pick(s)} \in Upto(n)
    BY <1>0, <2>3, PickProperties
  <2>4. ASSUME NEW s \in Upto(n + 1) PROVE Body(g, s) = Body(h, s)
    BY <2>2, <2>3
  <2>5. h = [s \in Upto(n + 1) |-> Body(h, s)]
    <3> HIDE DEF Upto, Body
    <3> QED
      BY <2>4
  <2>6. \E x : x = [s \in Upto(n + 1) |-> Body(x, s)]
    <3> HIDE DEF Upto, Body, h
    <3> QED
      BY <2>5
  <2> HIDE DEF Upto, Body, h
  <2> QED
    BY <1>2, <2>6
<1> HIDE DEF T
<1>3. T = Nat
  <2>1. T \in SUBSET Nat
    BY DEF T
  <2> QED
    BY <1>1, <1>2, <2>1, SetInduction
<1>4. Cardinality(S) \in T /\ Upto(Cardinality(S)) = SUBSET S
  <2>1. \A s \in SUBSET S : Cardinality(s) <= Cardinality(S)
    BY FS_Subset
  <2> QED
    BY <1>3, <2>1, FS_CardinalityType
<1>5. PICK g : g = [s \in Upto(Cardinality(S)) |-> Body(g, s)]
  BY <1>4 DEF T
<1> QED
  BY <1>4, <1>5 DEF IsProductOf

\* Functions that agree on R have the same products on its subsets.
LEMMA ProductUnique ==
  ASSUME NEW S, IsFiniteSet(S), NEW R \in SUBSET S, NEW f, NEW e, \A x \in R : f[x] = e[x],
         NEW g, IsProductOf(g, f, S), NEW h, IsProductOf(h, e, R)
  PROVE  \A s \in SUBSET R : g[s] = h[s]
<1> DEFINE T == {n \in Nat : \A s \in SUBSET R : Cardinality(s) = n => g[s] = h[s]}
<1>0. \A s \in SUBSET R : IsFiniteSet(s) /\ Cardinality(s) \in Nat
  BY FS_Subset, FS_CardinalityType
<1>1. /\ \A s \in SUBSET S : g[s] = IF s = {} THEN 1 ELSE f[Pick(s)] * g[s \ {Pick(s)}]
      /\ \A s \in SUBSET R : h[s] = IF s = {} THEN 1 ELSE e[Pick(s)] * h[s \ {Pick(s)}]
  BY DEF IsProductOf
<1>2. 0 \in T
  BY <1>0, <1>1, FS_EmptySet
<1>3. ASSUME NEW n \in T PROVE n + 1 \in T
  <2> SUFFICES ASSUME NEW s \in SUBSET R, Cardinality(s) = n + 1 PROVE g[s] = h[s]
    BY <1>3
  <2>1. s # {} /\ IsFiniteSet(s)
    BY <1>0, <1>3, FS_EmptySet
  <2>2. Pick(s) \in s /\ s \ {Pick(s)} \in SUBSET R /\ Cardinality(s \ {Pick(s)}) = n
    <3>1. Pick(s) \in s /\ Cardinality(s \ {Pick(s)}) = Cardinality(s) - 1
      BY <2>1, PickProperties
    <3> QED
      BY <1>3, <3>1
  <2>3. g[s \ {Pick(s)}] = h[s \ {Pick(s)}] /\ f[Pick(s)] = e[Pick(s)]
    BY <1>3, <2>2
  <2> QED
    BY <1>1, <2>1, <2>3
<1> HIDE DEF T
<1>4. T = Nat
  <2>1. T \in SUBSET Nat
    BY DEF T
  <2> QED
    BY <1>2, <1>3, <2>1, SetInduction
<1> QED
  BY <1>0, <1>4 DEF T

\* The recursion of a product.
LEMMA ProductRecursion ==
  ASSUME NEW f, NEW S, IsFiniteSet(S)
  PROVE  Product(f, S) = IF S = {} THEN 1 ELSE f[Pick(S)] * Product(f, S \ {Pick(S)})
<1> DEFINE Iter(R) == CHOOSE iter : IsProductOf(iter, f, R)
<1>1. \A R : Product(f, R) = Iter(R)[R]
  BY DEF Product, FoldFunctionOnSet, MapThenFoldSet, IsProductOf, Pick
<1>2. IsProductOf(Iter(S), f, S)
  BY ProductExists
<1>3. CASE S = {}
  <2>1. Iter(S)[S] = 1
    BY <1>2, <1>3 DEF IsProductOf
  <2> QED
    BY <1>1, <1>3, <2>1
<1>4. CASE S # {}
  <2> DEFINE R == S \ {Pick(S)}
  <2>1. IsFiniteSet(R) /\ R \in SUBSET S
    BY <1>4, PickProperties
  <2>2. IsProductOf(Iter(R), f, R)
    BY <2>1, ProductExists
  <2>3. Iter(S)[R] = Iter(R)[R]
    <3> HIDE DEF R, Iter
    <3> QED
      BY <1>2, <2>1, <2>2, ProductUnique
  <2>4. Iter(S)[S] = f[Pick(S)] * Iter(S)[R]
    <3> HIDE DEF Iter
    <3> QED
      BY <1>2, <1>4 DEF IsProductOf
  <2> QED
    BY <1>1, <1>4, <2>3, <2>4
<1> QED
  BY <1>3, <1>4

\* The factors count, not the function they are values of.
LEMMA ProductEqual ==
  ASSUME NEW f, NEW e, NEW S, IsFiniteSet(S), \A x \in S : f[x] = e[x]
  PROVE  Product(f, S) = Product(e, S)
<1> DEFINE Iter(g) == CHOOSE iter : IsProductOf(iter, g, S)
<1>1. \A g : Product(g, S) = Iter(g)[S]
  BY DEF Product, FoldFunctionOnSet, MapThenFoldSet, IsProductOf, Pick
<1>2. \A g : IsProductOf(Iter(g), g, S)
  BY ProductExists
<1> HIDE DEF Iter
<1>3. \A s \in SUBSET S : Iter(f)[s] = Iter(e)[s]
  <2>1. IsProductOf(Iter(f), f, S) /\ IsProductOf(Iter(e), e, S) /\ S \in SUBSET S
    BY <1>2
  <2> QED BY <2>1, ProductUnique
<1> QED BY <1>1, <1>3

\* A product of integers is one, and it is not zero unless a factor is.
LEMMA ProductType ==
  ASSUME NEW f, NEW S, IsFiniteSet(S), \A x \in S : f[x] \in Int
  PROVE  Product(f, S) \in Int /\ ((\A x \in S : f[x] # 0) => Product(f, S) # 0)
<1> DEFINE Good(s) == Product(f, s) \in Int /\ ((\A x \in s : f[x] # 0) => Product(f, s) # 0)
           T == {n \in Nat : \A s \in SUBSET S : Cardinality(s) = n => Good(s)}
<1>0. \A s \in SUBSET S : IsFiniteSet(s) /\ Cardinality(s) \in Nat
  BY FS_Subset, FS_CardinalityType
<1>1. 0 \in T
  <2>1. Product(f, {}) = 1
    BY ProductRecursion, FS_EmptySet
  <2> QED BY <1>0, <2>1, FS_EmptySet
<1>2. ASSUME NEW n \in T PROVE n + 1 \in T
  <2> SUFFICES ASSUME NEW s \in SUBSET S, Cardinality(s) = n + 1 PROVE Good(s)
    BY <1>2
  <2>1. n \in Nat /\ s # {} /\ IsFiniteSet(s)
    BY <1>0, <1>2, FS_EmptySet
  <2>2. Pick(s) \in s /\ Cardinality(s \ {Pick(s)}) = n
    BY <2>1, PickProperties
  <2>3. Good(s \ {Pick(s)})
    BY <1>2, <2>1, <2>2
  <2>4. Product(f, s) = f[Pick(s)] * Product(f, s \ {Pick(s)})
    BY <2>1, ProductRecursion
  <2>5. \A a, b \in Int : a * b \in Int /\ (a # 0 /\ b # 0 => a * b # 0)
    OBVIOUS
  <2>6. f[Pick(s)] \in Int /\ ((\A x \in s : f[x] # 0) => f[Pick(s)] # 0)
    BY <2>2
  <2> QED
    BY <2>3, <2>4, <2>5, <2>6
<1> HIDE DEF T
<1>3. T = Nat
  <2>1. T \in SUBSET Nat
    BY DEF T
  <2> QED
    BY <1>1, <1>2, <2>1, SetInduction
<1> QED
  BY <1>0, <1>3 DEF T

\* With one factor c times as large a product is c times as large.
LEMMA ProductScaled ==
  ASSUME NEW f, NEW e, NEW S, IsFiniteSet(S), \A x \in S : f[x] \in Int,
         NEW z \in S, NEW c \in Int, e[z] = c * f[z], \A x \in S \ {z} : e[x] = f[x]
  PROVE  Product(e, S) = c * Product(f, S)
<1> DEFINE T == {n \in Nat : \A s \in SUBSET S :
                   Cardinality(s) = n /\ z \in s => Product(e, s) = c * Product(f, s)}
<1>0. \A s \in SUBSET S : IsFiniteSet(s) /\ Cardinality(s) \in Nat
  BY FS_Subset, FS_CardinalityType
<1>1. 0 \in T
  BY <1>0, FS_EmptySet
<1>2. ASSUME NEW n \in T PROVE n + 1 \in T
  <2> SUFFICES ASSUME NEW s \in SUBSET S, Cardinality(s) = n + 1, z \in s
               PROVE  Product(e, s) = c * Product(f, s)
    BY <1>2
  <2>1. n \in Nat /\ s # {} /\ IsFiniteSet(s)
    BY <1>0, <1>2
  <2>2. PICK p, r : p = Pick(s) /\ r = s \ {Pick(s)}
    OBVIOUS
  <2>3. p \in s /\ Cardinality(r) = n /\ r = s \ {p} /\ IsFiniteSet(r)
    <3>1. Pick(s) \in s /\ Cardinality(s \ {Pick(s)}) = Cardinality(s) - 1 /\ IsFiniteSet(s \ {Pick(s)})
      BY <2>1, PickProperties
    <3>2. p \in s /\ Cardinality(r) = Cardinality(s) - 1 /\ IsFiniteSet(r)
      BY <2>2, <3>1
    <3>3. Cardinality(r) = n
      BY <1>2, <2>1, <3>2
    <3> QED BY <2>2, <3>2, <3>3
  <2>4. Product(f, s) = f[p] * Product(f, r) /\ Product(e, s) = e[p] * Product(e, r)
    BY <2>1, <2>2, ProductRecursion
  <2>5. f[p] \in Int /\ Product(f, r) \in Int
    BY <2>3, ProductType
  <2>6. CASE p = z
    <3>1. Product(e, r) = Product(f, r)
      BY <2>3, <2>6, ProductEqual
    <3>2. e[p] = c * f[p]
      BY <2>6
    <3>3. \A a, b \in Int : (c * a) * b = c * (a * b)
      OBVIOUS
    <3> QED BY <2>4, <2>5, <3>1, <3>2, <3>3
  <2>7. CASE p # z
    <3>1. Product(e, r) = c * Product(f, r)
      BY <1>2, <2>1, <2>3, <2>7
    <3>2. e[p] = f[p]
      BY <2>3, <2>7
    <3>3. \A a, b \in Int : a * (c * b) = c * (a * b)
      OBVIOUS
    <3> QED BY <2>4, <2>5, <3>1, <3>2, <3>3
  <2> QED BY <2>6, <2>7
<1> HIDE DEF T
<1>3. T = Nat
  <2>1. T \in SUBSET Nat
    BY DEF T
  <2> QED
    BY <1>1, <1>2, <2>1, SetInduction
<1> QED
  BY <1>0, <1>3 DEF T

\* A product of positive numbers is positive.
LEMMA ProductPositive ==
  ASSUME NEW f, NEW S, IsFiniteSet(S), \A x \in S : f[x] \in Nat \ {0}
  PROVE  Product(f, S) \in Nat \ {0}
<1> DEFINE Good(s) == Product(f, s) \in Nat \ {0}
           T == {n \in Nat : \A s \in SUBSET S : Cardinality(s) = n => Good(s)}
<1>0. \A s \in SUBSET S : IsFiniteSet(s) /\ Cardinality(s) \in Nat
  BY FS_Subset, FS_CardinalityType
<1>1. 0 \in T
  <2>1. Product(f, {}) = 1
    BY ProductRecursion, FS_EmptySet
  <2> QED
    BY <1>0, <2>1, FS_EmptySet
<1>2. ASSUME NEW n \in T PROVE n + 1 \in T
  <2> SUFFICES ASSUME NEW s \in SUBSET S, Cardinality(s) = n + 1 PROVE Good(s)
    BY <1>2
  <2>1. n \in Nat /\ s # {} /\ IsFiniteSet(s)
    BY <1>0, <1>2, FS_EmptySet
  <2>2. Pick(s) \in s /\ Cardinality(s \ {Pick(s)}) = n
    <3>1. Pick(s) \in s /\ Cardinality(s \ {Pick(s)}) = Cardinality(s) - 1
      BY <2>1, PickProperties
    <3> QED
      BY <1>2, <3>1
  <2>3. Good(s \ {Pick(s)})
    BY <1>2, <2>1, <2>2
  <2>4. Product(f, s) = f[Pick(s)] * Product(f, s \ {Pick(s)})
    BY <2>1, ProductRecursion
  <2>5. \A a, b \in Nat \ {0} : a * b \in Nat \ {0}
    OBVIOUS
  <2>6. f[Pick(s)] \in Nat \ {0}
    BY <2>2
  <2> QED
    BY <2>3, <2>4, <2>5, <2>6
<1> HIDE DEF T
<1>3. T = Nat
  <2>1. T \in SUBSET Nat
    BY DEF T
  <2> QED
    BY <1>1, <1>2, <2>1, SetInduction
<1> QED
  BY <1>0, <1>3 DEF T

\* So is a power of a positive number.
LEMMA PowerPositive ==
  ASSUME NEW b \in Nat \ {0}, NEW n \in Nat
  PROVE  Power(b, n) \in Nat \ {0}
<1> DEFINE f == [m \in 1 .. n |-> b]
<1>1. IsFiniteSet(1 .. n) /\ \A m \in 1 .. n : f[m] \in Nat \ {0}
  BY FS_Interval
<1> HIDE DEF f
<1>2. Product(f, 1 .. n) \in Nat \ {0}
  BY <1>1, ProductPositive
<1> QED
  BY <1>2 DEF Power, f

-----------------------------------------------------------------------------
(* Selections. *)

\* Induction over sequences: T holds the empty sequence and grows at its end.
LEMMA SeqInduction ==
  ASSUME NEW A, NEW T \in SUBSET Seq(A), <<>> \in T,
         \A s \in T : \A x \in A : Append(s, x) \in T
  PROVE  T = Seq(A)
<1> DEFINE N == {n \in Nat : \A s \in Seq(A) : Len(s) = n => s \in T}
<1>1. 0 \in N
  BY EmptySeq
<1>2. ASSUME NEW n \in N PROVE n + 1 \in N
  <2>1. n \in Nat /\ \A s \in Seq(A) : Len(s) = n => s \in T
    BY <1>2
  <2>2. ASSUME NEW s \in Seq(A), Len(s) = n + 1 PROVE s \in T
    <3>1. s # <<>>
      BY <2>1, <2>2, EmptySeq
    <3>2. PICK front \in Seq(A), x \in A : s = Append(front, x)
      BY <3>1, SequenceEmptyOrAppend
    <3>3. Len(front) = n
      BY <2>1, <2>2, <3>2, LenProperties, AppendProperties
    <3>4. front \in T
      BY <2>1, <3>3
    <3> QED
      BY <3>2, <3>4
  <2> QED
    BY <2>1, <2>2
<1> HIDE DEF N
<1>3. N = Nat
  <2>1. N \in SUBSET Nat
    BY DEF N
  <2> QED
    BY <1>1, <1>2, <2>1, SetInduction
<1> QED
  BY <1>3, LenProperties DEF N

\* What Selected iterates over s.
Among(among, s, S) ==
  among = [n \in 0 .. Len(s) |->
             IF n = 0 THEN <<>>
             ELSE IF s[n] \in S THEN Append(among[n - 1], s[n]) ELSE among[n - 1]]

\* Every sequence has a table of the elements selected from its beginnings.
LEMMA AmongExists ==
  ASSUME NEW A, NEW S, NEW s \in Seq(A)
  PROVE  \E among : Among(among, s, S)
<1> DEFINE T == {t \in Seq(A) : \E among : Among(among, t, S)}
<1>1. <<>> \in T
  <2>1. <<>> \in Seq(A) /\ Len(<<>>) = 0
    BY EmptySeq
  <2>2. Among([n \in 0 .. 0 |-> <<>>], <<>>, S)
    BY <2>1 DEF Among
  <2> QED
    BY <2>1, <2>2
<1>2. ASSUME NEW t \in T, NEW x \in A PROVE Append(t, x) \in T
  <2> DEFINE m == Len(t)
             whole == Append(t, x)
  <2>1. PICK g : Among(g, t, S)
    BY <1>2
  <2>2. /\ t \in Seq(A) /\ m \in Nat
        /\ whole \in Seq(A) /\ Len(whole) = m + 1 /\ whole[m + 1] = x
        /\ \A i \in 1 .. m : whole[i] = t[i]
    BY AppendProperties, LenProperties
  <2> HIDE DEF m, whole
  <2> DEFINE last == IF x \in S THEN Append(g[m], x) ELSE g[m]
             h == [n \in 0 .. m + 1 |-> IF n = m + 1 THEN last ELSE g[n]]
  <2>3. \A n \in 0 .. m : h[n] = g[n]
    BY <2>2
  <2>4. h[m + 1] = last
    BY <2>2
  <2>5. ASSUME NEW n \in 0 .. m + 1
        PROVE  h[n] = IF n = 0 THEN <<>>
                      ELSE IF whole[n] \in S THEN Append(h[n - 1], whole[n]) ELSE h[n - 1]
    <3>1. CASE n = m + 1
      <4>1. n # 0 /\ n - 1 = m /\ m \in 0 .. m
        BY <2>2, <3>1
      <4> QED
        BY <2>2, <2>3, <2>4, <3>1, <4>1
    <3>2. CASE n # m + 1
      <4>1. n \in 0 .. m /\ (n # 0 => n - 1 \in 0 .. m /\ n \in 1 .. m)
        BY <2>2, <3>2
      <4>2. g[n] = IF n = 0 THEN <<>>
                   ELSE IF t[n] \in S THEN Append(g[n - 1], t[n]) ELSE g[n - 1]
        BY <2>1, <4>1 DEF Among, m
      <4> HIDE DEF h
      <4> QED
        BY <2>2, <2>3, <4>1, <4>2
    <3> QED
      BY <3>1, <3>2
  <2>6. h = [n \in 0 .. m + 1 |-> h[n]]
    OBVIOUS
  <2> HIDE DEF h
  <2>7. Among(h, whole, S)
    BY <2>2, <2>5, <2>6 DEF Among
  <2> QED
    BY <2>2, <2>7 DEF whole
<1> HIDE DEF T
<1>3. T = Seq(A)
  <2>1. T \in SUBSET Seq(A)
    BY DEF T
  <2> QED
    BY <1>1, <1>2, <2>1, SeqInduction
<1> QED
  BY <1>3 DEF T

\* What is selected among the first elements depends on nothing behind them.
LEMMA AmongUnique ==
  ASSUME NEW S, NEW s, NEW t, NEW g, NEW h, Among(g, s, S), Among(h, t, S),
         Len(s) \in Nat, Len(t) \in Nat, Len(s) <= Len(t),
         \A i \in 1 .. Len(s) : s[i] = t[i]
  PROVE  \A n \in 0 .. Len(s) : g[n] = h[n]
<1> DEFINE N == {n \in Nat : n <= Len(s) => g[n] = h[n]}
<1>1. 0 \in N
  BY DEF Among
<1>2. ASSUME NEW n \in N PROVE n + 1 \in N
  <2>1. CASE n + 1 <= Len(s)
    <3>0. /\ n + 1 \in 0 .. Len(s) /\ n + 1 \in 0 .. Len(t) /\ n + 1 # 0 /\ (n + 1) - 1 = n
          /\ n + 1 \in 1 .. Len(s) /\ n <= Len(s)
      BY <2>1
    <3>1. g[n + 1] = IF s[n + 1] \in S THEN Append(g[n], s[n + 1]) ELSE g[n]
      BY <3>0 DEF Among
    <3>2. h[n + 1] = IF t[n + 1] \in S THEN Append(h[n], t[n + 1]) ELSE h[n]
      BY <3>0 DEF Among
    <3>3. s[n + 1] = t[n + 1] /\ g[n] = h[n]
      BY <1>2, <3>0
    <3> QED
      BY <3>1, <3>2, <3>3
  <2>2. CASE ~ (n + 1 <= Len(s))
    BY <2>2
  <2> QED
    BY <2>1, <2>2
<1> HIDE DEF N
<1>3. N = Nat
  <2>1. N \in SUBSET Nat
    BY DEF N
  <2> QED
    BY <1>1, <1>2, <2>1, SetInduction
<1> QED
  BY <1>3 DEF N

\* Selected is the last value of its iteration.
LEMMA SelectedAmong ==
  ASSUME NEW A, NEW S, NEW s \in Seq(A)
  PROVE  \E among : Among(among, s, S) /\ Selected(s, S) = among[Len(s)]
<1> DEFINE among == CHOOSE g : Among(g, s, S)
<1>1. Among(among, s, S)
  BY AmongExists
<1>2. Selected(s, S) = among[Len(s)]
  BY DEF Selected, Among
<1> QED
  BY <1>1, <1>2

\* The recursion of a selection.
LEMMA SelectedEmpty ==
  ASSUME NEW S
  PROVE  Selected(<<>>, S) = <<>>
<1>1. <<>> \in Seq({}) /\ Len(<<>>) = 0
  BY EmptySeq
<1>2. PICK among : Among(among, <<>>, S) /\ Selected(<<>>, S) = among[Len(<<>>)]
  BY <1>1, SelectedAmong
<1> QED
  BY <1>1, <1>2 DEF Among

\* An element at the end is selected or it is not.
LEMMA SelectedAppend ==
  ASSUME NEW A, NEW S, NEW s \in Seq(A), NEW x \in A
  PROVE  Selected(Append(s, x), S) =
           IF x \in S THEN Append(Selected(s, S), x) ELSE Selected(s, S)
<1> DEFINE m == Len(s)
           whole == Append(s, x)
<1>1. /\ m \in Nat
      /\ whole \in Seq(A) /\ Len(whole) = m + 1 /\ whole[m + 1] = x
      /\ \A i \in 1 .. m : whole[i] = s[i]
  BY AppendProperties, LenProperties
<1>2. PICK g : Among(g, s, S) /\ Selected(s, S) = g[m]
  BY SelectedAmong
<1>3. PICK h : Among(h, whole, S) /\ Selected(whole, S) = h[Len(whole)]
  BY <1>1, SelectedAmong
<1>4. g[m] = h[m]
  <2> HIDE DEF whole
  <2>1. Len(s) \in Nat /\ Len(whole) \in Nat /\ Len(s) <= Len(whole) /\ m \in 0 .. Len(s)
    BY <1>1
  <2>2. \A i \in 1 .. Len(s) : s[i] = whole[i]
    BY <1>1
  <2>3. \A n \in 0 .. Len(s) : g[n] = h[n]
    BY <1>2, <1>3, <2>1, <2>2, AmongUnique
  <2> QED
    BY <2>1, <2>3
<1> HIDE DEF whole
<1>5. h[m + 1] = IF whole[m + 1] \in S THEN Append(h[m], whole[m + 1]) ELSE h[m]
  <2>1. m + 1 \in 0 .. Len(whole) /\ m + 1 # 0 /\ (m + 1) - 1 = m
    BY <1>1
  <2> QED
    BY <1>3, <2>1 DEF Among
<1> QED
  BY <1>1, <1>2, <1>3, <1>4, <1>5 DEF whole

\* A selection has elements of the set only.
LEMMA SelectedType ==
  ASSUME NEW A, NEW S, NEW s \in Seq(A)
  PROVE  Selected(s, S) \in Seq(A \cap S)
<1> DEFINE T == {t \in Seq(A) : Selected(t, S) \in Seq(A \cap S)}
<1>1. <<>> \in T
  BY EmptySeq, SelectedEmpty
<1>2. ASSUME NEW t \in T, NEW x \in A PROVE Append(t, x) \in T
  <2>1. t \in Seq(A) /\ Selected(t, S) \in Seq(A \cap S)
    OBVIOUS
  <2>2. Selected(Append(t, x), S) = IF x \in S THEN Append(Selected(t, S), x) ELSE Selected(t, S)
    BY <2>1, SelectedAppend
  <2>3. x \in S => Append(Selected(t, S), x) \in Seq(A \cap S)
    BY <2>1, AppendProperties
  <2>4. Append(t, x) \in Seq(A)
    BY <2>1, AppendProperties
  <2> QED
    BY <2>1, <2>2, <2>3, <2>4
<1> HIDE DEF T
<1>3. T = Seq(A)
  <2>1. T \in SUBSET Seq(A)
    BY DEF T
  <2> QED
    BY <1>1, <1>2, <2>1, SeqInduction
<1> QED
  BY <1>3 DEF T

\* Concatenation and appending.
LEMMA ConcatAppend ==
  ASSUME NEW A, NEW s \in Seq(A), NEW t \in Seq(A), NEW x \in A
  PROVE  s \o Append(t, x) = Append(s \o t, x)
<1>1. Append(t, x) = t \o <<x>> /\ Append(s \o t, x) = (s \o t) \o <<x>>
  BY ConcatProperties, AppendIsConcat
<1>2. <<x>> \in Seq(A)
  OBVIOUS
<1>3. (s \o t) \o <<x>> = s \o (t \o <<x>>)
  BY <1>2, ConcatAssociative
<1> QED
  BY <1>1, <1>3, Zenon

\* The selection of a concatenation.
LEMMA SelectedConcat ==
  ASSUME NEW A, NEW S, NEW s \in Seq(A), NEW t \in Seq(A)
  PROVE  Selected(s \o t, S) = Selected(s, S) \o Selected(t, S)
<1> DEFINE T == {u \in Seq(A) : Selected(s \o u, S) = Selected(s, S) \o Selected(u, S)}
<1>1. <<>> \in T
  <2>1. s \o <<>> = s /\ Selected(s, S) \o <<>> = Selected(s, S)
    BY SelectedType, ConcatEmptySeq
  <2> QED
    BY <2>1, EmptySeq, SelectedEmpty
<1>2. ASSUME NEW u \in T, NEW x \in A PROVE Append(u, x) \in T
  <2> DEFINE f == Selected(s, S)
             g == Selected(u, S)
  <2>1. u \in Seq(A) /\ Selected(s \o u, S) = f \o g
    OBVIOUS
  <2>2. s \o Append(u, x) = Append(s \o u, x) /\ s \o u \in Seq(A) /\ Append(u, x) \in Seq(A)
    BY <2>1, ConcatAppend, ConcatProperties, AppendProperties
  <2>3. f \in Seq(A \cap S) /\ g \in Seq(A \cap S)
    BY <2>1, SelectedType
  <2> HIDE DEF f, g
  <2>4. Selected(Append(s \o u, x), S) = IF x \in S THEN Append(f \o g, x) ELSE f \o g
    <3> DEFINE v == s \o u
    <3>1. v \in Seq(A)
      BY <2>2
    <3> HIDE DEF v
    <3>2. Selected(Append(v, x), S) = IF x \in S THEN Append(Selected(v, S), x) ELSE Selected(v, S)
      BY <3>1, SelectedAppend
    <3>3. Selected(v, S) = f \o g
      BY <2>1 DEF v
    <3> QED
      BY <3>2, <3>3 DEF v
  <2>5. Selected(Append(u, x), S) = IF x \in S THEN Append(g, x) ELSE g
    BY <2>1, SelectedAppend DEF g
  <2>6. x \in S => f \o Append(g, x) = Append(f \o g, x)
    BY <2>3, ConcatAppend
  <2>7. Selected(s \o Append(u, x), S) = f \o Selected(Append(u, x), S)
    BY <2>2, <2>4, <2>5, <2>6
  <2> QED
    BY <2>2, <2>7 DEF f
<1> HIDE DEF T
<1>3. T = Seq(A)
  <2>1. T \in SUBSET Seq(A)
    BY DEF T
  <2> QED
    BY <1>1, <1>2, <2>1, SeqInduction
<1> QED
  BY <1>3 DEF T

\* A sequence with elements of the set only is selected as a whole.
LEMMA SelectedAll ==
  ASSUME NEW A, NEW S, A \subseteq S, NEW s \in Seq(A)
  PROVE  Selected(s, S) = s
<1> DEFINE T == {t \in Seq(A) : Selected(t, S) = t}
<1>1. <<>> \in T
  BY EmptySeq, SelectedEmpty
<1>2. ASSUME NEW t \in T, NEW x \in A PROVE Append(t, x) \in T
  <2>1. t \in Seq(A) /\ Selected(t, S) = t /\ x \in S /\ Append(t, x) \in Seq(A)
    BY AppendProperties
  <2> QED
    BY <2>1, SelectedAppend
<1> HIDE DEF T
<1>3. T = Seq(A)
  <2>1. T \in SUBSET Seq(A)
    BY DEF T
  <2> QED
    BY <1>1, <1>2, <2>1, SeqInduction
<1> QED
  BY <1>3 DEF T

\* A sequence is its head and its tail.
LEMMA HeadAndTail ==
  ASSUME NEW A, NEW s \in Seq(A), s # <<>>
  PROVE  /\ Head(s) \in A /\ Tail(s) \in Seq(A) /\ <<Head(s)>> \in Seq(A)
         /\ s = <<Head(s)>> \o Tail(s)
         /\ Len(s) \in Nat \ {0} /\ Len(Tail(s)) = Len(s) - 1 /\ Head(s) = s[1]
         /\ \A i \in 1 .. Len(s) - 1 : Tail(s)[i] = s[i + 1]
<1>1. Head(s) \in A /\ Tail(s) \in Seq(A) /\ Len(Tail(s)) = Len(s) - 1
  BY HeadTailProperties
<1>2. Len(s) \in Nat \ {0}
  BY EmptySeq
<1>3. SubSeq(s, 1, Len(s)) = <<s[1]>> \o SubSeq(s, 2, Len(s))
  BY <1>2, SubSeqRecursiveFirst
<1>4. Tail(s) = SubSeq(s, 2, Len(s)) /\ SubSeq(s, 1, Len(s)) = s
  BY TailIsSubSeq, SubSeqFull
<1>5. Head(s) = s[1]
  BY <1>2
<1>6. s = <<Head(s)>> \o Tail(s)
  BY <1>3, <1>4, <1>5, Zenon
<1>7. <<Head(s)>> \in Seq(A)
  BY <1>1
<1>8. \A i \in 1 .. Len(Tail(s)) : Tail(s)[i] = s[i + 1]
  BY HeadTailProperties
<1> QED
  BY <1>1, <1>2, <1>5, <1>6, <1>7, <1>8

\* The selection of one element, and of a sequence by its head.
LEMMA SelectedOne ==
  ASSUME NEW S, NEW x
  PROVE  Selected(<<x>>, S) = IF x \in S THEN <<x>> ELSE <<>>
<1>1. Append(<<>>, x) = <<x>>
  OBVIOUS
<1>2. <<>> \in Seq({x})
  BY EmptySeq
<1>3. Selected(Append(<<>>, x), S) = IF x \in S THEN Append(Selected(<<>>, S), x) ELSE Selected(<<>>, S)
  BY <1>2, SelectedAppend
<1> QED
  BY <1>1, <1>3, SelectedEmpty

\* So is the first element.
LEMMA SelectedHead ==
  ASSUME NEW A, NEW S, NEW s \in Seq(A), s # <<>>
  PROVE  Selected(s, S) = IF Head(s) \in S THEN <<Head(s)>> \o Selected(Tail(s), S)
                          ELSE Selected(Tail(s), S)
<1>1. s = <<Head(s)>> \o Tail(s) /\ <<Head(s)>> \in Seq(A) /\ Tail(s) \in Seq(A)
  BY HeadAndTail
<1>2. Selected(<<Head(s)>> \o Tail(s), S) = Selected(<<Head(s)>>, S) \o Selected(Tail(s), S)
  BY <1>1, SelectedConcat
<1>3. <<>> \o Selected(Tail(s), S) = Selected(Tail(s), S)
  BY <1>1, SelectedType, ConcatEmptySeq
<1>4. Selected(<<Head(s)>>, S) = IF Head(s) \in S THEN <<Head(s)>> ELSE <<>>
  BY SelectedOne
<1>5. Selected(s, S) = Selected(<<Head(s)>>, S) \o Selected(Tail(s), S)
  BY <1>1, <1>2
<1> QED
  BY <1>3, <1>4, <1>5, Zenon

\* A selection is a sequence of the elements of the sequence.
LEMMA SelectedInSeq ==
  ASSUME NEW A, NEW S, NEW s \in Seq(A)
  PROVE  Selected(s, S) \in Seq(A)
<1>1. Selected(s, S) \in Seq(A \cap S) /\ A \cap S \subseteq A
  BY SelectedType
<1> QED BY <1>1, SeqMonotonic

\* The elements of a selection are those of the sequence that are in the set.
LEMMA SelectedMembers ==
  ASSUME NEW A, NEW S, NEW s \in Seq(A)
  PROVE  ToSet(Selected(s, S)) = ToSet(s) \cap S
<1> DEFINE T == {t \in Seq(A) : ToSet(Selected(t, S)) = ToSet(t) \cap S}
<1>0. \A t \in Seq(A), x \in A : ToSet(Append(t, x)) = ToSet(t) \cup {x}
  <2> SUFFICES ASSUME NEW t \in Seq(A), NEW x \in A PROVE ToSet(Append(t, x)) = ToSet(t) \cup {x}
    OBVIOUS
  <2>1. PICK n \in Nat : n = Len(t)
    BY LenProperties
  <2>2. /\ DOMAIN t = 1 .. n /\ DOMAIN Append(t, x) = 1 .. n + 1
        /\ \A k \in 1 .. n : Append(t, x)[k] = t[k]
        /\ Append(t, x)[n + 1] = x
    BY <2>1, AppendProperties, LenProperties
  <2> QED BY <2>1, <2>2 DEF ToSet
<1>1. <<>> \in T
  BY EmptySeq, SelectedEmpty DEF ToSet
<1>2. ASSUME NEW t \in T, NEW x \in A PROVE Append(t, x) \in T
  <2>1. /\ t \in Seq(A) /\ Append(t, x) \in Seq(A)
        /\ ToSet(Selected(t, S)) = ToSet(t) \cap S
        /\ ToSet(Append(t, x)) = ToSet(t) \cup {x}
    BY <1>0, AppendProperties
  <2>2. Selected(Append(t, x), S) = IF x \in S THEN Append(Selected(t, S), x) ELSE Selected(t, S)
    BY <2>1, SelectedAppend
  <2>3. CASE x \in S
    <3>1. Selected(t, S) \in Seq(A)
      BY <2>1, SelectedInSeq
    <3>2. ToSet(Append(Selected(t, S), x)) = ToSet(Selected(t, S)) \cup {x}
      BY <1>0, <3>1
    <3> QED BY <2>1, <2>2, <2>3, <3>2
  <2>4. CASE x \notin S
    BY <2>1, <2>2, <2>4
  <2> QED BY <2>3, <2>4
<1>3. T = Seq(A)
  <2> HIDE DEF T
  <2> QED BY <1>1, <1>2, SeqInduction DEF T
<1> QED BY <1>3

\* Two selections, one after the other, are the selection by both sets.
LEMMA SelectedTwice ==
  ASSUME NEW A, NEW S, NEW R, NEW s \in Seq(A)
  PROVE  Selected(Selected(s, S), R) = Selected(s, S \cap R)
<1> DEFINE T == {t \in Seq(A) : Selected(Selected(t, S), R) = Selected(t, S \cap R)}
<1>1. <<>> \in T
  BY EmptySeq, SelectedEmpty
<1>2. ASSUME NEW t \in T, NEW x \in A PROVE Append(t, x) \in T
  <2>1. /\ t \in Seq(A) /\ Append(t, x) \in Seq(A)
        /\ Selected(Selected(t, S), R) = Selected(t, S \cap R)
        /\ Selected(t, S) \in Seq(A)
    BY AppendProperties, SelectedInSeq
  <2>2. Selected(Append(t, x), S) = IF x \in S THEN Append(Selected(t, S), x) ELSE Selected(t, S)
    BY <2>1, SelectedAppend
  <2>3. Selected(Append(t, x), S \cap R) =
          IF x \in S \cap R THEN Append(Selected(t, S \cap R), x) ELSE Selected(t, S \cap R)
    BY <2>1, SelectedAppend
  <2>4. PICK u \in Seq(A) : u = Selected(t, S)
    BY <2>1
  <2>5. Selected(Append(u, x), R) = IF x \in R THEN Append(Selected(u, R), x) ELSE Selected(u, R)
    BY SelectedAppend
  <2>6. Selected(u, R) = Selected(t, S \cap R)
    BY <2>1, <2>4
  <2>7. Selected(Append(t, x), S) = IF x \in S THEN Append(u, x) ELSE u
    BY <2>2, <2>4
  <2>8. Selected(Selected(Append(t, x), S), R) = Selected(Append(t, x), S \cap R)
    <3>1. CASE x \in S /\ x \in R
      BY <2>3, <2>5, <2>6, <2>7, <3>1
    <3>2. CASE x \in S /\ x \notin R
      BY <2>3, <2>5, <2>6, <2>7, <3>2
    <3>3. CASE x \notin S
      BY <2>3, <2>6, <2>7, <3>3
    <3> QED BY <3>1, <3>2, <3>3
  <2> QED BY <2>1, <2>8
<1>3. T = Seq(A)
  <2> HIDE DEF T
  <2> QED BY <1>1, <1>2, SeqInduction DEF T
<1> QED BY <1>3

\* Only which of its elements are in the set matters for a selection.
LEMMA SelectedSame ==
  ASSUME NEW A, NEW S, NEW R, NEW s \in Seq(A), S \cap A = R \cap A
  PROVE  Selected(s, S) = Selected(s, R)
<1> DEFINE T == {t \in Seq(A) : Selected(t, S) = Selected(t, R)}
<1>1. <<>> \in T
  BY EmptySeq, SelectedEmpty
<1>2. ASSUME NEW t \in T, NEW x \in A PROVE Append(t, x) \in T
  <2>1. t \in Seq(A) /\ Append(t, x) \in Seq(A) /\ Selected(t, S) = Selected(t, R)
    BY AppendProperties
  <2>2. Selected(Append(t, x), S) = IF x \in S THEN Append(Selected(t, S), x) ELSE Selected(t, S)
    BY <2>1, SelectedAppend
  <2>3. Selected(Append(t, x), R) = IF x \in R THEN Append(Selected(t, R), x) ELSE Selected(t, R)
    BY <2>1, SelectedAppend
  <2>4. x \in S <=> x \in R
    OBVIOUS
  <2> QED BY <2>1, <2>2, <2>3, <2>4
<1>3. T = Seq(A)
  <2> HIDE DEF T
  <2> QED BY <1>1, <1>2, SeqInduction DEF T
<1> QED BY <1>3

\* An element by element image of a sequence.
Mapped(g, s) == [n \in DOMAIN s |-> g[s[n]]]

\* A function is mapped over one element more.
LEMMA MappedAppend ==
  ASSUME NEW A, NEW g, NEW s \in Seq(A), NEW x \in A
  PROVE  Mapped(g, Append(s, x)) = Append(Mapped(g, s), g[x]) /\ Mapped(g, s) \in Seq({g[y] : y \in A})
<1> DEFINE B == {g[y] : y \in A}
<1>1. PICK m \in Nat : m = Len(s)
  BY LenProperties
<1>2. /\ DOMAIN s = 1 .. m /\ \A n \in 1 .. m : s[n] \in A
      /\ Append(s, x) \in Seq(A) /\ Len(Append(s, x)) = m + 1 /\ DOMAIN Append(s, x) = 1 .. m + 1
      /\ \A n \in 1 .. m : Append(s, x)[n] = s[n]
      /\ Append(s, x)[m + 1] = x
  BY <1>1, AppendProperties, LenProperties, ElementOfSeq
<1>3. Mapped(g, s) = [n \in 1 .. m |-> g[s[n]]] /\ Mapped(g, Append(s, x)) = [n \in 1 .. m + 1 |-> g[Append(s, x)[n]]]
  BY <1>2 DEF Mapped
<1>4. Mapped(g, s) \in [1 .. m -> B] /\ Mapped(g, Append(s, x)) \in [1 .. m + 1 -> B]
  <2>1. \A n \in 1 .. m + 1 : Append(s, x)[n] \in A
    BY <1>2
  <2> QED BY <1>2, <1>3, <2>1
<1>5. Mapped(g, s) \in Seq(B) /\ Mapped(g, Append(s, x)) \in Seq(B)
  BY <1>4, SeqDef
<1>6. Len(Mapped(g, s)) = m /\ Len(Mapped(g, Append(s, x))) = m + 1
  <2>1. DOMAIN Mapped(g, s) = 1 .. m /\ DOMAIN Mapped(g, Append(s, x)) = 1 .. m + 1
    BY <1>4
  <2> QED BY <1>5, <2>1, LenProperties
<1>7. g[x] \in B
  OBVIOUS
<1> HIDE DEF B
<1>8. /\ Append(Mapped(g, s), g[x]) \in Seq(B) /\ Len(Append(Mapped(g, s), g[x])) = m + 1
      /\ \A n \in 1 .. m : Append(Mapped(g, s), g[x])[n] = Mapped(g, s)[n]
      /\ Append(Mapped(g, s), g[x])[m + 1] = g[x]
  BY <1>5, <1>6, <1>7, AppendProperties
<1>9. \A n \in 1 .. m + 1 : Mapped(g, Append(s, x))[n] = Append(Mapped(g, s), g[x])[n]
  BY <1>1, <1>2, <1>3, <1>8
<1>10. Mapped(g, Append(s, x)) = Append(Mapped(g, s), g[x])
  BY <1>5, <1>6, <1>8, <1>9, SeqEqual
<1> QED BY <1>5, <1>10 DEF B

\* To select from an image is to take the image of a selection, when the sets
\* agree on which elements are selected.
LEMMA SelectedMapped ==
  ASSUME NEW A, NEW g, NEW S, NEW R, NEW s \in Seq(A), \A x \in A : g[x] \in R <=> x \in S
  PROVE  Selected(Mapped(g, s), R) = Mapped(g, Selected(s, S))
<1> DEFINE T == {t \in Seq(A) : Selected(Mapped(g, t), R) = Mapped(g, Selected(t, S))}
           B == {g[y] : y \in A}
<1>1. <<>> \in T
  <2>1. Mapped(g, <<>>) = <<>>
    BY DEF Mapped
  <2> QED BY <2>1, EmptySeq, SelectedEmpty
<1>2. ASSUME NEW t \in T, NEW x \in A PROVE Append(t, x) \in T
  <2>1. /\ t \in Seq(A) /\ Append(t, x) \in Seq(A)
        /\ Selected(Mapped(g, t), R) = Mapped(g, Selected(t, S))
        /\ Selected(t, S) \in Seq(A)
        /\ g[x] \in B /\ (g[x] \in R <=> x \in S)
    BY AppendProperties, SelectedInSeq
  <2>2. Selected(Append(t, x), S) = IF x \in S THEN Append(Selected(t, S), x) ELSE Selected(t, S)
    BY <2>1, SelectedAppend
  <2>3. Mapped(g, Append(t, x)) = Append(Mapped(g, t), g[x]) /\ Mapped(g, t) \in Seq(B)
    BY <2>1, MappedAppend
  <2>4. Selected(Append(Mapped(g, t), g[x]), R) =
          IF g[x] \in R THEN Append(Selected(Mapped(g, t), R), g[x]) ELSE Selected(Mapped(g, t), R)
    <3> HIDE DEF B
    <3> QED BY <2>1, <2>3, SelectedAppend
  <2>5. Mapped(g, Append(Selected(t, S), x)) = Append(Mapped(g, Selected(t, S)), g[x])
    <3>1. PICK u \in Seq(A) : u = Selected(t, S)
      BY <2>1
    <3>2. Mapped(g, Append(u, x)) = Append(Mapped(g, u), g[x]) /\ Mapped(g, u) \in Seq(B)
      BY <2>1, MappedAppend
    <3> QED BY <3>1, <3>2
  <2> HIDE DEF B
  <2>6. Selected(Mapped(g, Append(t, x)), R) = Mapped(g, Selected(Append(t, x), S))
    BY <2>1, <2>2, <2>3, <2>4, <2>5
  <2> QED BY <2>1, <2>6
<1>3. T = Seq(A)
  <2> HIDE DEF T
  <2> QED BY <1>1, <1>2, SeqInduction DEF T
<1> QED BY <1>3

\* The greatest of a set of numbers is the one that no other exceeds.
LEMMA MaxIs ==
  ASSUME NEW K \in SUBSET Int, NEW m \in K, \A n \in K : n <= m
  PROVE  Max(K) = m
<1>1. \A y \in K : m >= y
  OBVIOUS
<1>2. Max(K) \in K /\ \A y \in K : Max(K) >= y
  BY <1>1 DEF Max
<1>3. Max(K) >= m /\ Max(K) <= m /\ Max(K) \in Int
  BY <1>2
<1> QED BY <1>3

\* The least of a set of numbers is the one that exceeds no other.
LEMMA MinIs ==
  ASSUME NEW K \in SUBSET Int, NEW m \in K, \A n \in K : m <= n
  PROVE  Min(K) = m
<1>2. Min(K) \in K /\ \A y \in K : Min(K) <= y
  BY DEF Min
<1>3. Min(K) >= m /\ Min(K) <= m /\ Min(K) \in Int
  BY <1>2
<1> QED BY <1>3

\* A finite set of numbers has a greatest one.
LEMMA FiniteMax ==
  ASSUME NEW K \in SUBSET Int, IsFiniteSet(K), K # {}
  PROVE  Max(K) \in K /\ \A n \in K : n <= Max(K)
<1> DEFINE Good(k) == \A L \in SUBSET K : Cardinality(L) = k + 1 => \E m \in L : \A n \in L : n <= m
           T == {k \in Nat : Good(k)}
<1>0. \A L \in SUBSET K : IsFiniteSet(L) /\ Cardinality(L) \in Nat
  BY FS_Subset, FS_CardinalityType
<1>1. Good(0)
  <2> SUFFICES ASSUME NEW L \in SUBSET K, Cardinality(L) = 1 PROVE \E m \in L : \A n \in L : n <= m
    OBVIOUS
  <2>1. PICK x : L = {x}
    BY <1>0, FS_Singleton
  <2> QED BY <2>1
<1>2. ASSUME NEW k \in T PROVE Good(k + 1)
  <2> SUFFICES ASSUME NEW L \in SUBSET K, Cardinality(L) = (k + 1) + 1 PROVE \E m \in L : \A n \in L : n <= m
    OBVIOUS
  <2>1. k \in Nat /\ Good(k)
    OBVIOUS
  <2>2. PICK x : x \in L
    BY <2>1, FS_EmptySet
  <2>3. Cardinality(L \ {x}) = k + 1
    <3>1. Cardinality(L \ {x}) = Cardinality(L) - 1
      BY <1>0, <2>2, FS_RemoveElement
    <3> QED BY <2>1, <3>1
  <2>4. PICK m \in L \ {x} : \A n \in L \ {x} : n <= m
    BY <2>1, <2>3
  <2>5. m \in Int /\ x \in Int /\ \A n \in L : n \in Int
    BY <2>2
  <2>6. CASE x <= m
    BY <2>4, <2>6
  <2>7. CASE ~ (x <= m)
    <3>1. \A n \in L : n <= x
      BY <2>4, <2>5, <2>7
    <3> QED BY <2>2, <3>1
  <2> QED BY <2>6, <2>7
<1>3. T = Nat
  <2>1. T \in SUBSET Nat /\ 0 \in T /\ \A k \in T : k + 1 \in T
    BY <1>1, <1>2
  <2> HIDE DEF T
  <2> QED BY <2>1, SetInduction
<1>4. Cardinality(K) \in Nat \ {0}
  BY <1>0, FS_EmptySet
<1>5. Cardinality(K) - 1 \in T /\ (Cardinality(K) - 1) + 1 = Cardinality(K)
  BY <1>3, <1>4
<1>6. \E m \in K : \A n \in K : n <= m
  BY <1>5
<1>7. PICK m \in K : \A n \in K : n <= m
  BY <1>6
<1>8. Max(K) = m
  BY <1>7, MaxIs
<1> QED BY <1>7, <1>8

\* A sum of the sizes of disjoint sets is the size of their union.
LEMMA SumDisjoint ==
  ASSUME NEW f, NEW g, NEW S, IsFiniteSet(S),
         \A x \in S : IsFiniteSet(g[x]) /\ f[x] = Cardinality(g[x]),
         \A x, y \in S : x # y => g[x] \cap g[y] = {}
  PROVE  SumFunctionOnSet(f, S) = Cardinality(UNION {g[x] : x \in S})
<1> DEFINE U(s) == UNION {g[x] : x \in s}
           Good(n) == \A s \in SUBSET S : Cardinality(s) = n =>
                        IsFiniteSet(U(s)) /\ SumFunctionOnSet(f, s) = Cardinality(U(s))
           T == {n \in Nat : Good(n)}
<1>0. \A s \in SUBSET S : IsFiniteSet(s) /\ Cardinality(s) \in Nat
  BY FS_Subset, FS_CardinalityType
<1>1. Good(0)
  <2>1. \A s \in SUBSET S : Cardinality(s) = 0 => s = {}
    BY <1>0, FS_EmptySet
  <2>2. U({}) = {}
    OBVIOUS
  <2>3. IsFiniteSet(U({})) /\ SumFunctionOnSet(f, {}) = Cardinality(U({}))
    BY <2>2, SumEmpty, FS_EmptySet
  <2> HIDE DEF U
  <2> QED BY <2>1, <2>3
<1>2. ASSUME NEW n \in T PROVE Good(n + 1)
  <2> SUFFICES ASSUME NEW s \in SUBSET S, Cardinality(s) = n + 1
               PROVE  IsFiniteSet(U(s)) /\ SumFunctionOnSet(f, s) = Cardinality(U(s))
    OBVIOUS
  <2>1. n \in Nat /\ Good(n)
    OBVIOUS
  <2>2. s # {} /\ IsFiniteSet(s)
    BY <1>0, <2>1, FS_EmptySet
  <2>3. PICK z : z = Pick(s)
    OBVIOUS
  <2>4. z \in s /\ Cardinality(s \ {z}) = Cardinality(s) - 1
    BY <2>2, <2>3, PickProperties
  <2>5. PICK r : r = s \ {z}
    OBVIOUS
  <2>6. r \in SUBSET S /\ Cardinality(r) = n /\ z \notin r
    BY <2>1, <2>4, <2>5
  <2>7. IsFiniteSet(U(r)) /\ SumFunctionOnSet(f, r) = Cardinality(U(r))
    BY <2>1, <2>6
  <2>8. U(s) = U(r) \cup g[z]
    BY <2>4, <2>5
  <2>9. U(r) \cap g[z] = {}
    BY <2>4, <2>5, <2>6
  <2>10. IsFiniteSet(g[z]) /\ f[z] = Cardinality(g[z])
    BY <2>4
  <2>11. SumFunctionOnSet(f, s) = f[z] + SumFunctionOnSet(f, r)
    BY <2>2, <2>3, <2>5, SumRecursion
  <2> HIDE DEF U
  <2>12. PICK u, v : u = U(r) /\ v = g[z]
    OBVIOUS
  <2>13. /\ IsFiniteSet(u \cup v)
         /\ Cardinality(u \cup v) = Cardinality(u) + Cardinality(v) - Cardinality(u \cap v)
    BY <2>7, <2>10, <2>12, FS_Union
  <2>14. Cardinality(u) \in Nat /\ Cardinality(v) \in Nat /\ Cardinality(u \cap v) = 0
    BY <2>7, <2>9, <2>10, <2>12, FS_CardinalityType, FS_EmptySet
  <2>15. Cardinality(u \cup v) = Cardinality(v) + Cardinality(u)
    BY <2>13, <2>14
  <2> QED BY <2>7, <2>8, <2>10, <2>11, <2>12, <2>13, <2>15
<1>3. T = Nat
  <2>1. T \in SUBSET Nat /\ 0 \in T /\ \A n \in T : n + 1 \in T
    BY <1>1, <1>2
  <2> HIDE DEF T
  <2> QED BY <2>1, SetInduction
<1>4. Good(Cardinality(S))
  <2> HIDE DEF Good
  <2> QED BY <1>0, <1>3
<1> QED BY <1>4
=============================================================================
