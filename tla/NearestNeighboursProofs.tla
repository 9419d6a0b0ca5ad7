----------------------- MODULE NearestNeighboursProofs -----------------------
(***************************************************************************)
(* Proofs about classify0 and the two tests that use it, for files of any  *)
(* length and values, and images of any size.                              *)
(***************************************************************************)
EXTENDS NearestNeighbours, DataLemmas

-----------------------------------------------------------------------------
(* Distances. *)

\* With every summand c times as large a sum is c times as large.
LEMMA SumMultiple ==
  ASSUME NEW f, NEW g, NEW S, IsFiniteSet(S), NEW c \in Nat, \A x \in S : f[x] \in Nat /\ g[x] = c * f[x]
  PROVE  SumFunctionOnSet(g, S) = c * SumFunctionOnSet(f, S)
<1> DEFINE T == {n \in Nat : \A s \in SUBSET S :
                   Cardinality(s) = n => SumFunctionOnSet(g, s) = c * SumFunctionOnSet(f, s)}
<1>0. \A s \in SUBSET S : IsFiniteSet(s) /\ Cardinality(s) \in Nat
  BY FS_Subset, FS_CardinalityType
<1>1. 0 \in T
  BY <1>0, SumEmpty, FS_EmptySet
<1>2. ASSUME NEW n \in T PROVE n + 1 \in T
  <2> SUFFICES ASSUME NEW s \in SUBSET S, Cardinality(s) = n + 1
               PROVE  SumFunctionOnSet(g, s) = c * SumFunctionOnSet(f, s)
    BY <1>2
  <2>1. n \in Nat /\ s # {} /\ IsFiniteSet(s)
    BY <1>0, <1>2, FS_EmptySet
  <2>2. Pick(s) \in s /\ Cardinality(s \ {Pick(s)}) = Cardinality(s) - 1 /\ IsFiniteSet(s \ {Pick(s)})
    BY <2>1, PickProperties
  <2>3. PICK p, r : p = Pick(s) /\ r = s \ {Pick(s)}
    OBVIOUS
  <2>4. SumFunctionOnSet(g, s) = g[p] + SumFunctionOnSet(g, r)
    BY <2>1, <2>3, SumRecursion
  <2>5. SumFunctionOnSet(f, s) = f[p] + SumFunctionOnSet(f, r)
    BY <2>1, <2>3, SumRecursion
  <2>6. Cardinality(r) = n /\ r \in SUBSET S /\ p \in S
    BY <2>1, <2>2, <2>3
  <2>7. SumFunctionOnSet(g, r) = c * SumFunctionOnSet(f, r)
    BY <1>2, <2>6
  <2>8. SumFunctionOnSet(f, r) \in Nat
    BY <1>0, <2>6, SumType
  <2>9. f[p] \in Nat /\ g[p] = c * f[p]
    BY <2>6
  <2>10. \A a, b \in Nat : c * a + c * b = c * (a + b)
    OBVIOUS
  <2> QED
    BY <2>4, <2>5, <2>7, <2>8, <2>9, <2>10
<1> HIDE DEF T
<1>3. T = Nat
  <2>1. T \in SUBSET Nat
    BY DEF T
  <2> QED
    BY <1>1, <1>2, <2>1, SetInduction
<1> QED
  BY <1>0, <1>3 DEF T

\* A sum with no summand larger and one less is less.
LEMMA SumLess ==
  ASSUME NEW f, NEW g, NEW S, IsFiniteSet(S), \A x \in S : f[x] \in Nat /\ g[x] \in Nat /\ f[x] <= g[x],
         NEW z \in S, f[z] < g[z]
  PROVE  SumFunctionOnSet(f, S) < SumFunctionOnSet(g, S)
<1>1. PICK d : d = [x \in S |-> g[x] - f[x]]
  OBVIOUS
<1>2. \A x \in S : d[x] \in Nat /\ g[x] = f[x] + d[x]
  BY <1>1
<1>3. SumFunctionOnSet(g, S) = SumFunctionOnSet(f, S) + SumFunctionOnSet(d, S)
  BY <1>2, SumPlus
<1>4. SumFunctionOnSet(d, S) = d[z] + SumFunctionOnSet(d, S \ {z})
  BY <1>2, SumRemove
<1>5. IsFiniteSet(S \ {z})
  BY FS_Subset
<1>6. SumFunctionOnSet(d, S \ {z}) \in Nat /\ SumFunctionOnSet(f, S) \in Nat
  BY <1>2, <1>5, SumType
<1>7. d[z] \in Nat /\ d[z] # 0
  BY <1>1
<1> QED
  BY <1>3, <1>4, <1>6, <1>7

\* The square of an integer is natural.
LEMMA Squares ==
  /\ \A a \in Int : a * a \in Nat /\ (a # 0 => a * a > 0)
  /\ \A a, c \in Int : (c * a) * (c * a) = (c * c) * (a * a)
<1>1. ASSUME NEW a \in Int PROVE a * a \in Nat /\ (a # 0 => a * a > 0)
  <2>1. CASE a >= 0
    BY <2>1
  <2>2. CASE a < 0
    <3>1. a * a = (-a) * (-a)
      OBVIOUS
    <3> QED BY <2>2, <3>1
  <2> QED BY <2>1, <2>2
<1>2. ASSUME NEW a \in Int, NEW c \in Int PROVE (c * a) * (c * a) = (c * c) * (a * a)
  OBVIOUS
<1> QED BY <1>1, <1>2

\* The summands of a distance.
Summand(x, y, ranges) ==
  [f \in DOMAIN ranges |->
     ((x[f] - y[f]) * Product(ranges, DOMAIN ranges \ {f})) * ((x[f] - y[f]) * Product(ranges, DOMAIN ranges \ {f}))]

\* What distances can be computed of.
Measurable(x, y, ranges) ==
  IsFiniteSet(DOMAIN ranges) /\ \A f \in DOMAIN ranges : x[f] \in Int /\ y[f] \in Int /\ ranges[f] \in Int

\* A distance is a sum of squares.
LEMMA DistanceIsSum ==
  ASSUME NEW x, NEW y, NEW ranges, Measurable(x, y, ranges)
  PROVE  /\ SqDistance(x, y, ranges) = SumFunctionOnSet(Summand(x, y, ranges), DOMAIN ranges)
         /\ \A f \in DOMAIN ranges : Summand(x, y, ranges)[f] \in Nat
         /\ SqDistance(x, y, ranges) \in Nat
<1>1. SqDistance(x, y, ranges) = SumFunctionOnSet(Summand(x, y, ranges), DOMAIN ranges)
  BY DEF SqDistance, Summand, SumFunction
<1>2. ASSUME NEW f \in DOMAIN ranges PROVE Summand(x, y, ranges)[f] \in Nat
  <2>1. PICK p : p = Product(ranges, DOMAIN ranges \ {f})
    OBVIOUS
  <2>2. IsFiniteSet(DOMAIN ranges \ {f}) /\ \A g \in DOMAIN ranges \ {f} : ranges[g] \in Int
    BY FS_Subset DEF Measurable
  <2>3. p \in Int
    BY <2>1, <2>2, ProductType
  <2>4. x[f] - y[f] \in Int
    BY DEF Measurable
  <2>5. (x[f] - y[f]) * p \in Int
    BY <2>3, <2>4
  <2>6. Summand(x, y, ranges)[f] = ((x[f] - y[f]) * p) * ((x[f] - y[f]) * p)
    BY <2>1 DEF Summand
  <2> QED
    BY <2>5, <2>6, Squares
<1>3. SqDistance(x, y, ranges) \in Nat
  BY <1>1, <1>2, SumType DEF Measurable
<1> QED
  BY <1>1, <1>2, <1>3

\* When the unit of one feature is c times as small, distances are c * c times as large.
LEMMA DistanceScaled ==
  ASSUME NEW x, NEW y, NEW ranges, Measurable(x, y, ranges),
         NEW u, NEW v, NEW wider, Measurable(u, v, wider),
         DOMAIN wider = DOMAIN ranges,
         NEW z \in DOMAIN ranges, NEW c \in Nat,
         wider[z] = c * ranges[z], u[z] - v[z] = c * (x[z] - y[z]),
         \A f \in DOMAIN ranges \ {z} : wider[f] = ranges[f] /\ u[f] - v[f] = x[f] - y[f]
  PROVE  SqDistance(u, v, wider) = (c * c) * SqDistance(x, y, ranges)
<1> DEFINE D == DOMAIN ranges
<1>1. ASSUME NEW f \in D
      PROVE  Summand(u, v, wider)[f] = (c * c) * Summand(x, y, ranges)[f]
  <2>1. PICK p, q : p = Product(ranges, D \ {f}) /\ q = Product(wider, D \ {f})
    OBVIOUS
  <2>2. IsFiniteSet(D \ {f}) /\ (\A g \in D \ {f} : ranges[g] \in Int)
    BY FS_Subset DEF Measurable
  <2>3. p \in Int
    BY <2>1, <2>2, ProductType
  <2>4. x[f] - y[f] \in Int
    BY DEF Measurable
  <2>5. PICK a, b : a = x[f] - y[f] /\ b = u[f] - v[f]
    OBVIOUS
  <2>6. b * q = c * (a * p)
    <3>1. CASE f = z
      <4>1. q = p
        <5>1. \A g \in D \ {f} : wider[g] = ranges[g]
          BY <3>1
        <5> QED BY <2>1, <2>2, <5>1, ProductEqual
      <4>2. b = c * a
        BY <2>5, <3>1
      <4>3. \A j, m \in Int : (c * j) * m = c * (j * m)
        OBVIOUS
      <4> QED BY <2>3, <2>4, <2>5, <4>1, <4>2, <4>3
    <3>2. CASE f # z
      <4>1. q = c * p
        <5>1. z \in D \ {f} /\ wider[z] = c * ranges[z] /\ c \in Int
          BY <3>2
        <5>2. \A g \in (D \ {f}) \ {z} : wider[g] = ranges[g]
          OBVIOUS
        <5> QED BY <2>1, <2>2, <5>1, <5>2, ProductScaled
      <4>2. b = a
        BY <2>5, <3>2
      <4>3. \A j, m \in Int : j * (c * m) = c * (j * m)
        OBVIOUS
      <4> QED BY <2>3, <2>4, <2>5, <4>1, <4>2, <4>3
    <3> QED BY <3>1, <3>2
  <2>7. Summand(u, v, wider)[f] = (b * q) * (b * q) /\ Summand(x, y, ranges)[f] = (a * p) * (a * p)
    BY <2>1, <2>5 DEF Summand
  <2>8. a * p \in Int /\ c \in Int
    BY <2>3, <2>4, <2>5
  <2> QED
    BY <2>6, <2>7, <2>8, Squares
<1>2. IsFiniteSet(D)
  BY DEF Measurable
<1>3. /\ SqDistance(x, y, ranges) = SumFunctionOnSet(Summand(x, y, ranges), D)
      /\ \A f \in D : Summand(x, y, ranges)[f] \in Nat
      /\ SqDistance(u, v, wider) = SumFunctionOnSet(Summand(u, v, wider), D)
  BY DistanceIsSum
<1>4. c * c \in Nat
  OBVIOUS
<1> HIDE DEF D
<1> QED
  BY <1>1, <1>2, <1>3, <1>4, SumMultiple

-----------------------------------------------------------------------------
(* Answers. *)

\* An answer follows from the labels and the order of the distances.
LEMMA AnswersSame ==
  ASSUME NEW x, NEW train, NEW ranges, NEW u, NEW others, NEW wider,
         DOMAIN others = DOMAIN train,
         \A n \in DOMAIN train : others[n].label = train[n].label,
         IsNan(wider) <=> IsNan(ranges),
         \A n, o \in DOMAIN train :
           SqDistance(u, others[n].x, wider) <= SqDistance(u, others[o].x, wider)
             <=> SqDistance(x, train[n].x, ranges) <= SqDistance(x, train[o].x, ranges)
  PROVE  Classify0(u, others, wider) = Classify0(x, train, ranges)
<1>1. Nearest(u, others, wider) = Nearest(x, train, ranges)
  <2>1. ASSUME NEW near \in SUBSET DOMAIN train
        PROVE  (IsNan(wider) \/ \A n \in near, o \in DOMAIN train \ near :
                   SqDistance(u, others[n].x, wider) <= SqDistance(u, others[o].x, wider))
               <=> (IsNan(ranges) \/ \A n \in near, o \in DOMAIN train \ near :
                   SqDistance(x, train[n].x, ranges) <= SqDistance(x, train[o].x, ranges))
    OBVIOUS
  <2>2. kSubset(k, DOMAIN others) = kSubset(k, DOMAIN train)
        /\ \A near \in kSubset(k, DOMAIN train) : near \in SUBSET DOMAIN train
    BY DEF kSubset
  <2> QED
    BY <2>1, <2>2 DEF Nearest
<1>2. ASSUME NEW near \in SUBSET DOMAIN train PROVE Elected(near, others) = Elected(near, train)
  <2>1. {others[n].label : n \in near} = {train[n].label : n \in near}
    OBVIOUS
  <2>2. \A c : {n \in near : others[n].label = c} = {n \in near : train[n].label = c}
    OBVIOUS
  <2>3. [c \in {others[n].label : n \in near} |-> Cardinality({n \in near : others[n].label = c})]
          = [c \in {train[n].label : n \in near} |-> Cardinality({n \in near : train[n].label = c})]
    BY <2>1, <2>2
  <2> QED
    BY <2>3 DEF Elected
<1>3. \A near \in Nearest(x, train, ranges) : near \in SUBSET DOMAIN train
  BY DEF Nearest, kSubset
<1> QED
  BY <1>1, <1>2, <1>3 DEF Classify0

\* A larger difference has a larger square, and remains larger when both are
\* multiplied.
LEMMA SquaresOrdered ==
  \A a, b, p \in Int :
    LET Gap(j) == IF j < 0 THEN -j ELSE j
    IN  /\ Gap(a) <= Gap(b) => (a * p) * (a * p) <= (b * p) * (b * p)
        /\ Gap(a) < Gap(b) /\ p # 0 => (a * p) * (a * p) < (b * p) * (b * p)
<1> DEFINE Gap(j) == IF j < 0 THEN -j ELSE j
<1> SUFFICES ASSUME NEW a \in Int, NEW b \in Int, NEW p \in Int
             PROVE  /\ Gap(a) <= Gap(b) => (a * p) * (a * p) <= (b * p) * (b * p)
                    /\ Gap(a) < Gap(b) /\ p # 0 => (a * p) * (a * p) < (b * p) * (b * p)
  OBVIOUS
<1>1. \A j, m \in Nat : j <= m => j * j <= m * m
  <2> SUFFICES ASSUME NEW j \in Nat, NEW m \in Nat, j <= m PROVE j * j <= m * m
    OBVIOUS
  <2>1. PICK d \in Nat : m = j + d
    <3>1. m - j \in Nat /\ m = j + (m - j)
      OBVIOUS
    <3> QED BY <3>1
  <2>2. m * m = j * j + (2 * (j * d) + d * d)
    BY <2>1
  <2>3. j * d \in Nat /\ d * d \in Nat /\ j * j \in Nat
    OBVIOUS
  <2> QED BY <2>2, <2>3
<1>2. \A j, m \in Nat : j < m => j * j < m * m
  <2> SUFFICES ASSUME NEW j \in Nat, NEW m \in Nat, j < m PROVE j * j < m * m
    OBVIOUS
  <2>1. PICK d \in Nat : m = j + d /\ d > 0
    <3>1. m - j \in Nat /\ m = j + (m - j) /\ m - j > 0
      OBVIOUS
    <3> QED BY <3>1
  <2>2. m * m = j * j + (2 * (j * d) + d * d)
    BY <2>1
  <2>3. j * d \in Nat /\ d * d \in Nat /\ j * j \in Nat /\ d * d > 0
    BY <2>1, Squares
  <2> QED BY <2>2, <2>3
<1>3. Gap(a) \in Nat /\ Gap(b) \in Nat /\ Gap(a) * Gap(a) = a * a /\ Gap(b) * Gap(b) = b * b
  <2>1. \A j \in Int : Gap(j) \in Nat /\ Gap(j) * Gap(j) = j * j
    <3> SUFFICES ASSUME NEW j \in Int PROVE Gap(j) \in Nat /\ Gap(j) * Gap(j) = j * j
      OBVIOUS
    <3>1. (-j) * (-j) = j * j
      OBVIOUS
    <3>2. CASE j < 0
      BY <3>1, <3>2
    <3>3. CASE ~ (j < 0)
      BY <3>3
    <3> QED BY <3>2, <3>3
  <2> QED BY <2>1
<1>4. PICK s, t, q \in Nat : s = a * a /\ t = b * b /\ q = p * p /\ (p # 0 => q > 0)
  BY Squares
<1>5. (a * p) * (a * p) = q * s /\ (b * p) * (b * p) = q * t
  <2>1. (a * p) * (a * p) = (p * p) * (a * a) /\ (b * p) * (b * p) = (p * p) * (b * b)
    OBVIOUS
  <2> QED BY <1>4, <2>1
<1>6. \A j, m, r \in Nat : /\ j <= m => r * j <= r * m
                           /\ j < m /\ r > 0 => r * j < r * m
  <2> SUFFICES ASSUME NEW j \in Nat, NEW m \in Nat, NEW r \in Nat, j <= m
               PROVE  r * j <= r * m /\ (j < m /\ r > 0 => r * j < r * m)
    OBVIOUS
  <2>1. PICK d \in Nat : m = j + d
    <3>1. m - j \in Nat /\ m = j + (m - j)
      OBVIOUS
    <3> QED BY <3>1
  <2>2. r * m = r * j + r * d /\ r * j \in Nat /\ r * d \in Nat
    BY <2>1
  <2>3. \A g, h \in Nat : g > 0 /\ h > 0 => g * h > 0
    OBVIOUS
  <2>4. j < m => d > 0
    BY <2>1
  <2> QED BY <2>2, <2>3, <2>4
<1>7. ASSUME Gap(a) <= Gap(b) PROVE q * s <= q * t
  BY <1>1, <1>3, <1>4, <1>6, <1>7
<1>8. ASSUME Gap(a) < Gap(b), p # 0 PROVE q * s < q * t
  BY <1>2, <1>3, <1>4, <1>6, <1>8
<1> QED
  BY <1>5, <1>7, <1>8

\* A row that is nearer in the sense of Nearer has the smaller distance, unless a
\* range is zero.
LEMMA NearerIsLess ==
  ASSUME NEW x, NEW row, NEW other, NEW ranges,
         Measurable(x, row.x, ranges), Measurable(x, other.x, ranges),
         DOMAIN x = DOMAIN ranges, ~ IsNan(ranges), Nearer(x, row, other)
  PROVE  SqDistance(x, row.x, ranges) < SqDistance(x, other.x, ranges)
<1> DEFINE D == DOMAIN ranges
           Gap(y, f) == IF y.x[f] < x[f] THEN x[f] - y.x[f] ELSE y.x[f] - x[f]
<1>1. ASSUME NEW f \in D
      PROVE  /\ Gap(row, f) <= Gap(other, f) => Summand(x, row.x, ranges)[f] <= Summand(x, other.x, ranges)[f]
             /\ Gap(row, f) < Gap(other, f) => Summand(x, row.x, ranges)[f] < Summand(x, other.x, ranges)[f]
  <2>1. PICK p : p = Product(ranges, D \ {f})
    OBVIOUS
  <2>2. IsFiniteSet(D \ {f}) /\ \A g \in D \ {f} : ranges[g] \in Int /\ ranges[g] # 0
    BY FS_Subset DEF Measurable, IsNan, Range
  <2>3. p \in Int /\ p # 0
    BY <2>1, <2>2, ProductType
  <2>4. PICK a, b \in Int : a = x[f] - row.x[f] /\ b = x[f] - other.x[f]
    BY DEF Measurable
  <2>5. /\ Gap(row, f) = IF a < 0 THEN -a ELSE a
        /\ Gap(other, f) = IF b < 0 THEN -b ELSE b
    BY <2>4 DEF Measurable
  <2>6. Summand(x, row.x, ranges)[f] = (a * p) * (a * p) /\ Summand(x, other.x, ranges)[f] = (b * p) * (b * p)
    BY <2>1, <2>4 DEF Summand
  <2> HIDE DEF Gap
  <2> QED
    BY <2>3, <2>5, <2>6, SquaresOrdered
<1>2. /\ \A f \in D : Gap(row, f) <= Gap(other, f)
      /\ \E f \in D : Gap(row, f) < Gap(other, f)
  BY DEF Nearer
<1>3. IsFiniteSet(D) /\ \A f \in D : Summand(x, row.x, ranges)[f] \in Nat /\ Summand(x, other.x, ranges)[f] \in Nat
  BY DistanceIsSum DEF Measurable
<1> HIDE DEF Gap
<1>4. PICK z \in D : Summand(x, row.x, ranges)[z] < Summand(x, other.x, ranges)[z]
  BY <1>1, <1>2
<1>5. SumFunctionOnSet(Summand(x, row.x, ranges), D) < SumFunctionOnSet(Summand(x, other.x, ranges), D)
  BY <1>1, <1>2, <1>3, <1>4, SumLess
<1> QED
  BY <1>5, DistanceIsSum

-----------------------------------------------------------------------------
(* The rows of a file. *)

Lines == Seq([1 .. 4 -> Int])

\* The column of a feature, as the file has it.
Values(file, f) == {file[n][f] : n \in 1 .. Len(file)}

LeastOf(file, f) == Min(Values(file, f))
GreatestOf(file, f) == Max(Values(file, f))

\* A finite set of integers has a least and a greatest element.
LEMMA Extremes ==
  ASSUME NEW S \in SUBSET Int, IsFiniteSet(S), S # {}
  PROVE  /\ Min(S) \in S /\ \A x \in S : Min(S) <= x
         /\ Max(S) \in S /\ \A x \in S : x <= Max(S)
<1> DEFINE Bounded(s) == s # {} => \E low, high \in s : \A x \in s : low <= x /\ x <= high
           T == {n \in Nat : \A s \in SUBSET S : Cardinality(s) = n => Bounded(s)}
<1>0. \A s \in SUBSET S : IsFiniteSet(s) /\ Cardinality(s) \in Nat
  BY FS_Subset, FS_CardinalityType
<1>1. 0 \in T
  BY <1>0, FS_EmptySet
<1>2. ASSUME NEW n \in T PROVE n + 1 \in T
  <2> SUFFICES ASSUME NEW s \in SUBSET S, Cardinality(s) = n + 1, s # {}
               PROVE  \E low, high \in s : \A x \in s : low <= x /\ x <= high
    BY <1>2
  <2>1. PICK z \in s : TRUE
    OBVIOUS
  <2>2. PICK r : r = s \ {z}
    OBVIOUS
  <2>3. r \in SUBSET S /\ Cardinality(r) = n /\ s = r \cup {z} /\ z \in Int
    <3>1. IsFiniteSet(s) /\ Cardinality(s \ {z}) = Cardinality(s) - 1
      BY <1>0, <2>1, FS_RemoveElement
    <3> QED BY <1>2, <2>1, <2>2, <3>1
  <2>4. CASE r = {}
    BY <2>3, <2>4
  <2>5. CASE r # {}
    <3>1. PICK low \in r, high \in r : \A x \in r : low <= x /\ x <= high
      BY <1>2, <2>3, <2>5
    <3>2. PICK l, h : l = (IF z < low THEN z ELSE low) /\ h = (IF z > high THEN z ELSE high)
      OBVIOUS
    <3>3. r \subseteq Int
      BY <2>3
    <3>4. l \in s /\ h \in s /\ \A x \in s : l <= x /\ x <= h
      BY <2>3, <3>1, <3>2, <3>3
    <3> QED BY <3>4
  <2> QED BY <2>4, <2>5
<1> HIDE DEF T
<1>3. T = Nat
  <2>1. T \in SUBSET Nat
    BY DEF T
  <2> QED
    BY <1>1, <1>2, <2>1, SetInduction
<1>4. Bounded(S)
  BY <1>0, <1>3 DEF T
<1>5. PICK low \in S, high \in S : \A x \in S : low <= x /\ x <= high
  BY <1>4
<1>6. Min(S) \in S /\ \A x \in S : Min(S) <= x
  <2>1. low \in S /\ \A y \in S : low =< y
    BY <1>5
  <2> QED BY <2>1 DEF Min
<1>7. Max(S) \in S /\ \A x \in S : Max(S) >= x
  <2>1. high \in S /\ \A y \in S : high >= y
    BY <1>5
  <2> QED BY <2>1 DEF Max
<1> QED
  BY <1>6, <1>7

\* A number that bounds a set and is in it is its minimum, and its maximum.
LEMMA ExtremesAre ==
  ASSUME NEW S \in SUBSET Int, IsFiniteSet(S), NEW z \in S
  PROVE  /\ (\A x \in S : z <= x) => Min(S) = z
         /\ (\A x \in S : x <= z) => Max(S) = z
<1>1. /\ Min(S) \in S /\ \A x \in S : Min(S) <= x
      /\ Max(S) \in S /\ \A x \in S : x <= Max(S)
  BY Extremes
<1>2. z \in Int /\ Min(S) \in Int /\ Max(S) \in Int
  BY <1>1
<1>3. ASSUME \A x \in S : z <= x PROVE Min(S) = z
  <2>1. z <= Min(S) /\ Min(S) <= z
    BY <1>1, <1>3
  <2> QED BY <1>2, <2>1
<1>4. ASSUME \A x \in S : x <= z PROVE Max(S) = z
  <2>1. z <= Max(S) /\ Max(S) <= z
    BY <1>1, <1>4
  <2> QED BY <1>2, <2>1
<1> QED
  BY <1>3, <1>4

\* A function on 1 .. m is a sequence of length m.
LEMMA FunctionIsSeq ==
  ASSUME NEW S, NEW m \in Nat, NEW s \in [1 .. m -> S]
  PROVE  s \in Seq(S) /\ Len(s) = m
<1>1. s \in Seq(S)
  BY SeqDef
<1>2. PICK n \in Nat : n = Len(s) /\ DOMAIN s = 1 .. n
  BY <1>1, LenProperties
<1>3. 1 .. n = 1 .. m
  BY <1>2
<1>4. ~ (n < m)
  <2>1. n < m => m \in 1 .. m /\ m \notin 1 .. n
    OBVIOUS
  <2> QED BY <1>3, <2>1
<1>5. ~ (m < n)
  <2>1. m < n => n \in 1 .. n /\ n \notin 1 .. m
    OBVIOUS
  <2> QED BY <1>3, <2>1
<1> QED
  BY <1>1, <1>2, <1>4, <1>5

\* The features of a line, and its class.
LEMMA LineProperties ==
  ASSUME NEW line \in [1 .. 4 -> Int]
  PROVE  /\ SubSeq(line, 1, 3) = [f \in 1 .. 3 |-> line[f]]
         /\ Last(line) = line[4]
<1>1. line \in Seq(Int) /\ Len(line) = 4
  <2>1. PICK m \in Nat : m = 4
    OBVIOUS
  <2>2. line \in [1 .. m -> Int]
    BY <2>1
  <2>3. line \in Seq(Int) /\ Len(line) = m
    BY <2>2, FunctionIsSeq
  <2> QED BY <2>1, <2>3
<1>2. SubSeq(line, 1, 3) \in Seq(Int) /\ Len(SubSeq(line, 1, 3)) = 3
      /\ \A n \in 1 .. 3 : SubSeq(line, 1, 3)[n] = line[n]
  BY <1>1, SubSeqProperties
<1>3. SubSeq(line, 1, 3) = [f \in 1 .. 3 |-> SubSeq(line, 1, 3)[f]]
  BY <1>2, LenProperties
<1> QED
  BY <1>1, <1>2, <1>3 DEF Last

\* The columns of a file with a line.
LEMMA ValuesProperties ==
  ASSUME NEW file \in Lines, file # <<>>, NEW f \in 1 .. 4
  PROVE  /\ Values(file, f) \in SUBSET Int /\ IsFiniteSet(Values(file, f)) /\ Values(file, f) # {}
         /\ LeastOf(file, f) \in Int /\ GreatestOf(file, f) \in Int
         /\ LeastOf(file, f) \in Values(file, f) /\ GreatestOf(file, f) \in Values(file, f)
         /\ \A n \in 1 .. Len(file) : /\ file[n][f] \in Int
                                      /\ LeastOf(file, f) <= file[n][f]
                                      /\ file[n][f] <= GreatestOf(file, f)
<1>1. Len(file) \in Nat /\ Len(file) # 0 /\ \A n \in 1 .. Len(file) : file[n] \in [1 .. 4 -> Int]
  BY EmptySeq, LenProperties, ElementOfSeq DEF Lines
<1>2. PICK column : column = [n \in 1 .. Len(file) |-> file[n][f]]
  OBVIOUS
<1>3. IsFiniteSet({column[n] : n \in 1 .. Len(file)})
  <2>1. 1 \in Int /\ Len(file) \in Int
    BY <1>1
  <2>2. IsFiniteSet(1 .. Len(file))
    BY <2>1, FS_Interval
  <2> QED BY <2>2, ImageFinite
<1>4. Values(file, f) = {column[n] : n \in 1 .. Len(file)}
  BY <1>2 DEF Values
<1>5. Values(file, f) \in SUBSET Int /\ Values(file, f) # {} /\ \A n \in 1 .. Len(file) : file[n][f] \in Values(file, f)
  <2>1. 1 \in 1 .. Len(file)
    BY <1>1
  <2> QED BY <1>1, <2>1 DEF Values
<1> QED
  BY <1>3, <1>4, <1>5, Extremes DEF LeastOf, GreatestOf

\* A row of the normalised file, as its line has it.
DatingRow(file, n) ==
  [x |-> [f \in 1 .. 3 |-> file[n][f] - LeastOf(file, f)], label |-> file[n][4]]

\* What datingClassTest tests, trains with and divides by.
LEMMA DatingProperties ==
  ASSUME NEW file \in Lines, file # <<>>
  PROVE  /\ Dating(file).ranges = [f \in 1 .. 3 |-> GreatestOf(file, f) - LeastOf(file, f)]
         /\ Len(Dating(file).test) = Len(file) \div 2
         /\ Dating(file).test = [n \in 1 .. Len(file) \div 2 |-> DatingRow(file, n)]
         /\ Len(Dating(file).train) = Len(file) - Len(file) \div 2
         /\ Dating(file).train = [n \in 1 .. Len(file) - Len(file) \div 2 |->
                                    DatingRow(file, Len(file) \div 2 + n)]
<1>1. Len(file) \in Nat \ {0} /\ DOMAIN file = 1 .. Len(file)
      /\ \A n \in 1 .. Len(file) : file[n] \in [1 .. 4 -> Int]
  BY EmptySeq, LenProperties, ElementOfSeq DEF Lines
<1>2. PICK rows : rows = File2Matrix(file)
  OBVIOUS
<1>3. /\ DOMAIN rows = 1 .. Len(file)
      /\ \A n \in 1 .. Len(file) : rows[n] = [x |-> [f \in 1 .. 3 |-> file[n][f]], label |-> file[n][4]]
  <2>1. \A n \in 1 .. Len(file) : SubSeq(file[n], 1, 3) = [f \in 1 .. 3 |-> file[n][f]]
                                  /\ Last(file[n]) = file[n][4]
    BY <1>1, LineProperties
  <2> QED
    BY <1>1, <1>2, <2>1 DEF File2Matrix
<1>4. \A f \in 1 .. 3 : Column(rows, f) = Values(file, f)
  BY <1>3 DEF Column, Values
<1>5. PICK mat : mat = AutoNorm(rows).mat
  OBVIOUS
<1>6. mat = [n \in 1 .. Len(file) |-> DatingRow(file, n)]
  <2>1. ASSUME NEW n \in 1 .. Len(file)
        PROVE  [rows[n] EXCEPT !.x = [f \in DOMAIN @ |-> @[f] - Min(Column(rows, f))]] = DatingRow(file, n)
    <3>1. PICK row, x, y : /\ row = rows[n] /\ x = [f \in 1 .. 3 |-> file[n][f]]
                           /\ y = [f \in 1 .. 3 |-> file[n][f] - LeastOf(file, f)]
      OBVIOUS
    <3>2. row = [x |-> x, label |-> file[n][4]] /\ row.x = x
      BY <1>3, <3>1
    <3>3. [f \in DOMAIN row.x |-> row.x[f] - Min(Column(rows, f))] = y
      BY <1>4, <3>1, <3>2 DEF LeastOf
    <3>4. [row EXCEPT !.x = y] = [x |-> y, label |-> file[n][4]]
      BY <3>2
    <3>5. [row EXCEPT !.x = [f \in DOMAIN row.x |-> row.x[f] - Min(Column(rows, f))]] = [row EXCEPT !.x = y]
      BY <3>3
    <3> QED
      BY <3>1, <3>4, <3>5 DEF DatingRow
  <2>2. mat = [n \in DOMAIN rows |->
                 [rows[n] EXCEPT !.x = [f \in DOMAIN @ |-> @[f] - Min(Column(rows, f))]]]
    BY <1>5 DEF AutoNorm
  <2> QED
    BY <1>3, <2>1, <2>2
<1>7. AutoNorm(rows).ranges = [f \in 1 .. 3 |-> GreatestOf(file, f) - LeastOf(file, f)]
  <2>1. DOMAIN rows[1].x = 1 .. 3
    BY <1>1, <1>3
  <2>2. \A f \in 1 .. 3 : RangeOf(Column(rows, f)) = GreatestOf(file, f) - LeastOf(file, f)
    BY <1>4 DEF RangeOf, GreatestOf, LeastOf
  <2> QED
    BY <2>1, <2>2 DEF AutoNorm
<1>8. PICK h, m : m = Len(file) /\ h = m \div 2
  OBVIOUS
<1>9. m \in Nat /\ h \in Nat /\ h <= m
  BY <1>1, <1>8
<1>10. PICK S : S = {DatingRow(file, n) : n \in 1 .. m}
  OBVIOUS
<1>11. mat \in Seq(S) /\ Len(mat) = m
  <2>1. mat \in [1 .. m -> S]
    BY <1>6, <1>8, <1>10
  <2> QED
    BY <1>9, <2>1, FunctionIsSeq
<1>12. /\ SubSeq(mat, 1, h) \in Seq(S) /\ Len(SubSeq(mat, 1, h)) = h
       /\ \A n \in 1 .. h : SubSeq(mat, 1, h)[n] = mat[n]
  BY <1>9, <1>11, SubSeqProperties
<1>13. /\ SubSeq(mat, h + 1, m) \in Seq(S) /\ Len(SubSeq(mat, h + 1, m)) = m - h
       /\ \A n \in 1 .. m - h : SubSeq(mat, h + 1, m)[n] = mat[h + n]
  BY <1>9, <1>11, SubSeqProperties
<1>14. SubSeq(mat, 1, h) = [n \in 1 .. h |-> DatingRow(file, n)]
  <2>1. SubSeq(mat, 1, h) = [n \in 1 .. h |-> SubSeq(mat, 1, h)[n]]
    BY <1>12, LenProperties
  <2>2. \A n \in 1 .. h : SubSeq(mat, 1, h)[n] = DatingRow(file, n)
    BY <1>6, <1>8, <1>9, <1>12
  <2> QED
    BY <2>1, <2>2
<1>15. SubSeq(mat, h + 1, m) = [n \in 1 .. m - h |-> DatingRow(file, h + n)]
  <2>1. SubSeq(mat, h + 1, m) = [n \in 1 .. m - h |-> SubSeq(mat, h + 1, m)[n]]
    BY <1>13, LenProperties
  <2>2. ASSUME NEW n \in 1 .. m - h PROVE SubSeq(mat, h + 1, m)[n] = DatingRow(file, h + n)
    <3>1. h + n \in 1 .. m
      BY <1>9
    <3> QED BY <1>6, <1>8, <1>13, <3>1
  <2> QED
    BY <2>1, <2>2
<1>16. Dating(file) = [test |-> SubSeq(mat, 1, h), train |-> SubSeq(mat, h + 1, m),
                       ranges |-> AutoNorm(rows).ranges]
  BY <1>2, <1>5, <1>8, <1>11 DEF Dating, NumTestVecs, TrainingRows
<1>17. /\ Dating(file).test = SubSeq(mat, 1, h) /\ Dating(file).train = SubSeq(mat, h + 1, m)
       /\ Dating(file).ranges = AutoNorm(rows).ranges
  <2>1. PICK test, train, ranges : test = SubSeq(mat, 1, h) /\ train = SubSeq(mat, h + 1, m)
                                   /\ ranges = AutoNorm(rows).ranges
    OBVIOUS
  <2>2. Dating(file) = [test |-> test, train |-> train, ranges |-> ranges]
    BY <1>16, <2>1
  <2>3. Dating(file).test = test
    BY <2>2
  <2>4. Dating(file).train = train
    BY <2>2
  <2>5. Dating(file).ranges = ranges
    BY <2>2
  <2> QED BY <2>1, <2>3, <2>4, <2>5, Zenon
<1>18. /\ Dating(file).ranges = [f \in 1 .. 3 |-> GreatestOf(file, f) - LeastOf(file, f)]
       /\ Len(Dating(file).test) = h /\ Dating(file).test = [n \in 1 .. h |-> DatingRow(file, n)]
       /\ Len(Dating(file).train) = m - h
       /\ Dating(file).train = [n \in 1 .. m - h |-> DatingRow(file, h + n)]
  BY <1>7, <1>12, <1>13, <1>14, <1>15, <1>17
<1> QED
  BY <1>8, <1>18

\* Distances between the rows of a file can be computed.
LEMMA DatingMeasurable ==
  ASSUME NEW file \in Lines, file # <<>>
  PROVE  /\ \A n, o \in 1 .. Len(file) :
              Measurable(DatingRow(file, n).x, DatingRow(file, o).x, Dating(file).ranges)
         /\ DOMAIN Dating(file).ranges = 1 .. 3
<1>1. Dating(file).ranges = [f \in 1 .. 3 |-> GreatestOf(file, f) - LeastOf(file, f)]
  BY DatingProperties
<1>2. \A f \in 1 .. 3 : /\ LeastOf(file, f) \in Int /\ GreatestOf(file, f) \in Int
                        /\ \A n \in 1 .. Len(file) : file[n][f] \in Int
  <2>1. \A f \in 1 .. 3 : f \in 1 .. 4
    OBVIOUS
  <2> QED BY <2>1, ValuesProperties
<1>3. IsFiniteSet(1 .. 3)
  <2>1. 1 \in Int /\ 3 \in Int
    OBVIOUS
  <2> QED BY <2>1, FS_Interval
<1>4. \A n \in 1 .. Len(file) : \A f \in 1 .. 3 : DatingRow(file, n).x[f] \in Int
  <2>1. \A n \in 1 .. Len(file) : \A f \in 1 .. 3 : DatingRow(file, n).x[f] = file[n][f] - LeastOf(file, f)
    BY DEF DatingRow
  <2>2. ASSUME NEW n \in 1 .. Len(file), NEW f \in 1 .. 3 PROVE DatingRow(file, n).x[f] \in Int
    <3>1. PICK a, b \in Int : a = file[n][f] /\ b = LeastOf(file, f)
      BY <1>2
    <3> QED BY <2>1, <3>1
  <2> QED BY <2>2
<1>5. DOMAIN Dating(file).ranges = 1 .. 3 /\ \A f \in 1 .. 3 : Dating(file).ranges[f] \in Int
  BY <1>1, <1>2
<1> QED
  BY <1>3, <1>4, <1>5 DEF Measurable

-----------------------------------------------------------------------------
(* Units. *)

\* A file with one feature in another unit.
LEMMA MeasuredProperties ==
  ASSUME NEW file \in Lines, file # <<>>, NEW f \in 1 .. 3, NEW factor \in Nat \ {0}, NEW offset \in Int,
         NEW other, other = Measured(file, f, factor, offset)
  PROVE  /\ other \in Lines /\ other # <<>> /\ Len(other) = Len(file)
         /\ \A n \in 1 .. Len(file) :
              /\ other[n][f] = factor * file[n][f] + offset
              /\ \A g \in (1 .. 4) \ {f} : other[n][g] = file[n][g]
         /\ LeastOf(other, f) = factor * LeastOf(file, f) + offset
         /\ GreatestOf(other, f) = factor * GreatestOf(file, f) + offset
         /\ \A g \in (1 .. 4) \ {f} : /\ LeastOf(other, g) = LeastOf(file, g)
                                     /\ GreatestOf(other, g) = GreatestOf(file, g)
<1>1. Len(file) \in Nat \ {0} /\ DOMAIN file = 1 .. Len(file)
      /\ \A n \in 1 .. Len(file) : file[n] \in [1 .. 4 -> Int]
  BY EmptySeq, LenProperties, ElementOfSeq DEF Lines
<1>2. other = [n \in 1 .. Len(file) |-> [file[n] EXCEPT ![f] = factor * @ + offset]]
  BY <1>1 DEF Measured
<1>3. \A n \in 1 .. Len(file) : /\ other[n] \in [1 .. 4 -> Int]
                                /\ other[n][f] = factor * file[n][f] + offset
                                /\ \A g \in (1 .. 4) \ {f} : other[n][g] = file[n][g]
  <2> SUFFICES ASSUME NEW n \in 1 .. Len(file)
               PROVE  /\ other[n] \in [1 .. 4 -> Int]
                      /\ other[n][f] = factor * file[n][f] + offset
                      /\ \A g \in (1 .. 4) \ {f} : other[n][g] = file[n][g]
    OBVIOUS
  <2>1. PICK line \in [1 .. 4 -> Int] : line = file[n]
    BY <1>1
  <2>2. other[n] = [line EXCEPT ![f] = factor * line[f] + offset]
    BY <1>2, <2>1
  <2>3. factor * line[f] + offset \in Int /\ f \in 1 .. 4
    <3>1. line[f] \in Int
      OBVIOUS
    <3>2. \A a, b, c \in Int : a * b + c \in Int
      OBVIOUS
    <3> QED BY <3>1, <3>2
  <2> QED
    BY <2>1, <2>2, <2>3
<1>4. other \in Lines /\ Len(other) = Len(file) /\ other # <<>>
  <2>1. PICK m \in Nat : m = Len(file) /\ m # 0
    BY <1>1
  <2>2. other \in [1 .. m -> [1 .. 4 -> Int]]
    BY <1>2, <1>3, <2>1
  <2>3. other \in Lines /\ Len(other) = m
    BY <2>2, FunctionIsSeq DEF Lines
  <2>4. Len(<<>>) = 0
    BY EmptySeq
  <2>5. other # <<>>
    BY <2>1, <2>3, <2>4
  <2>6. Len(other) = Len(file)
    BY <2>1, <2>3
  <2> QED
    BY <2>3, <2>5, <2>6, SMTT(30)
<1>5. \A g \in (1 .. 4) \ {f} : Values(other, g) = Values(file, g)
  <2>1. ASSUME NEW g \in (1 .. 4) \ {f} PROVE Values(other, g) = Values(file, g)
    <3>1. \A n \in 1 .. Len(file) : other[n][g] = file[n][g]
      BY <1>3
    <3>2. {other[n][g] : n \in 1 .. Len(file)} = {file[n][g] : n \in 1 .. Len(file)}
      BY <3>1
    <3> QED BY <1>4, <3>2 DEF Values
  <2> QED BY <2>1
<1>6. f \in 1 .. 4
  OBVIOUS
<1>7. /\ Values(other, f) \in SUBSET Int /\ IsFiniteSet(Values(other, f)) /\ Values(other, f) # {}
  BY <1>4, <1>6, ValuesProperties
<1>8. /\ LeastOf(file, f) \in Int /\ GreatestOf(file, f) \in Int
      /\ LeastOf(file, f) \in Values(file, f) /\ GreatestOf(file, f) \in Values(file, f)
      /\ \A n \in 1 .. Len(file) : /\ file[n][f] \in Int
                                   /\ LeastOf(file, f) <= file[n][f]
                                   /\ file[n][f] <= GreatestOf(file, f)
  BY <1>6, ValuesProperties
<1>9. \A a, b, c, d \in Int : c \in Nat /\ a <= b => c * a + d <= c * b + d
  <2> SUFFICES ASSUME NEW a \in Int, NEW b \in Int, NEW c \in Nat, NEW d \in Int, a <= b
               PROVE  c * a + d <= c * b + d
    OBVIOUS
  <2>1. PICK e \in Nat : b = a + e
    <3>1. b - a \in Nat /\ b = a + (b - a)
      OBVIOUS
    <3> QED BY <3>1
  <2>2. c * b = c * a + c * e /\ c * e \in Nat /\ c * a \in Int
    BY <2>1
  <2> QED BY <2>2
<1>10. PICK low, high : low = factor * LeastOf(file, f) + offset /\ high = factor * GreatestOf(file, f) + offset
  OBVIOUS
<1>11. low \in Values(other, f) /\ high \in Values(other, f)
  <2>1. PICK n \in 1 .. Len(file) : file[n][f] = LeastOf(file, f)
    BY <1>8 DEF Values
  <2>2. PICK o \in 1 .. Len(file) : file[o][f] = GreatestOf(file, f)
    BY <1>8 DEF Values
  <2>3. other[n][f] = low /\ other[o][f] = high
    BY <1>3, <1>10, <2>1, <2>2
  <2> QED
    BY <1>4, <2>3 DEF Values
<1>12. ASSUME NEW v \in Values(other, f) PROVE low <= v /\ v <= high
  <2>1. PICK n \in 1 .. Len(file) : v = other[n][f]
    BY <1>4 DEF Values
  <2>2. PICK a \in Int : a = file[n][f] /\ LeastOf(file, f) <= a /\ a <= GreatestOf(file, f)
    BY <1>8
  <2>3. v = factor * a + offset
    BY <1>3, <2>1, <2>2
  <2>4. PICK l, g \in Int : l = LeastOf(file, f) /\ g = GreatestOf(file, f)
    BY <1>8
  <2>5. factor \in Nat /\ factor \in Int
    OBVIOUS
  <2>6. factor * l + offset <= factor * a + offset /\ factor * a + offset <= factor * g + offset
    BY <1>9, <2>2, <2>4, <2>5
  <2> QED
    BY <1>10, <2>3, <2>4, <2>6
<1>13. LeastOf(other, f) = low /\ GreatestOf(other, f) = high
  BY <1>7, <1>11, <1>12, ExtremesAre DEF LeastOf, GreatestOf
<1> QED
  BY <1>3, <1>4, <1>5, <1>10, <1>13 DEF LeastOf, GreatestOf

\* The unit and the origin of a feature do not matter.
LEMMA AnswersMeasured ==
  ASSUME NEW file \in Lines, file # <<>>, NEW f \in 1 .. 3, NEW factor \in Nat \ {0}, NEW offset \in Int,
         NEW r \in 1 .. Len(file) \div 2
  PROVE  Answers(Measured(file, f, factor, offset), r) = Answers(file, r)
<1>1. PICK other : other = Measured(file, f, factor, offset)
  OBVIOUS
<1>2. /\ other \in Lines /\ other # <<>> /\ Len(other) = Len(file)
      /\ \A n \in 1 .. Len(file) :
           /\ other[n][f] = factor * file[n][f] + offset
           /\ \A g \in (1 .. 4) \ {f} : other[n][g] = file[n][g]
      /\ LeastOf(other, f) = factor * LeastOf(file, f) + offset
      /\ GreatestOf(other, f) = factor * GreatestOf(file, f) + offset
      /\ \A g \in (1 .. 4) \ {f} : /\ LeastOf(other, g) = LeastOf(file, g)
                                  /\ GreatestOf(other, g) = GreatestOf(file, g)
  BY <1>1, MeasuredProperties
<1>3. PICK ranges, wider : ranges = Dating(file).ranges /\ wider = Dating(other).ranges
  OBVIOUS
<1>4. /\ ranges = [g \in 1 .. 3 |-> GreatestOf(file, g) - LeastOf(file, g)]
      /\ wider = [g \in 1 .. 3 |-> GreatestOf(other, g) - LeastOf(other, g)]
  BY <1>2, <1>3, DatingProperties
<1>5. \A g \in 1 .. 4 : /\ LeastOf(file, g) \in Int /\ GreatestOf(file, g) \in Int
                        /\ \A n \in 1 .. Len(file) : file[n][g] \in Int
  BY ValuesProperties
<1>6. factor \in Int /\ factor # 0 /\ f \in 1 .. 4 /\ \A g \in 1 .. 3 : g \in 1 .. 4
  OBVIOUS
<1>7. \A a, b \in Int : (factor * a + offset) - (factor * b + offset) = factor * (a - b)
  <2> SUFFICES ASSUME NEW a \in Int, NEW b \in Int
               PROVE  (factor * a + offset) - (factor * b + offset) = factor * (a - b)
    OBVIOUS
  <2>1. factor * a \in Int /\ factor * b \in Int /\ factor * (a - b) = factor * a - factor * b
    BY <1>6
  <2> QED BY <2>1
<1>8. /\ wider[f] = factor * ranges[f] /\ (\A g \in 1 .. 3 : ranges[g] \in Int)
      /\ \A g \in (1 .. 3) \ {f} : wider[g] = ranges[g]
      /\ DOMAIN wider = 1 .. 3 /\ DOMAIN ranges = 1 .. 3
  <2>1. DOMAIN wider = 1 .. 3 /\ DOMAIN ranges = 1 .. 3
    BY <1>4
  <2>2. PICK a, b \in Int : a = GreatestOf(file, f) /\ b = LeastOf(file, f)
    BY <1>5, <1>6
  <2>3. ranges[f] = a - b /\ wider[f] = (factor * a + offset) - (factor * b + offset)
    BY <1>2, <1>4, <2>2
  <2>4. wider[f] = factor * ranges[f]
    BY <1>7, <2>2, <2>3
  <2>5. \A g \in (1 .. 3) \ {f} : wider[g] = ranges[g]
    BY <1>2, <1>4, <1>6
  <2>6. \A g \in 1 .. 3 : ranges[g] \in Int
    BY <1>4, <1>5, <1>6
  <2> QED BY <2>1, <2>4, <2>5, <2>6
<1>9. IsNan(wider) <=> IsNan(ranges)
  <2>1. \A a \in Int : factor * a = 0 <=> a = 0
    BY <1>6
  <2>2. \A g \in 1 .. 3 : wider[g] = 0 <=> ranges[g] = 0
    BY <1>8, <2>1
  <2> QED
    BY <1>8, <2>2 DEF IsNan, Range
<1>10. ASSUME NEW n \in 1 .. Len(file), NEW o \in 1 .. Len(file)
       PROVE  SqDistance(DatingRow(other, n).x, DatingRow(other, o).x, wider)
                = (factor * factor) * SqDistance(DatingRow(file, n).x, DatingRow(file, o).x, ranges)
  <2>1. PICK u, v, x, y : /\ u = DatingRow(other, n).x /\ v = DatingRow(other, o).x
                          /\ x = DatingRow(file, n).x /\ y = DatingRow(file, o).x
    OBVIOUS
  <2>2. Measurable(x, y, ranges) /\ Measurable(u, v, wider)
    BY <1>2, <1>3, <2>1, DatingMeasurable
  <2>3. /\ u = [g \in 1 .. 3 |-> other[n][g] - LeastOf(other, g)]
        /\ v = [g \in 1 .. 3 |-> other[o][g] - LeastOf(other, g)]
        /\ x = [g \in 1 .. 3 |-> file[n][g] - LeastOf(file, g)]
        /\ y = [g \in 1 .. 3 |-> file[o][g] - LeastOf(file, g)]
    BY <2>1 DEF DatingRow
  <2>4. u[f] - v[f] = factor * (x[f] - y[f])
    <3>1. PICK a, b, l \in Int : a = file[n][f] /\ b = file[o][f] /\ l = LeastOf(file, f)
      BY <1>5, <1>6
    <3>2. /\ u[f] = (factor * a + offset) - (factor * l + offset)
          /\ v[f] = (factor * b + offset) - (factor * l + offset)
          /\ x[f] = a - l /\ y[f] = b - l
      BY <1>2, <2>3, <3>1
    <3>4. u[f] = factor * (a - l) /\ v[f] = factor * (b - l)
      BY <1>7, <3>1, <3>2
    <3>3. factor * (a - l) - factor * (b - l) = factor * ((a - l) - (b - l))
      BY <1>6
    <3> QED BY <3>2, <3>3, <3>4
  <2>5. \A g \in (1 .. 3) \ {f} : u[g] - v[g] = x[g] - y[g]
    <3>1. \A g \in (1 .. 3) \ {f} : g \in (1 .. 4) \ {f}
      OBVIOUS
    <3> QED BY <1>2, <2>3, <3>1
  <2>6. SqDistance(u, v, wider) = (factor * factor) * SqDistance(x, y, ranges)
    <3>1. factor \in Nat
      OBVIOUS
    <3>2. DOMAIN wider = DOMAIN ranges /\ f \in DOMAIN ranges /\ wider[f] = factor * ranges[f]
      BY <1>8
    <3>3. \A g \in DOMAIN ranges \ {f} : wider[g] = ranges[g] /\ u[g] - v[g] = x[g] - y[g]
      BY <1>8, <2>5
    <3> QED BY <2>2, <2>4, <3>1, <3>2, <3>3, DistanceScaled
  <2> QED
    BY <2>1, <2>6
<1>11. \A a, b \in Nat : (factor * factor) * a <= (factor * factor) * b <=> a <= b
  <2>1. factor * factor \in Nat /\ factor * factor > 0
    BY <1>6, Squares
  <2>2. \A c \in Nat : c > 0 => \A a, b \in Nat : c * a <= c * b <=> a <= b
    <3> SUFFICES ASSUME NEW c \in Nat, c > 0, NEW a \in Nat, NEW b \in Nat
                 PROVE  c * a <= c * b <=> a <= b
      OBVIOUS
    <3>1. ASSUME NEW d \in Nat, NEW j \in Nat PROVE c * (j + d) = c * j + c * d /\ c * d \in Nat /\ c * j \in Nat
      OBVIOUS
    <3>2. CASE a <= b
      <4>1. b - a \in Nat /\ a + (b - a) = b
        BY <3>2
      <4> QED BY <3>1, <3>2, <4>1
    <3>3. CASE b < a
      <4>1. a - b \in Nat /\ a - b > 0 /\ b + (a - b) = a
        BY <3>3
      <4>2. \A g, h \in Nat : g > 0 /\ h > 0 => g * h > 0
        OBVIOUS
      <4>3. c * (a - b) > 0
        BY <4>1, <4>2
      <4> QED BY <3>1, <3>3, <4>1, <4>3
    <3> QED BY <3>2, <3>3
  <2> QED BY <2>1, <2>2
<1>12. PICK h, m : m = Len(file) /\ h = m \div 2
  OBVIOUS
<1>13. m \in Nat /\ h \in Nat /\ h <= m /\ r \in 1 .. h /\ r \in 1 .. m /\ \A n \in 1 .. m - h : h + n \in 1 .. m
  <2>1. m \in Nat
    BY <1>12, LenProperties DEF Lines
  <2> QED BY <1>12, <2>1
<1>14. PICK test, train, tested, trained :
         /\ test = Dating(file).test[r].x /\ train = Dating(file).train
         /\ tested = Dating(other).test[r].x /\ trained = Dating(other).train
  OBVIOUS
<1>15. /\ test = DatingRow(file, r).x /\ tested = DatingRow(other, r).x
       /\ DOMAIN train = 1 .. m - h /\ DOMAIN trained = 1 .. m - h
       /\ \A n \in 1 .. m - h : train[n] = DatingRow(file, h + n) /\ trained[n] = DatingRow(other, h + n)
  <2>1. /\ Dating(file).test = [n \in 1 .. h |-> DatingRow(file, n)]
        /\ Dating(file).train = [n \in 1 .. m - h |-> DatingRow(file, h + n)]
    BY <1>12, DatingProperties
  <2>2. /\ Dating(other).test = [n \in 1 .. h |-> DatingRow(other, n)]
        /\ Dating(other).train = [n \in 1 .. m - h |-> DatingRow(other, h + n)]
    <3>1. other \in Lines /\ other # <<>> /\ Len(other) = m /\ Len(other) \div 2 = h
      BY <1>2, <1>12
    <3>2. /\ Dating(other).test = [n \in 1 .. Len(other) \div 2 |-> DatingRow(other, n)]
          /\ Dating(other).train = [n \in 1 .. Len(other) - Len(other) \div 2 |->
                                      DatingRow(other, Len(other) \div 2 + n)]
      BY <3>1, DatingProperties
    <3> QED BY <3>1, <3>2
  <2>3. Dating(file).test[r] = DatingRow(file, r) /\ Dating(other).test[r] = DatingRow(other, r)
    BY <1>13, <2>1, <2>2
  <2> QED
    BY <1>14, <2>1, <2>2, <2>3
<1>16. \A n \in 1 .. m - h : trained[n].label = train[n].label
  <2>1. 4 \in (1 .. 4) \ {f}
    OBVIOUS
  <2>2. \A n \in 1 .. m : other[n][4] = file[n][4]
    BY <1>2, <1>12, <2>1
  <2>3. \A n \in 1 .. m - h : train[n].label = file[h + n][4] /\ trained[n].label = other[h + n][4]
    BY <1>15 DEF DatingRow
  <2> QED BY <1>13, <2>2, <2>3
<1>17. \A n \in 1 .. m - h : /\ SqDistance(tested, trained[n].x, wider) = (factor * factor) * SqDistance(test, train[n].x, ranges)
                             /\ SqDistance(test, train[n].x, ranges) \in Nat
  <2>1. ASSUME NEW n \in 1 .. m - h
        PROVE  /\ SqDistance(tested, trained[n].x, wider) = (factor * factor) * SqDistance(test, train[n].x, ranges)
               /\ SqDistance(test, train[n].x, ranges) \in Nat
    <3>1. h + n \in 1 .. Len(file) /\ r \in 1 .. Len(file)
      BY <1>12, <1>13
    <3>2. SqDistance(DatingRow(file, r).x, DatingRow(file, h + n).x, ranges) \in Nat
      BY <1>3, <3>1, DatingMeasurable, DistanceIsSum
    <3> QED BY <1>10, <1>15, <3>1, <3>2
  <2> QED BY <2>1
<1>18. \A n, o \in 1 .. m - h :
         SqDistance(tested, trained[n].x, wider) <= SqDistance(tested, trained[o].x, wider)
           <=> SqDistance(test, train[n].x, ranges) <= SqDistance(test, train[o].x, ranges)
  <2> SUFFICES ASSUME NEW n \in 1 .. m - h, NEW o \in 1 .. m - h
               PROVE  SqDistance(tested, trained[n].x, wider) <= SqDistance(tested, trained[o].x, wider)
                        <=> SqDistance(test, train[n].x, ranges) <= SqDistance(test, train[o].x, ranges)
    OBVIOUS
  <2>1. PICK a, b \in Nat : a = SqDistance(test, train[n].x, ranges) /\ b = SqDistance(test, train[o].x, ranges)
    BY <1>17
  <2>2. SqDistance(tested, trained[n].x, wider) = (factor * factor) * a
        /\ SqDistance(tested, trained[o].x, wider) = (factor * factor) * b
    BY <1>17, <2>1
  <2> QED BY <1>11, <2>1, <2>2
<1>19. Classify0(tested, trained, wider) = Classify0(test, train, ranges)
  <2>1. DOMAIN trained = DOMAIN train /\ \A n \in DOMAIN train : trained[n].label = train[n].label
    BY <1>15, <1>16
  <2>2. \A n, o \in DOMAIN train :
          SqDistance(tested, trained[n].x, wider) <= SqDistance(tested, trained[o].x, wider)
            <=> SqDistance(test, train[n].x, ranges) <= SqDistance(test, train[o].x, ranges)
    BY <1>15, <1>18
  <2> QED BY <1>9, <2>1, <2>2, AnswersSame
<1> QED
  BY <1>1, <1>3, <1>14, <1>19 DEF Answers

-----------------------------------------------------------------------------
(* Labels. *)

\* The class of the row that is tested does not matter.
LEMMA AnswersRelabelled ==
  ASSUME NEW file \in Lines, file # <<>>, NEW r \in 1 .. Len(file) \div 2, NEW c \in Int
  PROVE  Answers([file EXCEPT ![r][4] = c], r) = Answers(file, r)
<1>1. Len(file) \in Nat \ {0} /\ DOMAIN file = 1 .. Len(file)
      /\ \A n \in 1 .. Len(file) : file[n] \in [1 .. 4 -> Int]
  BY EmptySeq, LenProperties, ElementOfSeq DEF Lines
<1>2. PICK h, m : m = Len(file) /\ h = m \div 2
  OBVIOUS
<1>3. m \in Nat /\ m # 0 /\ h \in Nat /\ h <= m /\ r \in 1 .. h /\ r \in 1 .. m
      /\ \A n \in 1 .. m - h : h + n \in 1 .. m /\ h + n # r
  BY <1>1, <1>2
<1>4. PICK other : other = [file EXCEPT ![r][4] = c]
  OBVIOUS
<1>5. /\ other \in [1 .. m -> [1 .. 4 -> Int]]
      /\ \A n \in 1 .. m : \A g \in 1 .. 3 : other[n][g] = file[n][g]
      /\ \A n \in 1 .. m : n # r => other[n] = file[n]
  <2>1. PICK line \in [1 .. 4 -> Int] : line = file[r]
    BY <1>1, <1>2, <1>3
  <2>2. PICK new : new = [line EXCEPT ![4] = c]
    OBVIOUS
  <2>3. new \in [1 .. 4 -> Int] /\ \A g \in 1 .. 3 : new[g] = line[g]
    BY <2>2
  <2>4. other = [file EXCEPT ![r] = new]
    BY <1>4, <2>1, <2>2
  <2>5. file \in [1 .. m -> [1 .. 4 -> Int]]
    BY <1>2, LenProperties DEF Lines
  <2> QED
    BY <1>3, <2>1, <2>3, <2>4, <2>5
<1>6. other \in Lines /\ Len(other) = m /\ other # <<>>
  <2>1. other \in Lines /\ Len(other) = m
    BY <1>3, <1>5, FunctionIsSeq DEF Lines
  <2> QED
    BY <1>3, <2>1, EmptySeq
<1>7. \A g \in 1 .. 3 : Values(other, g) = Values(file, g)
  <2>1. ASSUME NEW g \in 1 .. 3 PROVE Values(other, g) = Values(file, g)
    <3>1. {other[n][g] : n \in 1 .. m} = {file[n][g] : n \in 1 .. m}
      BY <1>5
    <3> QED BY <1>2, <1>6, <3>1 DEF Values
  <2> QED BY <2>1
<1>8. \A g \in 1 .. 3 : LeastOf(other, g) = LeastOf(file, g) /\ GreatestOf(other, g) = GreatestOf(file, g)
  BY <1>7 DEF LeastOf, GreatestOf
<1>9. \A n \in 1 .. m : DatingRow(other, n).x = DatingRow(file, n).x
  <2>1. ASSUME NEW n \in 1 .. m PROVE DatingRow(other, n).x = DatingRow(file, n).x
    <3>1. [g \in 1 .. 3 |-> other[n][g] - LeastOf(other, g)] = [g \in 1 .. 3 |-> file[n][g] - LeastOf(file, g)]
      BY <1>5, <1>8
    <3> QED BY <3>1 DEF DatingRow
  <2> QED BY <2>1
<1>10. \A n \in 1 .. m - h : DatingRow(other, h + n) = DatingRow(file, h + n)
  <2>1. ASSUME NEW n \in 1 .. m - h PROVE DatingRow(other, h + n) = DatingRow(file, h + n)
    <3>1. PICK j \in 1 .. m : j = h + n /\ j # r
      BY <1>3
    <3>2. [g \in 1 .. 3 |-> other[j][g] - LeastOf(other, g)] = [g \in 1 .. 3 |-> file[j][g] - LeastOf(file, g)]
      BY <1>5, <1>8
    <3>3. other[j][4] = file[j][4]
      BY <1>5, <3>1
    <3> QED BY <3>1, <3>2, <3>3 DEF DatingRow
  <2> QED BY <2>1
<1>11. /\ Dating(file).ranges = [g \in 1 .. 3 |-> GreatestOf(file, g) - LeastOf(file, g)]
       /\ Dating(file).test = [n \in 1 .. h |-> DatingRow(file, n)]
       /\ Dating(file).train = [n \in 1 .. m - h |-> DatingRow(file, h + n)]
  BY <1>2, DatingProperties
<1>12. /\ Dating(other).ranges = [g \in 1 .. 3 |-> GreatestOf(other, g) - LeastOf(other, g)]
       /\ Dating(other).test = [n \in 1 .. h |-> DatingRow(other, n)]
       /\ Dating(other).train = [n \in 1 .. m - h |-> DatingRow(other, h + n)]
  <2>1. /\ Dating(other).ranges = [g \in 1 .. 3 |-> GreatestOf(other, g) - LeastOf(other, g)]
        /\ Dating(other).test = [n \in 1 .. Len(other) \div 2 |-> DatingRow(other, n)]
        /\ Dating(other).train = [n \in 1 .. Len(other) - Len(other) \div 2 |->
                                    DatingRow(other, Len(other) \div 2 + n)]
    BY <1>6, DatingProperties
  <2> QED BY <1>2, <1>6, <2>1
<1>13. Dating(other).ranges = Dating(file).ranges
  BY <1>8, <1>11, <1>12
<1>14. Dating(other).train = Dating(file).train
  <2>1. [n \in 1 .. m - h |-> DatingRow(other, h + n)] = [n \in 1 .. m - h |-> DatingRow(file, h + n)]
    BY <1>10
  <2> QED BY <1>11, <1>12, <2>1
<1>15. Dating(other).test[r].x = Dating(file).test[r].x
  <2>1. Dating(other).test[r] = DatingRow(other, r) /\ Dating(file).test[r] = DatingRow(file, r)
    BY <1>3, <1>11, <1>12
  <2> QED BY <1>3, <1>9, <2>1
<1> QED
  BY <1>4, <1>13, <1>14, <1>15 DEF Answers

-----------------------------------------------------------------------------
(* Votes. *)

\* These rows have class c and are nearer than all of the m rows that have another.
Ahead(near, c, x, train, ranges, m) ==
  /\ \A n \in 1 .. m : SqDistance(x, train[n].x, ranges) \in Nat
  /\ \A n \in near : train[n].label = c
  /\ \A n \in near, o \in 1 .. m :
       train[o].label # c => SqDistance(x, train[n].x, ranges) < SqDistance(x, train[o].x, ranges)

\* If most of k rows of a class are nearer than every row of another class, it has
\* the most votes.
LEMMA MajorityWins ==
  ASSUME NEW x, NEW train, NEW ranges, NEW m \in Nat, DOMAIN train = 1 .. m, ~ IsNan(ranges),
         NEW c, NEW near \in SUBSET (1 .. m), Ahead(near, c, x, train, ranges, m),
         2 * Cardinality(near) > k,
         NEW answer \in Classify0(x, train, ranges)
  PROVE  answer = c
<1>0. /\ \A n \in 1 .. m : SqDistance(x, train[n].x, ranges) \in Nat
      /\ \A n \in near : train[n].label = c
      /\ \A n \in near, o \in 1 .. m :
           train[o].label # c => SqDistance(x, train[n].x, ranges) < SqDistance(x, train[o].x, ranges)
  BY DEF Ahead
<1>1. PICK N \in Nearest(x, train, ranges) : answer \in Elected(N, train)
  BY DEF Classify0
<1>2. /\ N \in SUBSET (1 .. m) /\ Cardinality(N) = 3
      /\ \A n \in N, o \in (1 .. m) \ N : SqDistance(x, train[n].x, ranges) <= SqDistance(x, train[o].x, ranges)
  BY <1>1 DEF Nearest, kSubset, k
<1>3. \A S \in SUBSET (1 .. m) : IsFiniteSet(S) /\ Cardinality(S) \in Nat
  <2>1. IsFiniteSet(1 .. m)
    BY FS_Interval
  <2> QED BY <2>1, FS_Subset, FS_CardinalityType
<1>4. PICK votes : votes = [l \in {train[n].label : n \in N} |-> Cardinality({n \in N : train[n].label = l})]
  OBVIOUS
<1>5. /\ answer \in DOMAIN votes /\ \A l \in DOMAIN votes : MoreVotes(votes[answer], votes[l])
  BY <1>1, <1>4 DEF Elected
<1>6. ASSUME answer # c PROVE FALSE
  <2>1. PICK o \in N : train[o].label = answer
    BY <1>4, <1>5
  <2>2. \A n \in near : n \in N
    <3> SUFFICES ASSUME NEW n \in near, n \notin N PROVE FALSE
      OBVIOUS
    <3>1. PICK a, b \in Nat : a = SqDistance(x, train[n].x, ranges) /\ b = SqDistance(x, train[o].x, ranges)
      BY <1>0, <1>2, <2>1
    <3>2. a < b
      BY <1>0, <1>2, <1>6, <2>1, <3>1
    <3>3. b <= a
      BY <1>2, <2>1, <3>1
    <3> QED BY <3>1, <3>2, <3>3
  <2>3. PICK own, theirs : own = {n \in N : train[n].label = c} /\ theirs = {n \in N : train[n].label = answer}
    OBVIOUS
  <2>4. own \in SUBSET (1 .. m) /\ theirs \in SUBSET (1 .. m) /\ near \subseteq own /\ own \cap theirs = {}
        /\ own \cup theirs \subseteq N
    BY <1>0, <1>2, <1>6, <2>2, <2>3
  <2>5. Cardinality(near) <= Cardinality(own)
    BY <1>3, <2>4, FS_Subset
  <2>6. Cardinality(own) + Cardinality(theirs) <= 3
    <3>1. Cardinality(own \cup theirs) = Cardinality(own) + Cardinality(theirs)
      <4>1. Cardinality(own \cap theirs) = 0
        BY <2>4, FS_EmptySet
      <4>2. Cardinality(own \cup theirs) = Cardinality(own) + Cardinality(theirs) - Cardinality(own \cap theirs)
        BY <1>3, <2>4, FS_Union
      <4> QED BY <1>3, <2>4, <4>1, <4>2
    <3>2. Cardinality(own \cup theirs) <= Cardinality(N)
      BY <1>2, <1>3, <2>4, FS_Subset
    <3> QED BY <1>2, <3>1, <3>2
  <2>7. Cardinality(near) >= 2 /\ Cardinality(near) \in Nat
    BY <1>3 DEF k
  <2>8. Cardinality(theirs) >= Cardinality(own)
    <3>1. near # {}
      <4>1. Cardinality({}) = 0
        BY FS_EmptySet
      <4>2. near = {} => Cardinality(near) = 0
        BY <4>1
      <4>3. Cardinality(near) # 0
        BY <2>7
      <4> QED BY <4>2, <4>3
    <3>2. c \in DOMAIN votes
      BY <1>0, <1>4, <2>2, <3>1
    <3>3. votes[c] = Cardinality(own) /\ votes[answer] = Cardinality(theirs)
      BY <1>4, <1>5, <2>3, <3>2
    <3> QED BY <1>5, <3>2, <3>3 DEF MoreVotes
  <2> QED
    BY <1>3, <2>4, <2>5, <2>6, <2>7, <2>8
<1> QED
  BY <1>6

-----------------------------------------------------------------------------
(* The invariant. *)

\* What the files of a program become.
Loaded(p) == IF "file" \in DOMAIN p THEN Dating(p.file) ELSE Handwriting(p)

IsEmptyFile(p) == "file" \in DOMAIN p /\ p.file = <<>>

\* The files are too small to be tested with.
IsSmall(p) ==
  IF "file" \in DOMAIN p THEN Len(p.file) < 2 * k - 1
  ELSE Len(p.train) < k \/ p.test = <<>>

\* The data are what the files become, and an answer is one for the row of the
\* last turn.
IndInv ==
  /\ program \in Programs
  /\ i \in Nat
  /\ pc = "load" => i = 0
  /\ pc # "load" /\ ~ IsEmptyFile(program) => data = Loaded(program)
  /\ pc # "load" /\ IsEmptyFile(program) => pc = "raised" /\ i = 0
  /\ i > 0 => /\ i <= Len(data.test)
              /\ classifierResult \in Classify0(data.test[i].x, data.train, data.ranges)
  /\ pc = "raised" => IsSmall(program)

\* Distances between the rows can be computed, and of files that are large enough there are
\* rows to test and k to train with.
LEMMA LoadedProperties ==
  ASSUME NEW p \in Programs, ~ IsEmptyFile(p), NEW d, d = Loaded(p)
  PROVE  /\ Len(d.test) \in Nat /\ Len(d.train) \in Nat /\ DOMAIN d.train = 1 .. Len(d.train)
         /\ \A t \in 1 .. Len(d.test), n \in 1 .. Len(d.train) :
              Measurable(d.test[t].x, d.train[n].x, d.ranges) /\ DOMAIN d.test[t].x = DOMAIN d.ranges
         /\ Len(d.train) < k \/ Len(d.test) = 0 => IsSmall(p)
<1>1. CASE "file" \in DOMAIN p
  <2>1. PICK file : file = p.file
    OBVIOUS
  <2>2. file \in Lines /\ file # <<>>
    BY <1>1, <2>1, ProgramsAssumption DEF IsEmptyFile, Lines
  <2>3. PICK h, m : m = Len(file) /\ h = m \div 2
    OBVIOUS
  <2>4. m \in Nat /\ h \in Nat /\ h <= m /\ (m - h < 3 \/ h = 0 => m < 5)
        /\ (\A n \in 1 .. m - h : h + n \in 1 .. m) /\ (\A t \in 1 .. h : t \in 1 .. m)
    <3>1. m \in Nat
      BY <2>2, <2>3, LenProperties DEF Lines
    <3> QED BY <2>3, <3>1
  <2>5. /\ Len(d.test) = h /\ Len(d.train) = m - h
        /\ d.test = [n \in 1 .. h |-> DatingRow(file, n)]
        /\ d.train = [n \in 1 .. m - h |-> DatingRow(file, h + n)]
        /\ d.ranges = Dating(file).ranges
    <3>1. d = Dating(file)
      BY <1>1, <2>1 DEF Loaded
    <3> QED BY <2>2, <2>3, <3>1, DatingProperties
  <2>6. /\ \A n, o \in 1 .. m : Measurable(DatingRow(file, n).x, DatingRow(file, o).x, d.ranges)
        /\ DOMAIN d.ranges = 1 .. 3
    BY <2>2, <2>3, <2>5, DatingMeasurable
  <2>7. \A n \in 1 .. m : DOMAIN DatingRow(file, n).x = 1 .. 3
    BY DEF DatingRow
  <2>8. \A t \in 1 .. h, n \in 1 .. m - h :
          Measurable(d.test[t].x, d.train[n].x, d.ranges) /\ DOMAIN d.test[t].x = DOMAIN d.ranges
    <3> SUFFICES ASSUME NEW t \in 1 .. h, NEW n \in 1 .. m - h
                 PROVE  Measurable(d.test[t].x, d.train[n].x, d.ranges) /\ DOMAIN d.test[t].x = DOMAIN d.ranges
      OBVIOUS
    <3>1. d.test[t] = DatingRow(file, t) /\ d.train[n] = DatingRow(file, h + n)
      BY <2>5
    <3> QED BY <2>4, <2>6, <2>7, <3>1
  <2>9. Len(d.train) < k \/ Len(d.test) = 0 => IsSmall(p)
    BY <1>1, <2>1, <2>3, <2>4, <2>5 DEF IsSmall, k
  <2>10. DOMAIN d.train = 1 .. Len(d.train) /\ Len(d.train) \in Nat /\ Len(d.test) \in Nat
    BY <2>4, <2>5
  <2> QED
    BY <2>5, <2>8, <2>9, <2>10
<1>2. CASE "file" \notin DOMAIN p
  <2>1. /\ p.train \in Seq([x : Seq(Int), label : Int])
        /\ p.test \in Seq([x : Seq(Int), label : Int])
        /\ \A row, other \in ToSet(p.train) \cup ToSet(p.test) : Len(row.x) = Len(other.x)
    BY <1>2, ProgramsAssumption
  <2>2. /\ d.train = p.train /\ d.test = p.test
        /\ d.ranges = [f \in UNION {DOMAIN p.train[n].x : n \in DOMAIN p.train} |-> 1]
    BY <1>2 DEF Loaded, Handwriting
  <2>3. /\ Len(p.train) \in Nat /\ DOMAIN p.train = 1 .. Len(p.train)
        /\ Len(p.test) \in Nat /\ DOMAIN p.test = 1 .. Len(p.test)
        /\ \A n \in 1 .. Len(p.train) : p.train[n].x \in Seq(Int)
        /\ \A n \in 1 .. Len(p.test) : p.test[n].x \in Seq(Int)
    <3>1. ASSUME NEW rows \in Seq([x : Seq(Int), label : Int])
          PROVE  /\ Len(rows) \in Nat /\ DOMAIN rows = 1 .. Len(rows)
                 /\ \A n \in 1 .. Len(rows) : rows[n].x \in Seq(Int)
      <4>1. \A n \in 1 .. Len(rows) : rows[n] \in [x : Seq(Int), label : Int]
        BY ElementOfSeq
      <4> QED BY <4>1, LenProperties
    <3> QED BY <2>1, <3>1
  <2>4. ASSUME NEW t \in 1 .. Len(p.test), NEW n \in 1 .. Len(p.train)
        PROVE  Measurable(p.test[t].x, p.train[n].x, d.ranges) /\ DOMAIN p.test[t].x = DOMAIN d.ranges
    <3>1. \A o \in 1 .. Len(p.train) : Len(p.train[o].x) = Len(p.test[t].x)
      BY <2>1, <2>3 DEF ToSet
    <3>2. PICK size : size = Len(p.test[t].x)
      OBVIOUS
    <3>3. size \in Nat /\ DOMAIN p.test[t].x = 1 .. size /\ \A f \in 1 .. size : p.test[t].x[f] \in Int
      BY <2>3, <3>2, LenProperties, ElementOfSeq
    <3>4. \A o \in 1 .. Len(p.train) :
            DOMAIN p.train[o].x = 1 .. size /\ \A f \in 1 .. size : p.train[o].x[f] \in Int
      BY <2>3, <3>1, <3>2, LenProperties, ElementOfSeq
    <3>5. UNION {DOMAIN p.train[o].x : o \in DOMAIN p.train} = 1 .. size
      BY <2>3, <3>4
    <3>6. d.ranges = [f \in 1 .. size |-> 1]
      BY <2>2, <3>5
    <3>7. IsFiniteSet(1 .. size)
      BY <3>3, FS_Interval
    <3> QED
      BY <3>3, <3>4, <3>6, <3>7 DEF Measurable
  <2>5. Len(p.test) = 0 => p.test = <<>>
    BY <2>1, EmptySeq
  <2>6. Len(d.train) < k \/ Len(d.test) = 0 => IsSmall(p)
    BY <1>2, <2>2, <2>5 DEF IsSmall
  <2> QED
    BY <2>2, <2>3, <2>4, <2>6
<1> QED
  BY <1>1, <1>2

\* The invariant is inductive.
LEMMA IndInvHolds == Spec => []IndInv
<1>1. Init => IndInv
  BY DEF Init, IndInv
<1>2. IndInv /\ [Next]_vars => IndInv'
  <2> SUFFICES ASSUME IndInv, [Next]_vars PROVE IndInv'
    OBVIOUS
  <2>1. CASE UNCHANGED vars
    BY <2>1 DEF IndInv, vars
  <2>2. CASE Load
    <3>1. program' = program /\ i' = i /\ i = 0 /\ program \in Programs
      BY <2>2 DEF Load, IndInv
    <3>2. CASE IsEmptyFile(program)
      <4>1. pc' = "raised" /\ Len(program.file) = 0
        BY <2>2, <3>2, EmptySeq DEF Load, IsEmptyFile
      <4>2. IsSmall(program)
        BY <3>2, <4>1 DEF IsSmall, IsEmptyFile, k
      <4> QED
        BY <3>1, <3>2, <4>1, <4>2 DEF IndInv
    <3>3. CASE ~ IsEmptyFile(program)
      <4>1. pc' = "classify" /\ data' = Loaded(program)
        BY <2>2, <3>3 DEF Load, IsEmptyFile, Loaded
      <4> QED
        BY <3>1, <3>3, <4>1 DEF IndInv
    <3> QED BY <3>2, <3>3
  <2>3. CASE Classify
    <3>1. /\ program' = program /\ data' = data /\ i \in Nat /\ program \in Programs /\ i < Len(data.test)
          /\ ~ IsEmptyFile(program) /\ data = Loaded(program)
      BY <2>3 DEF Classify, IndInv
    <3>2. Len(data.test) \in Nat /\ (Len(data.train) < k => IsSmall(program))
      BY <3>1, LoadedProperties
    <3>3. CASE Len(data.train) < k
      <4>1. pc' = "raised" /\ i' = i /\ classifierResult' = classifierResult
        BY <2>3, <3>3 DEF Classify
      <4> QED
        BY <2>3, <3>1, <3>2, <3>3, <4>1 DEF IndInv
    <3>4. CASE ~ (Len(data.train) < k)
      <4>1. /\ pc' = pc /\ pc = "classify" /\ i' = i + 1
            /\ classifierResult' \in Classify0(data.test[i + 1].x, data.train, data.ranges)
        BY <2>3, <3>4 DEF Classify
      <4>2. i + 1 \in Nat /\ i + 1 <= Len(data.test)
        BY <3>1, <3>2
      <4> QED
        BY <3>1, <4>1, <4>2 DEF IndInv
    <3> QED BY <3>3, <3>4
  <2>4. CASE Report
    <3>1. /\ program' = program /\ data' = data /\ i' = i /\ classifierResult' = classifierResult
          /\ i \in Nat /\ program \in Programs /\ i = Len(data.test)
          /\ ~ IsEmptyFile(program) /\ data = Loaded(program) /\ pc' \in {"raised", "returned"}
          /\ (pc' = "raised" => i = 0)
      BY <2>4 DEF Report, IndInv
    <3>2. Len(data.test) = 0 => IsSmall(program)
      BY <3>1, LoadedProperties
    <3> QED
      BY <3>1, <3>2 DEF IndInv
  <2> QED
    BY <2>1, <2>2, <2>3, <2>4 DEF Next
<1> QED
  BY <1>1, <1>2, PTL DEF Spec

-----------------------------------------------------------------------------
(* The theorems. *)

\* A test ends with an error only when its files are too small: with a half of fewer than k
\* rows to train with, or with none to test.
THEOREM RaisesOnlyOnSmallFiles == Spec => []RaisesOnlyWhenSmall
<1>1. IndInv => RaisesOnlyWhenSmall
  BY DEF IndInv, IsSmall, RaisesOnlyWhenSmall
<1> QED
  BY <1>1, IndInvHolds, PTL

\* What datingClassTest answers for a row does not depend on the unit and the origin of a
\* feature, for every factor, since the rows are normalised.
THEOREM AnswersAreUnitFree == Spec => []UnitFree
<1>1. IndInv => UnitFree
  <2> SUFFICES ASSUME IndInv, IsDating, i < Len(data.test), NEW f \in 1 .. 3, NEW factor \in Scales,
                      NEW offset \in {-1, 0, 5}
               PROVE  Answers(Measured(program.file, f, factor, offset), i + 1) = Answers(program.file, i + 1)
    BY DEF UnitFree
  <2>1. /\ program.file \in Lines /\ program.file # <<>> /\ i \in Nat /\ data = Dating(program.file)
    BY ProgramsAssumption DEF IndInv, IsDating, IsEmptyFile, Lines, Loaded
  <2>2. i + 1 \in 1 .. Len(program.file) \div 2
    <3>1. Len(data.test) = Len(program.file) \div 2 /\ Len(program.file) \in Nat
      BY <2>1, DatingProperties, LenProperties DEF Lines
    <3>2. PICK m \in Nat, h \in Nat : m = Len(program.file) /\ h = m \div 2
      BY <3>1
    <3>3. i < h /\ i \in Nat
      BY <2>1, <3>1, <3>2
    <3>4. i + 1 \in 1 .. h
      BY <3>3
    <3> QED BY <3>2, <3>4
  <2>3. factor \in Nat \ {0} /\ offset \in Int
    BY ScalesAssumption
  <2> QED
    BY <2>1, <2>2, <2>3, AnswersMeasured
<1> QED
  BY <1>1, IndInvHolds, PTL

\* What datingClassTest answers for a row does not depend on the class the file has for it.
THEOREM OwnClassesAreUnused == Spec => []OwnClassUnused
<1>1. IndInv => OwnClassUnused
  <2> SUFFICES ASSUME IndInv, IsDating, i < Len(data.test), NEW line \in ToSet(program.file)
               PROVE  Answers([program.file EXCEPT ![i + 1][4] = line[4]], i + 1) = Answers(program.file, i + 1)
    BY DEF OwnClassUnused
  <2>1. /\ program.file \in Lines /\ program.file # <<>> /\ i \in Nat /\ data = Dating(program.file)
    BY ProgramsAssumption DEF IndInv, IsDating, IsEmptyFile, Lines, Loaded
  <2>2. i + 1 \in 1 .. Len(program.file) \div 2
    <3>1. Len(data.test) = Len(program.file) \div 2 /\ Len(program.file) \in Nat
      BY <2>1, DatingProperties, LenProperties DEF Lines
    <3>2. PICK m \in Nat, h \in Nat : m = Len(program.file) /\ h = m \div 2
      BY <3>1
    <3>3. i < h /\ i \in Nat
      BY <2>1, <3>1, <3>2
    <3>4. i + 1 \in 1 .. h
      BY <3>3
    <3> QED BY <3>2, <3>4
  <2>3. line[4] \in Int
    <3>1. PICK n \in 1 .. Len(program.file) : line = program.file[n]
      BY <2>1, LenProperties DEF ToSet, Lines
    <3>2. line \in [1 .. 4 -> Int]
      BY <2>1, <3>1, ElementOfSeq DEF Lines
    <3> QED BY <3>2
  <2> QED
    BY <2>1, <2>2, <2>3, AnswersRelabelled
<1> QED
  BY <1>1, IndInvHolds, PTL

\* The class of the rows that are nearer than every row of other classes, if they are most of
\* k, is what classify0 has answered.
THEOREM NearRowsAlwaysWin == Spec => []NearRowsWin
<1>1. IndInv => NearRowsWin
  <2> SUFFICES ASSUME IndInv, i > 0, ~ IsNan(data.ranges), NEW c, NEW x, x = data.test[i].x, NEW near,
                      near = {n \in DOMAIN data.train :
                                /\ data.train[n].label = c
                                /\ \A other \in ToSet(data.train) :
                                     other.label # c => Nearer(x, data.train[n], other)},
                      2 * Cardinality(near) > k
               PROVE  classifierResult = c
    BY DEF NearRowsWin
  <2>1. /\ program \in Programs /\ ~ IsEmptyFile(program) /\ data = Loaded(program)
        /\ i \in 1 .. Len(data.test)
        /\ classifierResult \in Classify0(x, data.train, data.ranges)
    <3>1. /\ program \in Programs /\ ~ IsEmptyFile(program) /\ data = Loaded(program) /\ i \in Nat
          /\ i <= Len(data.test)
          /\ classifierResult \in Classify0(x, data.train, data.ranges)
      BY DEF IndInv
    <3>2. Len(data.test) \in Nat
      BY <3>1, LoadedProperties
    <3> QED BY <3>1, <3>2
  <2>2. PICK train, ranges, m : train = data.train /\ ranges = data.ranges /\ m = Len(data.train)
    OBVIOUS
  <2>3. /\ m \in Nat /\ DOMAIN train = 1 .. m /\ ~ IsNan(ranges)
        /\ \A n \in 1 .. m : Measurable(x, train[n].x, ranges)
        /\ 1 .. m # {} => DOMAIN x = DOMAIN ranges
    BY <2>1, <2>2, LoadedProperties
  <2>4. \A n \in 1 .. m : SqDistance(x, train[n].x, ranges) \in Nat
    BY <2>3, DistanceIsSum
  <2>5. near \in SUBSET (1 .. m) /\ \A n \in near : train[n].label = c
    BY <2>2, <2>3
  <2>6. ASSUME NEW n \in near, NEW o \in 1 .. m, train[o].label # c
        PROVE  SqDistance(x, train[n].x, ranges) < SqDistance(x, train[o].x, ranges)
    <3>1. train[o] \in ToSet(train)
      BY <2>3 DEF ToSet
    <3>2. Nearer(x, train[n], train[o])
      BY <2>2, <2>6, <3>1
    <3> QED
      BY <2>3, <2>5, <3>2, NearerIsLess
  <2>7. \A n \in near, o \in 1 .. m :
          train[o].label # c => SqDistance(x, train[n].x, ranges) < SqDistance(x, train[o].x, ranges)
    BY <2>6
  <2>8. PICK answer : answer = classifierResult
    OBVIOUS
  <2>9. answer \in Classify0(x, train, ranges)
    BY <2>1, <2>2, <2>8
  <2>10. answer = c
    <3>1. Ahead(near, c, x, train, ranges, m)
      BY <2>4, <2>5, <2>7 DEF Ahead
    <3> QED BY <2>3, <2>5, <2>9, <3>1, MajorityWins
  <2> QED
    BY <2>8, <2>10
<1> QED
  BY <1>1, IndInvHolds, PTL

=============================================================================
