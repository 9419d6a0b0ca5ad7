---------------------------- MODULE LearnerProofs ----------------------------
(***************************************************************************)
(* Proofs about createTree and classify, for training sets of every size   *)
(* and every number of features and classes; about the picture that        *)
(* createPlot draws of the tree; and about the three ascents, for matrices *)
(* of every size, every number of rounds and of tests, and every sequence  *)
(* of random draws.                                                        *)
(***************************************************************************)
EXTENDS TreePlotter, GradientAscent, DataLemmas

-----------------------------------------------------------------------------
(* What a half built tree is: the nodes that are there, and the calls of   *)
(* createTree that are still to come, one for each branch without a node.  *)

IsSeq(s) == s \in Seq(ToSet(s))

\* The names of the features of D, and the feature that has a name.
Columns(D) == Len(D[1]) - 1
FeatNames(D) == SubSeq(Labels, 1, Columns(D))
Feature(D, label) == CHOOSE n \in DOMAIN FeatNames(D) : FeatNames(D)[n] = label

\* The feature that the k-th key of a path is a value of.
KeyOf(D, tree, path, k) == Feature(D, tree[SubSeq(path, 1, k - 1)].name)

\* The training rows that agree with all keys of a path.
Agreeing(D, tree, path) ==
  {row \in ToSet(D) : \A k \in DOMAIN path : row[KeyOf(D, tree, path, k)] = path[k]}

\* The rows with a value of the feature that has a name.
Having(D, label, v) == {row \in ToSet(D) : row[Feature(D, label)] = v}

\* The columns of a row that labs names, and its class.
Part(D, labs, row) == Append([k \in DOMAIN labs |-> row[Feature(D, labs[k])]], Last(row))

\* The arguments of a call are what its path says.
Fits(D, tree, path, data, labs) ==
  LET rows == Selected(D, Agreeing(D, tree, path)) IN
  /\ labs \in Seq(ToSet(FeatNames(D)))
  /\ data = [n \in DOMAIN rows |-> Part(D, labs, rows[n])]
  /\ \A f \in 1 .. Columns(D) :
       FeatNames(D)[f] \in ToSet(labs) \/ \E k \in DOMAIN path : KeyOf(D, tree, path, k) = f

CallOK(D, tree, c) ==
  /\ IsSeq(c.data) /\ c.data # <<>>
  /\ OnFeatures(c.path) => Fits(D, tree, c.path, c.data, c.labels)

\* All nodes above a path are dicts.
Rooted(tree, path) ==
  \A k \in DOMAIN path :
    SubSeq(path, 1, k - 1) \in DOMAIN tree /\ tree[SubSeq(path, 1, k - 1)].kind = "dict"

Known(tree, todo) == DOMAIN tree \cup {c.path : c \in todo}

Shape(tree, todo) ==
  /\ IsFiniteSet(DOMAIN tree)
  /\ <<>> \in Known(tree, todo)
  /\ \A p \in Known(tree, todo) : IsSeq(p) /\ Rooted(tree, p)
  /\ \A p \in DOMAIN tree : tree[p].kind \in {"leaf", "dict"}
  /\ \A c \in todo : c.path \notin DOMAIN tree

\* A dict has a branch, and one for each training row that comes to it, unless
\* its branches are for classes.
DictOK(D, tree, known, p) ==
  /\ \E q \in known : q # <<>> /\ Front(q) = p
  /\ OnFeatures(p) =>
       /\ tree[p].name \in ToSet(FeatNames(D))
       /\ \/ \A row \in Agreeing(D, tree, p) : Append(p, row[Feature(D, tree[p].name)]) \in known
          \/ \E c \in Classes : Append(p, c) \in known

\* A leaf is the class of all training rows that come to it, or one that most of
\* them have when all their features are equal.
LeafOK(D, tree, p) ==
  OnFeatures(p) =>
    /\ tree[p].name \in Classes
    /\ \/ \A row \in Agreeing(D, tree, p) : Last(row) = tree[p].name
       \/ /\ \A f \in 1 .. Columns(D) : \E k \in DOMAIN p : KeyOf(D, tree, p, k) = f
          /\ \A c \in Classes :
               ClassCount(Selected(D, Agreeing(D, tree, p)), c)
                 <= ClassCount(Selected(D, Agreeing(D, tree, p)), tree[p].name)

NodeOK(D, tree, known, p) ==
  /\ tree[p].kind = "dict" => DictOK(D, tree, known, p)
  /\ tree[p].kind = "leaf" => LeafOK(D, tree, p)

Built(D, tree, todo) ==
  /\ Shape(tree, todo)
  /\ \A c \in todo : CallOK(D, tree, c)
  /\ \A p \in DOMAIN tree : NodeOK(D, tree, Known(tree, todo), p)

\* The calls that the loops on the stack will make.
CallFor(frame, v) ==
  [path |-> Append(frame.path, v), data |-> SplitDataSet(frame.data, frame.axis, v), labels |-> frame.labels]
CallsOf(frame) == {CallFor(frame, v) : v \in frame.values}
StackCalls(st) == UNION {CallsOf(st[k]) : k \in DOMAIN st}

Todo == StackCalls(stack) \cup (IF pc = "createTree" THEN {call} ELSE {})

IsFrame(frame) == DOMAIN frame = {"path", "data", "axis", "labels", "values"}

\* The loops are one for each node from the root to here, and none goes back to
\* the value by which it got here.
Chain(tree, st, here) ==
  /\ IsSeq(st)
  /\ \A k \in DOMAIN st :
       /\ IsFrame(st[k])
       /\ st[k].path = SubSeq(here, 1, k - 1)
       /\ k \in DOMAIN here => here[k] \notin st[k].values
       /\ st[k].path \in DOMAIN tree

Chained ==
  /\ pc = "createTree" => Chain(myTree, stack, call.path) /\ Len(stack) = Len(call.path)
  /\ pc = "branch" => stack # <<>> /\ Chain(myTree, stack, Last(stack).path) /\ Len(stack) = Len(Last(stack).path) + 1
  /\ pc \notin {"createTree", "branch"} => stack = <<>>

BuildInv == dataSet \in Datasets /\ Built(dataSet, myTree, Todo) /\ Chained

\* classify goes down along keys of the vector.
Descends ==
  /\ pc \notin {"classify", "classified"} => at = <<>>
  /\ pc = "classify" /\ caller = "copies" /\ SplitsOnFeatures /\ myTree[<<>>].kind = "dict" =>
       /\ at \in DOMAIN myTree /\ myTree[at].kind = "dict"
       /\ \A k \in DOMAIN at : testVec[KeyOf(dataSet, myTree, at, k)] = at[k]

-----------------------------------------------------------------------------
(* Paths. *)

\* A sequence of elements of any set is one of its own elements.
LEMMA SeqIsSeq ==
  ASSUME NEW A, NEW s \in Seq(A)
  PROVE  IsSeq(s) /\ ToSet(s) \subseteq A
<1>1. PICK m \in Nat : m = Len(s)
  BY LenProperties
<1>2. s \in [1 .. m -> A] /\ DOMAIN s = 1 .. m
  BY <1>1, LenProperties
<1>3. ToSet(s) \subseteq A /\ s \in [1 .. m -> ToSet(s)]
  BY <1>2 DEF ToSet
<1> QED BY <1>3, SeqDef DEF IsSeq

\* A key more at the end of a path.
LEMMA PathAppend ==
  ASSUME NEW p, IsSeq(p), NEW v
  PROVE  /\ IsSeq(Append(p, v)) /\ Append(p, v) # <<>>
         /\ Len(p) \in Nat /\ DOMAIN p = 1 .. Len(p)
         /\ Len(Append(p, v)) = Len(p) + 1 /\ DOMAIN Append(p, v) = 1 .. Len(p) + 1
         /\ Append(p, v)[Len(p) + 1] = v /\ \A n \in 1 .. Len(p) : Append(p, v)[n] = p[n]
         /\ \A n \in 0 .. Len(p) : SubSeq(Append(p, v), 1, n) = SubSeq(p, 1, n)
         /\ SubSeq(p, 1, Len(p)) = p
         /\ Front(Append(p, v)) = p /\ Last(Append(p, v)) = v
         /\ ToSet(Append(p, v)) = ToSet(p) \cup {v}
<1> DEFINE S == ToSet(p) \cup {v}
           q == Append(p, v)
<1>1. PICK m \in Nat : m = Len(p)
  BY LenProperties DEF IsSeq
<1>2. p \in Seq(S) /\ v \in S
  BY SeqMonotonic DEF IsSeq
<1>3. DOMAIN p = 1 .. m /\ \A n \in 1 .. m : p[n] \in S
  BY <1>1, <1>2, LenProperties, ElementOfSeq
<1>4. /\ q \in Seq(S) /\ q # <<>> /\ Len(q) = m + 1 /\ q[m + 1] = v
      /\ \A n \in 1 .. m : q[n] = p[n]
  BY <1>1, <1>2, AppendProperties
<1>5. DOMAIN q = 1 .. m + 1
  BY <1>4, LenProperties
<1>6. ToSet(q) = S
  <2>1. ToSet(q) = {q[n] : n \in 1 .. m + 1} /\ ToSet(p) = {p[n] : n \in 1 .. m}
    BY <1>3, <1>5 DEF ToSet
  <2> HIDE DEF q
  <2> QED BY <1>4, <2>1
<1> HIDE DEF q, S
<1>7. SubSeq(p, 1, m) = p
  BY <1>1, <1>2, SubSeqFull
<1>8. ASSUME NEW n \in 0 .. m PROVE SubSeq(q, 1, n) = SubSeq(p, 1, n)
  <2>1. \A k \in 1 .. n : p[k] \in S /\ q[k] \in S /\ q[k] = p[k]
    BY <1>3, <1>4
  <2>2. /\ SubSeq(p, 1, n) \in Seq(S)
        /\ Len(SubSeq(p, 1, n)) = IF 1 <= n THEN n - 1 + 1 ELSE 0
        /\ \A k \in 1 .. n - 1 + 1 : SubSeq(p, 1, n)[k] = p[1 + k - 1]
    BY <2>1, SubSeqProperties
  <2>3. /\ SubSeq(q, 1, n) \in Seq(S)
        /\ Len(SubSeq(q, 1, n)) = IF 1 <= n THEN n - 1 + 1 ELSE 0
        /\ \A k \in 1 .. n - 1 + 1 : SubSeq(q, 1, n)[k] = q[1 + k - 1]
    BY <2>1, SubSeqProperties
  <2>4. Len(SubSeq(p, 1, n)) = n /\ Len(SubSeq(q, 1, n)) = n
    BY <2>2, <2>3
  <2>5. \A k \in 1 .. n : SubSeq(p, 1, n)[k] = p[k] /\ SubSeq(q, 1, n)[k] = q[k]
    BY <2>2, <2>3
  <2>6. \A k \in 1 .. n : SubSeq(q, 1, n)[k] = SubSeq(p, 1, n)[k]
    BY <2>1, <2>5
  <2> QED BY <2>2, <2>3, <2>4, <2>6, SeqEqual
<1>9. Front(q) = p
  BY <1>1, <1>4, <1>7, <1>8 DEF Front
<1>10. Last(q) = v
  BY <1>1, <1>4 DEF Last
<1> QED BY <1>1, <1>3, <1>4, <1>5, <1>6, <1>7, <1>8, <1>9, <1>10 DEF IsSeq, q, S

\* The beginnings of a path.
LEMMA PathPrefix ==
  ASSUME NEW p, IsSeq(p), NEW n \in 0 .. Len(p)
  PROVE  /\ IsSeq(SubSeq(p, 1, n)) /\ Len(SubSeq(p, 1, n)) = n /\ DOMAIN SubSeq(p, 1, n) = 1 .. n
         /\ \A k \in 1 .. n : SubSeq(p, 1, n)[k] = p[k]
         /\ \A k \in 0 .. n : SubSeq(SubSeq(p, 1, n), 1, k) = SubSeq(p, 1, k)
         /\ ToSet(SubSeq(p, 1, n)) \subseteq ToSet(p)
<1> DEFINE S == ToSet(p)
           q == SubSeq(p, 1, n)
<1>1. PICK m \in Nat : m = Len(p)
  BY LenProperties DEF IsSeq
<1>2. p \in Seq(S) /\ DOMAIN p = 1 .. m /\ n \in 0 .. m /\ \A k \in 1 .. m : p[k] \in S
  BY <1>1, LenProperties, ElementOfSeq DEF IsSeq
<1> HIDE DEF S
<1>3. ASSUME NEW k \in 0 .. m
      PROVE  /\ SubSeq(p, 1, k) \in Seq(S) /\ Len(SubSeq(p, 1, k)) = k
             /\ \A l \in 1 .. k : SubSeq(p, 1, k)[l] = p[l]
  <2>1. \A l \in 1 .. k : p[l] \in S
    BY <1>2
  <2>2. /\ SubSeq(p, 1, k) \in Seq(S)
        /\ Len(SubSeq(p, 1, k)) = IF 1 <= k THEN k - 1 + 1 ELSE 0
        /\ \A l \in 1 .. k - 1 + 1 : SubSeq(p, 1, k)[l] = p[1 + l - 1]
    BY <2>1, SubSeqProperties
  <2> QED BY <2>2
<1>4. q \in Seq(S) /\ Len(q) = n /\ \A k \in 1 .. n : q[k] = p[k]
  BY <1>2, <1>3
<1>5. DOMAIN q = 1 .. n
  BY <1>4, LenProperties
<1>6. ToSet(q) \subseteq S
  BY <1>2, <1>4, <1>5 DEF ToSet
<1>7. q \in Seq(ToSet(q))
  BY <1>4, SeqIsSeq DEF IsSeq
<1>8. ASSUME NEW k \in 0 .. n PROVE SubSeq(q, 1, k) = SubSeq(p, 1, k)
  <2> HIDE DEF q
  <2>1. \A l \in 1 .. k : q[l] \in S
    BY <1>2, <1>4
  <2>2. /\ SubSeq(q, 1, k) \in Seq(S)
        /\ Len(SubSeq(q, 1, k)) = IF 1 <= k THEN k - 1 + 1 ELSE 0
        /\ \A l \in 1 .. k - 1 + 1 : SubSeq(q, 1, k)[l] = q[1 + l - 1]
    BY <2>1, SubSeqProperties
  <2>3. Len(SubSeq(q, 1, k)) = k /\ \A l \in 1 .. k : SubSeq(q, 1, k)[l] = q[l]
    BY <2>2
  <2>4. SubSeq(p, 1, k) \in Seq(S) /\ Len(SubSeq(p, 1, k)) = k /\ \A l \in 1 .. k : SubSeq(p, 1, k)[l] = p[l]
    BY <1>2, <1>3
  <2>5. \A l \in 1 .. k : SubSeq(q, 1, k)[l] = SubSeq(p, 1, k)[l]
    BY <1>2, <1>4, <2>3, <2>4
  <2> QED BY <2>2, <2>3, <2>4, <2>5, SeqEqual
<1> QED BY <1>4, <1>5, <1>6, <1>7, <1>8 DEF IsSeq, S

\* Paths with the same keys are the same.
LEMMA PathEqual ==
  ASSUME NEW p, IsSeq(p), NEW q, IsSeq(q), Len(p) = Len(q), \A n \in 1 .. Len(p) : p[n] = q[n]
  PROVE  p = q
<1>1. p \in Seq(ToSet(p) \cup ToSet(q)) /\ q \in Seq(ToSet(p) \cup ToSet(q))
  BY SeqMonotonic DEF IsSeq
<1> QED BY <1>1, SeqEqual

\* Paths have lengths.
LEMMA PathLength ==
  ASSUME NEW p, IsSeq(p)
  PROVE  Len(p) \in Nat /\ DOMAIN p = 1 .. Len(p) /\ SubSeq(p, 1, Len(p)) = p
BY PathAppend

\* The path of a node and its last key.
LEMMA PathFront ==
  ASSUME NEW p, IsSeq(p), p # <<>>
  PROVE  /\ IsSeq(Front(p)) /\ Len(p) \in Nat \ {0} /\ Len(Front(p)) = Len(p) - 1
         /\ p = Append(Front(p), Last(p)) /\ Front(p) = SubSeq(p, 1, Len(p) - 1)
<1>1. Len(p) \in Nat \ {0}
  BY EmptySeq DEF IsSeq
<1>2. Front(p) = SubSeq(p, 1, Len(p) - 1) /\ Last(p) = p[Len(p)]
  BY DEF Front, Last
<1>3. IsSeq(Front(p)) /\ Len(Front(p)) = Len(p) - 1 /\ \A k \in 1 .. Len(p) - 1 : Front(p)[k] = p[k]
  <2>0. PICK m \in Nat \ {0} : m = Len(p)
    BY <1>1
  <2>1. PICK n \in 0 .. Len(p) : n = Len(p) - 1
    <3>1. m - 1 \in 0 .. m
      OBVIOUS
    <3> QED BY <2>0, <3>1
  <2>2. IsSeq(SubSeq(p, 1, n)) /\ Len(SubSeq(p, 1, n)) = n /\ \A k \in 1 .. n : SubSeq(p, 1, n)[k] = p[k]
    BY PathPrefix
  <2> QED BY <1>2, <2>1, <2>2
<1>4. PICK f : f = Front(p)
  OBVIOUS
<1>5. PICK m \in Nat \ {0} : m = Len(p)
  BY <1>1
<1>6. /\ IsSeq(Append(f, Last(p))) /\ Len(Append(f, Last(p))) = (m - 1) + 1
      /\ Append(f, Last(p))[(m - 1) + 1] = Last(p)
      /\ \A n \in 1 .. m - 1 : Append(f, Last(p))[n] = f[n]
  <2>1. IsSeq(f) /\ Len(f) = m - 1
    BY <1>3, <1>4, <1>5
  <2> QED BY <2>1, PathAppend
<1>7. \A n \in 1 .. m : Append(f, Last(p))[n] = p[n]
  BY <1>2, <1>3, <1>4, <1>5, <1>6
<1>8. p = Append(f, Last(p))
  <2>1. PICK q : q = Append(f, Last(p))
    OBVIOUS
  <2>2. IsSeq(q) /\ Len(p) = Len(q) /\ \A n \in 1 .. Len(p) : p[n] = q[n]
    BY <1>5, <1>6, <1>7, <2>1
  <2> QED BY <2>1, <2>2, PathEqual
<1> QED BY <1>1, <1>2, <1>3, <1>4, <1>8

\* The path of the root has no keys.
LEMMA EmptyPath == IsSeq(<<>>) /\ Len(<<>>) = 0 /\ DOMAIN <<>> = {} /\ ToSet(<<>>) = {}
<1>1. DOMAIN <<>> = {}
  OBVIOUS
<1> QED BY <1>1, EmptySeq DEF IsSeq, ToSet

-----------------------------------------------------------------------------
(* Training sets and what a split takes of them. *)

\* What is assumed of a training set, and that features and names are one to one.
LEMMA TrainingSet ==
  ASSUME NEW D \in Datasets
  PROVE  /\ D \in Seq(ToSet(D)) /\ D # <<>> /\ Len(D) \in Nat \ {0} /\ DOMAIN D = 1 .. Len(D)
         /\ Columns(D) \in Nat
         /\ FeatNames(D) \in Seq(ToSet(FeatNames(D)))
         /\ Len(FeatNames(D)) = Columns(D) /\ DOMAIN FeatNames(D) = 1 .. Columns(D)
         /\ \A f \in 1 .. Columns(D) :
              FeatNames(D)[f] \in ToSet(FeatNames(D)) /\ Feature(D, FeatNames(D)[f]) = f
         /\ \A l \in ToSet(FeatNames(D)) :
              Feature(D, l) \in 1 .. Columns(D) /\ FeatNames(D)[Feature(D, l)] = l
         /\ \A row \in ToSet(D) :
              IsSeq(row) /\ Len(row) = Columns(D) + 1 /\ DOMAIN row = 1 .. Columns(D) + 1
              /\ Last(row) \in Classes
<1>1. /\ D \in Seq(ToSet(D)) /\ D # <<>>
      /\ \A row \in ToSet(D) :
           /\ row \in Seq(ToSet(row))
           /\ Len(row) = Len(D[1]) /\ Len(row) \in 1 .. Len(Labels) + 1
           /\ Last(row) \in Classes
  BY DatasetsAssumption
<1>2. Len(D) \in Nat \ {0} /\ DOMAIN D = 1 .. Len(D)
  BY <1>1, EmptySeq, LenProperties
<1>3. D[1] \in ToSet(D)
  BY <1>2 DEF ToSet
<1>4. PICK L \in Nat : L = Len(Labels)
  BY LabelsAssumption, LenProperties
<1>5. PICK n \in 0 .. L : n = Columns(D)
  <2>1. Len(D[1]) \in 1 .. L + 1
    BY <1>1, <1>3, <1>4
  <2>2. PICK w \in 1 .. L + 1 : w = Len(D[1])
    BY <2>1
  <2>3. Columns(D) = w - 1
    BY <2>2 DEF Columns
  <2> QED BY <1>4, <2>3
<1>6. /\ IsSeq(FeatNames(D)) /\ Len(FeatNames(D)) = n /\ DOMAIN FeatNames(D) = 1 .. n
      /\ \A k \in 1 .. n : FeatNames(D)[k] = Labels[k]
  <2>1. IsSeq(Labels) /\ FeatNames(D) = SubSeq(Labels, 1, n)
    BY <1>5, LabelsAssumption DEF IsSeq, FeatNames
  <2> QED BY <1>4, <2>1, PathPrefix
<1>7. \A k, l \in 1 .. n : FeatNames(D)[k] = FeatNames(D)[l] => k = l
  <2>1. DOMAIN Labels = 1 .. L
    BY <1>4, LabelsAssumption, LenProperties
  <2> QED BY <1>5, <1>6, <2>1, LabelsAssumption DEF IsInjective
<1>8. \A f \in 1 .. n : FeatNames(D)[f] \in ToSet(FeatNames(D)) /\ Feature(D, FeatNames(D)[f]) = f
  <2> SUFFICES ASSUME NEW f \in 1 .. n
               PROVE  FeatNames(D)[f] \in ToSet(FeatNames(D)) /\ Feature(D, FeatNames(D)[f]) = f
    OBVIOUS
  <2>1. FeatNames(D)[f] \in ToSet(FeatNames(D))
    BY <1>6 DEF ToSet
  <2>2. Feature(D, FeatNames(D)[f]) = CHOOSE k \in 1 .. n : FeatNames(D)[k] = FeatNames(D)[f]
    BY <1>6 DEF Feature
  <2> QED BY <1>7, <2>1, <2>2
<1>9. \A l \in ToSet(FeatNames(D)) : Feature(D, l) \in 1 .. n /\ FeatNames(D)[Feature(D, l)] = l
  <2> SUFFICES ASSUME NEW l \in ToSet(FeatNames(D))
               PROVE  Feature(D, l) \in 1 .. n /\ FeatNames(D)[Feature(D, l)] = l
    OBVIOUS
  <2>1. PICK f \in 1 .. n : FeatNames(D)[f] = l
    BY <1>6 DEF ToSet
  <2> QED BY <1>8, <2>1
<1>10. ASSUME NEW row \in ToSet(D)
       PROVE  IsSeq(row) /\ Len(row) = n + 1 /\ DOMAIN row = 1 .. n + 1 /\ Last(row) \in Classes
  <2>1. row \in Seq(ToSet(row)) /\ Last(row) \in Classes /\ Len(row) = Len(D[1]) /\ Len(row) \in Nat
    BY <1>1, LenProperties
  <2>2. Len(row) = n + 1
    BY <1>5, <2>1 DEF Columns
  <2>3. DOMAIN row = 1 .. Len(row)
    BY <2>1, LenProperties
  <2> QED BY <2>1, <2>2, <2>3 DEF IsSeq
<1> QED BY <1>1, <1>2, <1>5, <1>6, <1>8, <1>9, <1>10 DEF IsSeq

\* A part of a row has the columns that are named, and the class.
LEMMA PartProperties ==
  ASSUME NEW D, NEW labs, IsSeq(labs), NEW row
  PROVE  /\ IsSeq(Part(D, labs, row))
         /\ Len(labs) \in Nat /\ Len(Part(D, labs, row)) = Len(labs) + 1
         /\ DOMAIN Part(D, labs, row) = 1 .. Len(labs) + 1
         /\ \A k \in 1 .. Len(labs) : Part(D, labs, row)[k] = row[Feature(D, labs[k])]
         /\ Part(D, labs, row)[Len(labs) + 1] = Last(row)
         /\ Last(Part(D, labs, row)) = Last(row)
<1> DEFINE cells == [k \in DOMAIN labs |-> row[Feature(D, labs[k])]]
<1>1. PICK m \in Nat : m = Len(labs)
  BY LenProperties DEF IsSeq
<1>2. DOMAIN labs = 1 .. m
  BY <1>1, LenProperties DEF IsSeq
<1>3. cells \in [1 .. m -> ToSet(cells)] /\ DOMAIN cells = 1 .. m
  BY <1>2 DEF ToSet
<1>4. /\ Part(D, labs, row) = Append(cells, Last(row))
      /\ \A k \in 1 .. m : cells[k] = row[Feature(D, labs[k])]
  BY <1>2 DEF Part
<1> HIDE DEF cells
<1>5. IsSeq(cells) /\ Len(cells) = m
  <2>1. cells \in Seq(ToSet(cells))
    BY <1>3, SeqDef
  <2> QED BY <1>3, <2>1, LenProperties DEF IsSeq
<1>6. /\ IsSeq(Append(cells, Last(row))) /\ Len(Append(cells, Last(row))) = m + 1
      /\ DOMAIN Append(cells, Last(row)) = 1 .. m + 1
      /\ Append(cells, Last(row))[m + 1] = Last(row)
      /\ \A n \in 1 .. m : Append(cells, Last(row))[n] = cells[n]
      /\ Last(Append(cells, Last(row))) = Last(row)
  BY <1>5, PathAppend
<1> QED BY <1>1, <1>4, <1>6

\* Chopping a column out of a part is chopping its name out of the names.
LEMMA PartChopped ==
  ASSUME NEW D, NEW labs, IsSeq(labs), NEW row, NEW axis \in 1 .. Len(labs)
  PROVE  Chop(Part(D, labs, row), axis) = Part(D, RemoveAt(labs, axis), row)
<1> DEFINE part == Part(D, labs, row)
           rest == RemoveAt(labs, axis)
           left == RemoveAt(part, axis)
           right == Part(D, rest, row)
<1>1. PICK m \in Nat : m = Len(labs)
  BY LenProperties DEF IsSeq
<1>2. /\ IsSeq(part) /\ Len(part) = m + 1 /\ DOMAIN part = 1 .. m + 1
      /\ \A k \in 1 .. m : part[k] = row[Feature(D, labs[k])]
      /\ part[m + 1] = Last(row)
  BY <1>1, PartProperties
<1>3. /\ rest \in Seq(ToSet(labs)) /\ Len(rest) = m - 1
      /\ \A n \in 1 .. m - 1 : rest[n] = IF n < axis THEN labs[n] ELSE labs[n + 1]
  BY <1>1, RemoveAtProperties DEF IsSeq
<1> HIDE DEF part
<1>4. /\ left \in Seq(ToSet(part)) /\ Len(left) = (m + 1) - 1
      /\ \A n \in 1 .. (m + 1) - 1 : left[n] = IF n < axis THEN part[n] ELSE part[n + 1]
  <2>1. part \in Seq(ToSet(part)) /\ axis \in 1 .. Len(part)
    BY <1>1, <1>2 DEF IsSeq
  <2>2. PICK n : n = Len(part)
    OBVIOUS
  <2>3. /\ left \in Seq(ToSet(part)) /\ Len(left) = Len(part) - 1
        /\ \A k \in 1 .. Len(part) - 1 : left[k] = IF k < axis THEN part[k] ELSE part[k + 1]
    BY <2>1, RemoveAtProperties
  <2> QED BY <1>2, <2>3
<1> HIDE DEF rest
<1>5. IsSeq(rest)
  BY <1>3, SeqIsSeq
<1>6. /\ IsSeq(right) /\ Len(right) = (m - 1) + 1
      /\ \A k \in 1 .. m - 1 : right[k] = row[Feature(D, rest[k])]
      /\ right[(m - 1) + 1] = Last(row)
  BY <1>3, <1>5, PartProperties
<1> HIDE DEF left, right
<1>7. IsSeq(left)
  BY <1>4, SeqIsSeq
<1>8. \A n \in 1 .. m : left[n] = right[n]
  <2> SUFFICES ASSUME NEW n \in 1 .. m PROVE left[n] = right[n]
    OBVIOUS
  <2>1. CASE n = m
    BY <1>1, <1>2, <1>4, <1>6, <2>1
  <2>2. CASE n < axis
    <3>1. n \in 1 .. m - 1
      BY <1>1, <2>2
    <3>2. left[n] = part[n] /\ rest[n] = labs[n]
      BY <1>3, <1>4, <2>2, <3>1
    <3> QED BY <1>2, <1>6, <3>1, <3>2
  <2>3. CASE n >= axis /\ n # m
    <3>1. n \in 1 .. m - 1 /\ ~ (n < axis) /\ n + 1 \in 1 .. m
      BY <1>1, <2>3
    <3>2. left[n] = part[n + 1] /\ rest[n] = labs[n + 1]
      BY <1>3, <1>4, <3>1
    <3> QED BY <1>2, <1>6, <3>1, <3>2
  <2> QED BY <1>1, <2>1, <2>2, <2>3
<1>9. left = right
  BY <1>4, <1>6, <1>7, <1>8, PathEqual
<1>10. Chop(part, axis) = left
  BY <1>1 DEF Chop, left
<1> QED BY <1>9, <1>10 DEF part, right, rest

\* Splitting parts of rows on the column of a feature is selecting the rows.
LEMMA SplitParts ==
  ASSUME NEW D, NEW rows \in Seq(ToSet(D)), NEW labs, IsSeq(labs), NEW axis \in 1 .. Len(labs), NEW v,
         NEW data, data = [n \in DOMAIN rows |-> Part(D, labs, rows[n])]
  PROVE  \E sel : /\ sel = Selected(rows, Having(D, labs[axis], v))
                  /\ SplitDataSet(data, axis, v) = [n \in DOMAIN sel |-> Part(D, RemoveAt(labs, axis), sel[n])]
<1> DEFINE A == ToSet(rows)
           W == Having(D, labs[axis], v)
           R == {row \in ToSet(data) : Cell(row, axis) = v}
           g == [row \in ToSet(D) |-> Part(D, labs, row)]
           sel == Selected(rows, W)
           kept == Selected(data, R)
           rest == RemoveAt(labs, axis)
<1>1. /\ rows \in Seq(A) /\ A \subseteq ToSet(D)
      /\ DOMAIN rows = 1 .. Len(rows) /\ \A n \in DOMAIN rows : rows[n] \in A
  BY SeqIsSeq, LenProperties DEF IsSeq, ToSet
<1>2. data = Mapped(g, rows)
  BY <1>1 DEF Mapped
<1>3. \A x \in A : g[x] \in R <=> x \in W
  <2> SUFFICES ASSUME NEW x \in A PROVE g[x] \in R <=> x \in W
    OBVIOUS
  <2>1. g[x] = Part(D, labs, x) /\ x \in ToSet(D)
    BY <1>1
  <2>2. g[x] \in ToSet(data)
    <3>1. PICK n \in DOMAIN rows : rows[n] = x
      BY DEF ToSet
    <3>2. data[n] = g[x] /\ n \in DOMAIN data
      BY <2>1, <3>1
    <3> QED BY <3>2 DEF ToSet
  <2>3. Cell(g[x], axis) = x[Feature(D, labs[axis])]
    <3>1. axis # 0
      OBVIOUS
    <3>2. Part(D, labs, x)[axis] = x[Feature(D, labs[axis])]
      BY PartProperties
    <3> QED BY <2>1, <3>1, <3>2 DEF Cell
  <2> QED BY <2>1, <2>2, <2>3 DEF Having
<1>4. kept = Mapped(g, sel)
  <2> HIDE DEF g, A, W, R
  <2>1. Selected(Mapped(g, rows), R) = Mapped(g, Selected(rows, W))
    BY <1>1, <1>3, SelectedMapped
  <2> QED BY <1>2, <2>1
<1>5. sel \in Seq(A)
  <2> HIDE DEF A, W
  <2> QED BY <1>1, SelectedInSeq
<1>6. DOMAIN sel = 1 .. Len(sel) /\ \A n \in DOMAIN sel : sel[n] \in ToSet(D)
  <2> HIDE DEF A, sel
  <2>1. DOMAIN sel = 1 .. Len(sel)
    BY <1>5, LenProperties
  <2> QED BY <1>1, <1>5, <2>1, ElementOfSeq
<1>7. SplitDataSet(data, axis, v) = [n \in DOMAIN kept |-> Chop(kept[n], axis)]
  BY DEF SplitDataSet
<1>8. DOMAIN kept = DOMAIN sel /\ \A n \in DOMAIN sel : kept[n] = Part(D, labs, sel[n])
  <2> HIDE DEF sel, kept
  <2> QED BY <1>4, <1>6 DEF Mapped
<1>9. \A n \in DOMAIN sel : Chop(kept[n], axis) = Part(D, rest, sel[n])
  <2> SUFFICES ASSUME NEW n \in DOMAIN sel PROVE Chop(kept[n], axis) = Part(D, rest, sel[n])
    OBVIOUS
  <2>1. Chop(Part(D, labs, sel[n]), axis) = Part(D, rest, sel[n])
    BY PartChopped
  <2> QED BY <1>8, <2>1
<1> HIDE DEF sel, kept, rest
<1>10. SplitDataSet(data, axis, v) = [n \in DOMAIN sel |-> Part(D, rest, sel[n])]
  BY <1>7, <1>8, <1>9
<1> QED BY <1>10 DEF sel, rest

\* A split by a value that is there has a row.
LEMMA SplitNotEmpty ==
  ASSUME NEW data, IsSeq(data), NEW axis, NEW v \in ValuesOf(data, axis)
  PROVE  IsSeq(SplitDataSet(data, axis, v)) /\ SplitDataSet(data, axis, v) # <<>>
<1> DEFINE R == {row \in ToSet(data) : Cell(row, axis) = v}
           kept == Selected(data, R)
           split == [n \in DOMAIN kept |-> Chop(kept[n], axis)]
<1>1. kept \in Seq(ToSet(data)) /\ ToSet(kept) = ToSet(data) \cap R
  BY SelectedInSeq, SelectedMembers DEF IsSeq
<1>2. PICK n \in DOMAIN data : Cell(data[n], axis) = v
  BY DEF ValuesOf
<1>3. data[n] \in ToSet(kept)
  BY <1>1, <1>2 DEF ToSet
<1>4. PICK m \in Nat : m = Len(kept) /\ DOMAIN kept = 1 .. m
  BY <1>1, LenProperties
<1>5. m # 0
  BY <1>3, <1>4 DEF ToSet
<1>6. SplitDataSet(data, axis, v) = split
  BY DEF SplitDataSet
<1> HIDE DEF kept
<1>7. split \in Seq({Chop(kept[k], axis) : k \in DOMAIN kept})
  BY <1>4, SeqDef
<1>8. DOMAIN split = 1 .. m /\ 1 \in DOMAIN split
  BY <1>4, <1>5
<1>9. split # <<>>
  BY <1>8
<1> HIDE DEF split
<1> QED BY <1>6, <1>7, <1>9, SeqIsSeq

-----------------------------------------------------------------------------
(* Paths and the rows that agree with them, as the tree grows.             *)

Grown(tree, tree2) == DOMAIN tree \subseteq DOMAIN tree2 /\ \A p \in DOMAIN tree : tree2[p] = tree[p]

\* What is said of a path by the nodes above it is not changed by new nodes.
LEMMA PathStable ==
  ASSUME NEW D, NEW tree, NEW tree2, Grown(tree, tree2), NEW p, Rooted(tree, p)
  PROVE  /\ Rooted(tree2, p)
         /\ \A k \in DOMAIN p : KeyOf(D, tree2, p, k) = KeyOf(D, tree, p, k)
         /\ Agreeing(D, tree2, p) = Agreeing(D, tree, p)
<1>1. \A k \in DOMAIN p : SubSeq(p, 1, k - 1) \in DOMAIN tree2
                          /\ tree2[SubSeq(p, 1, k - 1)] = tree[SubSeq(p, 1, k - 1)]
  BY DEF Grown, Rooted
<1>2. Rooted(tree2, p)
  BY <1>1 DEF Rooted
<1>3. \A k \in DOMAIN p : KeyOf(D, tree2, p, k) = KeyOf(D, tree, p, k)
  BY <1>1 DEF KeyOf
<1> QED BY <1>2, <1>3 DEF Agreeing

\* What is said of a path with one key more.
LEMMA PathLonger ==
  ASSUME NEW D, NEW tree, NEW p, IsSeq(p), NEW v
  PROVE  /\ \A k \in DOMAIN p : KeyOf(D, tree, Append(p, v), k) = KeyOf(D, tree, p, k)
         /\ KeyOf(D, tree, Append(p, v), Len(p) + 1) = Feature(D, tree[p].name)
         /\ Agreeing(D, tree, Append(p, v)) =
              Agreeing(D, tree, p) \cap Having(D, tree[p].name, v)
         /\ Rooted(tree, p) /\ p \in DOMAIN tree /\ tree[p].kind = "dict" => Rooted(tree, Append(p, v))
<1> DEFINE q == Append(p, v)
<1>1. PICK m \in Nat : m = Len(p)
  BY PathLength
<1>2. /\ DOMAIN p = 1 .. m /\ DOMAIN q = 1 .. m + 1
      /\ q[m + 1] = v /\ \A n \in 1 .. m : q[n] = p[n]
      /\ \A n \in 0 .. m : SubSeq(q, 1, n) = SubSeq(p, 1, n)
      /\ SubSeq(p, 1, m) = p
  BY <1>1, PathAppend
<1> HIDE DEF q
<1>3. \A k \in 1 .. m : SubSeq(q, 1, k - 1) = SubSeq(p, 1, k - 1)
  BY <1>2
<1>4. SubSeq(q, 1, (m + 1) - 1) = p
  BY <1>2
<1>5. \A k \in 1 .. m : KeyOf(D, tree, q, k) = KeyOf(D, tree, p, k)
  BY <1>3 DEF KeyOf
<1>6. KeyOf(D, tree, q, m + 1) = Feature(D, tree[p].name)
  BY <1>4 DEF KeyOf
<1>7. Agreeing(D, tree, q) =
        Agreeing(D, tree, p) \cap Having(D, tree[p].name, v)
  <2>1. \A row : (\A k \in 1 .. m + 1 : row[KeyOf(D, tree, q, k)] = q[k]) <=>
                 (\A k \in 1 .. m : row[KeyOf(D, tree, p, k)] = p[k]) /\ row[Feature(D, tree[p].name)] = v
    BY <1>2, <1>5, <1>6
  <2>2. Agreeing(D, tree, q) =
          {row \in ToSet(D) : \A k \in 1 .. m + 1 : row[KeyOf(D, tree, q, k)] = q[k]}
    BY <1>2 DEF Agreeing
  <2>3. Agreeing(D, tree, p) =
          {row \in ToSet(D) : \A k \in 1 .. m : row[KeyOf(D, tree, p, k)] = p[k]}
    BY <1>2 DEF Agreeing
  <2> QED BY <2>1, <2>2, <2>3 DEF Having
<1>8. Rooted(tree, p) /\ p \in DOMAIN tree /\ tree[p].kind = "dict" => Rooted(tree, q)
  <2> SUFFICES ASSUME Rooted(tree, p), p \in DOMAIN tree, tree[p].kind = "dict", NEW k \in 1 .. m + 1
               PROVE  SubSeq(q, 1, k - 1) \in DOMAIN tree /\ tree[SubSeq(q, 1, k - 1)].kind = "dict"
    BY <1>2 DEF Rooted
  <2>1. CASE k = m + 1
    BY <1>4, <2>1
  <2>2. CASE k \in 1 .. m
    BY <1>2, <1>3, <2>2 DEF Rooted
  <2> QED BY <2>1, <2>2
<1> QED BY <1>1, <1>2, <1>5, <1>6, <1>7, <1>8 DEF q

\* The call for a branch has what its path says, if the call for the node had.
LEMMA FitsChild ==
  ASSUME NEW D \in Datasets, NEW tree, NEW tree2, Grown(tree, tree2),
         NEW p, IsSeq(p), Rooted(tree, p),
         NEW data, NEW labs, Fits(D, tree, p, data, labs),
         NEW axis \in 1 .. Len(labs), tree2[p].name = labs[axis], NEW v
  PROVE  Fits(D, tree2, Append(p, v), SplitDataSet(data, axis, v), RemoveAt(labs, axis))
<1> DEFINE q == Append(p, v)
           rest == RemoveAt(labs, axis)
           rows == Selected(D, Agreeing(D, tree, p))
           rows2 == Selected(D, Agreeing(D, tree2, q))
           W == Having(D, labs[axis], v)
           sel == Selected(rows, W)
<1>1. /\ D \in Seq(ToSet(D))
      /\ \A f \in 1 .. Columns(D) : Feature(D, FeatNames(D)[f]) = f
  BY TrainingSet
<1>2. /\ labs \in Seq(ToSet(FeatNames(D))) /\ IsSeq(labs)
      /\ data = [n \in DOMAIN rows |-> Part(D, labs, rows[n])]
      /\ \A f \in 1 .. Columns(D) :
           FeatNames(D)[f] \in ToSet(labs) \/ \E k \in DOMAIN p : KeyOf(D, tree, p, k) = f
  BY SeqIsSeq DEF Fits
<1>3. rest \in Seq(ToSet(FeatNames(D)))
  BY <1>2, RemoveAtProperties
<1>0. /\ \A k \in DOMAIN p : KeyOf(D, tree2, p, k) = KeyOf(D, tree, p, k)
      /\ Agreeing(D, tree2, p) = Agreeing(D, tree, p)
  BY PathStable
<1>10. /\ \A k \in DOMAIN p : KeyOf(D, tree2, q, k) = KeyOf(D, tree2, p, k)
       /\ KeyOf(D, tree2, q, Len(p) + 1) = Feature(D, labs[axis])
       /\ Agreeing(D, tree2, q) = Agreeing(D, tree2, p) \cap W
  <2>1. PICK l : l = tree2[p].name
    OBVIOUS
  <2>2. /\ \A k \in DOMAIN p : KeyOf(D, tree2, q, k) = KeyOf(D, tree2, p, k)
        /\ KeyOf(D, tree2, q, Len(p) + 1) = Feature(D, tree2[p].name)
        /\ Agreeing(D, tree2, q) = Agreeing(D, tree2, p) \cap Having(D, tree2[p].name, v)
        /\ Rooted(tree2, p) /\ p \in DOMAIN tree2 /\ tree2[p].kind = "dict" => Rooted(tree2, q)
    <3> HIDE DEF rest, rows, rows2, W, sel
    <3> QED BY PathLonger
  <2> QED BY <2>2
<1>4. Agreeing(D, tree2, q) = Agreeing(D, tree, p) \cap W
  BY <1>0, <1>10
<1>5. rows2 = sel
  <2> HIDE DEF W
  <2> QED BY <1>1, <1>4, SelectedTwice
<1>6. SplitDataSet(data, axis, v) = [n \in DOMAIN rows2 |-> Part(D, rest, rows2[n])]
  <2>1. rows \in Seq(ToSet(D))
    BY <1>1, SelectedInSeq
  <2> HIDE DEF rows
  <2>2. SplitDataSet(data, axis, v) = [n \in DOMAIN sel |-> Part(D, rest, sel[n])]
    BY <1>2, <2>1, SplitParts
  <2> HIDE DEF rows2, sel
  <2> QED BY <1>5, <2>2
<1>7. ASSUME NEW f \in 1 .. Columns(D)
      PROVE  FeatNames(D)[f] \in ToSet(rest) \/ \E k \in DOMAIN q : KeyOf(D, tree2, q, k) = f
  <2>0. PICK m \in Nat : m = Len(p) /\ DOMAIN p = 1 .. m /\ DOMAIN q = 1 .. m + 1
    BY PathLength
  <2>1. CASE \E k \in DOMAIN p : KeyOf(D, tree, p, k) = f
    <3>1. PICK k \in DOMAIN p : KeyOf(D, tree, p, k) = f
      BY <2>1
    <3>2. KeyOf(D, tree2, q, k) = f /\ k \in DOMAIN q
      BY <2>0, <3>1, <1>0, <1>10
    <3> QED BY <3>2
  <2>2. CASE FeatNames(D)[f] \in ToSet(labs)
    <3>1. PICK n \in 1 .. Len(labs) : labs[n] = FeatNames(D)[f]
      BY <1>2, <2>2, LenProperties DEF ToSet
    <3>2. CASE n = axis
      <4>1. KeyOf(D, tree2, q, m + 1) = Feature(D, labs[axis])
        BY <2>0, <1>10
      <4>2. KeyOf(D, tree2, q, m + 1) = f
        BY <1>1, <3>1, <3>2, <4>1
      <4> QED BY <2>0, <4>2
    <3>3. CASE n # axis
      <4>1. PICK w \in Nat : w = Len(labs)
        BY <1>2, LenProperties
      <4>2. /\ rest \in Seq(ToSet(labs)) /\ Len(rest) = w - 1
            /\ \A k \in 1 .. w - 1 : rest[k] = IF k < axis THEN labs[k] ELSE labs[k + 1]
        BY <1>2, <4>1, RemoveAtProperties DEF IsSeq
      <4>3. DOMAIN rest = 1 .. w - 1
        BY <4>2, LenProperties
      <4> HIDE DEF rest
      <4>4. \E k \in 1 .. w - 1 : rest[k] = labs[n]
        <5>1. CASE n < axis
          BY <4>1, <4>2, <5>1
        <5>2. CASE n > axis
          <6>1. n - 1 \in 1 .. w - 1 /\ ~ (n - 1 < axis) /\ (n - 1) + 1 = n
            BY <4>1, <5>2
          <6> QED BY <4>2, <6>1
        <5> QED BY <3>3, <4>1, <5>1, <5>2
      <4> QED BY <3>1, <4>3, <4>4 DEF ToSet
    <3> QED BY <3>2, <3>3
  <2> QED BY <1>2, <2>1, <2>2
<1> HIDE DEF q, rest
<1>8. Fits(D, tree2, q, SplitDataSet(data, axis, v), rest)
  BY <1>3, <1>6, <1>7 DEF Fits
<1> QED BY <1>8 DEF q, rest

\* The arguments of a call keep fitting its path while nodes are added.
LEMMA FitsStable ==
  ASSUME NEW D, NEW tree, NEW tree2, Grown(tree, tree2), NEW p, Rooted(tree, p),
         NEW data, NEW labs, Fits(D, tree, p, data, labs)
  PROVE  Fits(D, tree2, p, data, labs)
<1>1. /\ Agreeing(D, tree2, p) = Agreeing(D, tree, p)
      /\ \A k \in DOMAIN p : KeyOf(D, tree2, p, k) = KeyOf(D, tree, p, k)
  BY PathStable
<1> QED BY <1>1 DEF Fits

-----------------------------------------------------------------------------
(* The choice of a feature: entropies are fractions of positive numbers.   *)

Fractions == [1 .. 2 -> Nat \ {0}]

\* Of three fractions, the first is below the third when it is below the second
\* and the third is not.
LEMMA LowerTransitive ==
  ASSUME NEW p \in Fractions, NEW q \in Fractions, NEW r \in Fractions, Lower(p, q), ~ Lower(r, q)
  PROVE  Lower(p, r)
<1>1. PICK a \in Nat \ {0}, b \in Nat \ {0} : a = p[1] /\ b = p[2]
  BY DEF Fractions
<1>2. PICK c \in Nat \ {0}, d \in Nat \ {0} : c = q[1] /\ d = q[2]
  BY DEF Fractions
<1>3. PICK e \in Nat \ {0}, f \in Nat \ {0} : e = r[1] /\ f = r[2]
  BY DEF Fractions
<1>4. a * d < c * b /\ c * f <= e * d
  <2>1. e * d \in Int /\ c * f \in Int
    OBVIOUS
  <2> QED BY <1>1, <1>2, <1>3, <2>1 DEF Lower
<1>5. (a * d) * f < (c * b) * f
  <2>1. \A x, y \in Int, z \in Nat \ {0} : x < y => x * z < y * z
    OBVIOUS
  <2> QED BY <1>4, <2>1
<1>6. (c * f) * b <= (e * d) * b
  <2>1. \A x, y \in Int, z \in Nat \ {0} : x <= y => x * z <= y * z
    OBVIOUS
  <2> QED BY <1>4, <2>1
<1>7. (a * f) * d < (e * b) * d
  <2>1. (a * d) * f = (a * f) * d /\ (c * b) * f = (c * f) * b /\ (e * d) * b = (e * b) * d
    OBVIOUS
  <2> QED BY <1>5, <1>6, <2>1
<1>8. a * f < e * b
  <2>1. \A x, y \in Int, z \in Nat \ {0} : x * z < y * z => x < y
    OBVIOUS
  <2> QED BY <1>7, <2>1
<1> QED BY <1>1, <1>3, <1>8 DEF Lower

\* Of a sequence of fractions, each set of places has one with the lowest
\* fraction that is the first of those.
LEMMA FirstLowest ==
  ASSUME NEW n \in Nat, NEW ent, \A k \in 1 .. n : ent[k] \in Fractions,
         NEW K \in SUBSET (1 .. n), K # {}
  PROVE  \E k \in K : \A l \in K : ~ Lower(ent[l], ent[k]) /\ (l < k => Lower(ent[k], ent[l]))
<1> DEFINE Best(L, k) == \A l \in L : ~ Lower(ent[l], ent[k]) /\ (l < k => Lower(ent[k], ent[l]))
           Good(m) == \A L \in SUBSET (1 .. m) : L # {} => \E k \in L : Best(L, k)
           T == {m \in Nat : m <= n => Good(m)}
<1>1. 0 \in T
  <2>1. 1 .. 0 = {}
    OBVIOUS
  <2> QED BY <2>1
<1>2. ASSUME NEW m \in T PROVE m + 1 \in T
  <2>1. m \in Nat
    OBVIOUS
  <2> SUFFICES ASSUME m + 1 <= n PROVE Good(m + 1)
    <3> HIDE DEF Good
    <3> QED BY <2>1
  <2> SUFFICES ASSUME NEW L \in SUBSET (1 .. m + 1), L # {}
               PROVE  \E k \in L : Best(L, k)
    OBVIOUS
  <2>0. Good(m)
    <3> HIDE DEF Good
    <3> QED BY <2>1
  <2>2. \A k \in 1 .. m + 1 : ent[k] \in Fractions
    BY <2>1
  <2>3. \A k \in 1 .. m + 1 : ~ Lower(ent[k], ent[k])
    <3> SUFFICES ASSUME NEW k \in 1 .. m + 1 PROVE ~ Lower(ent[k], ent[k])
      OBVIOUS
    <3>1. PICK a \in Nat, b \in Nat : a = ent[k][1] /\ b = ent[k][2]
      BY <2>2 DEF Fractions
    <3>2. ~ (a * b < a * b)
      OBVIOUS
    <3> QED BY <3>1, <3>2 DEF Lower
  <2>4. PICK L0 \in SUBSET (1 .. m) : L0 = L \ {m + 1}
    <3>1. L \ {m + 1} \in SUBSET (1 .. m)
      BY <2>1
    <3> QED BY <3>1
  <2>5. CASE m + 1 \notin L
    <3>1. L0 = L
      BY <2>4, <2>5
    <3> QED BY <2>0, <3>1
  <2>6. CASE m + 1 \in L /\ L0 = {}
    <3>1. L = {m + 1}
      BY <2>4, <2>6
    <3> QED BY <2>1, <2>3, <3>1
  <2>7. CASE m + 1 \in L /\ L0 # {}
    <3>1. PICK k \in L0 : Best(L0, k)
      BY <2>0, <2>7
    <3>2. CASE Lower(ent[m + 1], ent[k])
      <4>1. Best(L, m + 1)
        <5> SUFFICES ASSUME NEW l \in L
                     PROVE  ~ Lower(ent[l], ent[m + 1]) /\ (l < m + 1 => Lower(ent[m + 1], ent[l]))
          OBVIOUS
        <5>1. CASE l = m + 1
          BY <2>1, <2>3, <5>1
        <5>2. CASE l # m + 1
          <6>1. l \in L0 /\ ~ Lower(ent[l], ent[k])
            BY <2>4, <3>1, <5>2
          <6>2. ent[l] \in Fractions /\ ent[k] \in Fractions /\ ent[m + 1] \in Fractions
            BY <2>1, <2>2, <2>4, <6>1
          <6>3. Lower(ent[m + 1], ent[l])
            BY <3>2, <6>1, <6>2, LowerTransitive
          <6>4. ~ Lower(ent[l], ent[m + 1])
            <7>1. PICK a \in Nat, b \in Nat, c \in Nat, d \in Nat :
                    a = ent[l][1] /\ b = ent[l][2] /\ c = ent[m + 1][1] /\ d = ent[m + 1][2]
              BY <6>2 DEF Fractions
            <7>2. c * b < a * d
              BY <6>3, <7>1 DEF Lower
            <7>3. a * d \in Int /\ c * b \in Int
              OBVIOUS
            <7>4. ~ (a * d < c * b)
              BY <7>2, <7>3
            <7> QED BY <7>1, <7>4 DEF Lower
          <6> QED BY <6>3, <6>4
        <5> QED BY <5>1, <5>2
      <4> QED BY <2>7, <4>1
    <3>3. CASE ~ Lower(ent[m + 1], ent[k])
      <4>1. k < m + 1 /\ k \in L
        BY <2>1, <2>4
      <4>2. Best(L, k)
        BY <2>1, <2>4, <3>1, <3>3, <4>1
      <4> QED BY <4>1, <4>2
    <3> QED BY <3>2, <3>3
  <2> QED BY <2>5, <2>6, <2>7
<1>3. T = Nat
  <2> HIDE DEF T
  <2> QED BY <1>1, <1>2, SetInduction DEF T
<1>4. Good(n)
  <2> HIDE DEF Good
  <2> QED BY <1>3
<1> QED BY <1>4

\* The two fractions of an entropy have positive terms: the logarithm of each
\* is defined.
LEMMA EntropyFractions ==
  ASSUME NEW data, IsSeq(data), data # <<>>
  PROVE  \A axis : NewEntropy(data, axis)[1] \in Nat \ {0} /\ NewEntropy(data, axis)[2] \in Nat \ {0}
                   /\ NewEntropy(data, axis) \in Fractions
<1>1. PICK m \in Nat \ {0} : m = Len(data) /\ DOMAIN data = 1 .. m
  BY EmptySeq, LenProperties DEF IsSeq
<1>2. IsFiniteSet(DOMAIN data)
  BY <1>1, FS_Interval
<1>3. ASSUME NEW n \in DOMAIN data, NEW axes
      PROVE  Alike(data, n, axes) \in Nat \ {0}
  <2> DEFINE like == {k \in DOMAIN data : \A a \in axes : Cell(data[k], a) = Cell(data[n], a)}
  <2>1. IsFiniteSet(like) /\ n \in like
    BY <1>2, FS_Subset
  <2>2. Alike(data, n, axes) = Cardinality(like)
    BY DEF Alike
  <2> HIDE DEF like
  <2> QED BY <2>1, <2>2, FS_EmptySet, FS_CardinalityType
<1>4. \A axes : Product([n \in DOMAIN data |-> Alike(data, n, axes)], DOMAIN data) \in Nat \ {0}
  <2> SUFFICES ASSUME NEW axes
               PROVE  Product([n \in DOMAIN data |-> Alike(data, n, axes)], DOMAIN data) \in Nat \ {0}
    OBVIOUS
  <2> DEFINE f == [n \in DOMAIN data |-> Alike(data, n, axes)]
  <2>1. \A n \in DOMAIN data : f[n] \in Nat \ {0}
    BY <1>3
  <2> HIDE DEF f
  <2>2. Product(f, DOMAIN data) \in Nat \ {0}
    BY <1>2, <2>1, ProductPositive
  <2> QED BY <2>2 DEF f
<1>5. TAKE axis
<1>6. PICK a \in Nat \ {0}, b \in Nat \ {0} : NewEntropy(data, axis) = <<a, b>>
  BY <1>4 DEF NewEntropy
<1>7. <<a, b>> \in Fractions
  BY DEF Fractions
<1> QED BY <1>6, <1>7

\* The feature is one of the columns, or 0 without gain.
LEMMA BestFeature ==
  ASSUME NEW data, IsSeq(data), data # <<>>, Len(data[1]) \in Nat
  PROVE  ChooseBestFeatureToSplit(data) \in 0 .. Len(data[1]) - 1
                \/ ChooseBestFeatureToSplit(data) = 0
<1> DEFINE n == Len(data[1]) - 1
           ent == [k \in 1 .. n |-> NewEntropy(data, k)]
           gaining == {k \in DOMAIN ent : Lower(ent[k], CalcShannonEnt(data))}
           Best(k) == \A l \in gaining : ~ Lower(ent[l], ent[k]) /\ (l < k => Lower(ent[k], ent[l]))
<1>1. CASE gaining = {}
  <2>1. ChooseBestFeatureToSplit(data) = 0
    BY <1>1 DEF ChooseBestFeatureToSplit
  <2> QED BY <2>1
<1>2. CASE gaining # {}
  <2>1. n \in Nat
    <3>1. gaining \subseteq 1 .. n
      OBVIOUS
    <3>2. PICK k \in gaining : TRUE
      BY <1>2
    <3>3. k \in 1 .. n
      OBVIOUS
    <3> HIDE DEF ent, gaining
    <3> QED BY <3>3
  <2>2. \A k \in 1 .. n : ent[k] \in Fractions
    BY EntropyFractions
  <2>3. gaining \in SUBSET (1 .. n)
    OBVIOUS
  <2>4. \E k \in gaining : Best(k)
    <3> HIDE DEF ent, gaining, n
    <3> QED BY <1>2, <2>1, <2>2, <2>3, FirstLowest
  <2>5. ChooseBestFeatureToSplit(data) = CHOOSE k \in gaining : Best(k)
    BY <1>2 DEF ChooseBestFeatureToSplit
  <2>6. ChooseBestFeatureToSplit(data) \in gaining
    <3> HIDE DEF gaining, Best
    <3> QED BY <2>4, <2>5
  <2>7. ChooseBestFeatureToSplit(data) \in 1 .. n
    <3> HIDE DEF gaining
    <3> QED BY <2>3, <2>6
  <2> QED BY <2>1, <2>7
<1> QED BY <1>1, <1>2

-----------------------------------------------------------------------------
(* One node more in the tree. *)

\* A tree with one more node has all its other nodes as they were.
LEMMA NewNode ==
  ASSUME NEW tree, NEW path, path \notin DOMAIN tree, NEW node
  PROVE  /\ DOMAIN Put(tree, path, node) = DOMAIN tree \cup {path}
         /\ Put(tree, path, node)[path] = node
         /\ Grown(tree, Put(tree, path, node))
BY DEF Put, Grown

\* The paths that are known after a leaf are those from before.
LEMMA LeafShape ==
  ASSUME NEW tree, NEW todo, NEW todo2, NEW c, todo = todo2 \cup {c}, Shape(tree, todo),
         \A d \in todo2 : d.path # c.path,
         NEW tree2, DOMAIN tree2 = DOMAIN tree \cup {c.path}, Grown(tree, tree2), tree2[c.path].kind = "leaf"
  PROVE  Shape(tree2, todo2) /\ Known(tree2, todo2) = Known(tree, todo)
<1>1. Known(tree2, todo2) = Known(tree, todo)
  BY DEF Known
<1>2. IsFiniteSet(DOMAIN tree2)
  BY FS_AddElement DEF Shape
<1>3. \A p \in Known(tree2, todo2) : IsSeq(p) /\ Rooted(tree2, p)
  <2>1. \A p \in Known(tree, todo) : IsSeq(p) /\ Rooted(tree, p)
    BY DEF Shape
  <2> QED BY <1>1, <2>1, PathStable
<1>4. \A p \in DOMAIN tree2 : tree2[p].kind \in {"leaf", "dict"}
  BY DEF Shape, Grown
<1>5. \A d \in todo2 : d.path \notin DOMAIN tree2
  BY DEF Shape
<1> QED BY <1>1, <1>2, <1>3, <1>4, <1>5 DEF Shape

\* A tree with a new dict for the call c, and new calls for its branches, which
\* have the paths below.
Splits(tree, todo, rest, c, tree2, new, below, todo2, known2) ==
  /\ todo = rest \cup {c} /\ \A d \in rest : d.path # c.path
  /\ DOMAIN tree2 = DOMAIN tree \cup {c.path} /\ Grown(tree, tree2) /\ tree2[c.path].kind = "dict"
  /\ \A d \in new : d.path \in below
  /\ \A p \in below : \E d \in new : d.path = p
  /\ \A p \in below : \E v : p = Append(c.path, v)
  /\ todo2 = rest \cup new /\ known2 = Known(tree, todo) \cup below

\* After a split, the paths of the branches are known too.
LEMMA DictShape ==
  ASSUME NEW tree, NEW todo, NEW rest, NEW c, NEW tree2, NEW new, NEW below, NEW todo2, NEW known2,
         Shape(tree, todo), Splits(tree, todo, rest, c, tree2, new, below, todo2, known2)
  PROVE  Shape(tree2, todo2) /\ Known(tree2, todo2) = known2
<1> USE DEF Splits
<1>0. c.path \in Known(tree, todo) /\ c.path \notin DOMAIN tree
  BY DEF Known, Shape
<1>1. Known(tree2, todo2) = Known(tree, todo) \cup below
  <2>1. Known(tree2, todo2) = DOMAIN tree2 \cup {d.path : d \in rest} \cup {d.path : d \in new}
    BY DEF Known
  <2>2. Known(tree, todo) = DOMAIN tree \cup {d.path : d \in rest} \cup {c.path}
    BY DEF Known
  <2>3. {d.path : d \in new} = below
    OBVIOUS
  <2> QED BY <2>1, <2>2, <2>3
<1>2. IsFiniteSet(DOMAIN tree2)
  BY FS_AddElement DEF Shape
<1>3. \A p \in Known(tree, todo) : IsSeq(p) /\ Rooted(tree, p) /\ Rooted(tree2, p)
  <2>1. \A p \in Known(tree, todo) : IsSeq(p) /\ Rooted(tree, p)
    BY DEF Shape
  <2> QED BY <2>1, PathStable
<1>4. \A p \in below : IsSeq(p) /\ Rooted(tree2, p) /\ p \notin DOMAIN tree2
  <2> SUFFICES ASSUME NEW q \in below
               PROVE  IsSeq(q) /\ Rooted(tree2, q) /\ q \notin DOMAIN tree2
    OBVIOUS
  <2>0. PICK v : q = Append(c.path, v)
    OBVIOUS
  <2> DEFINE p == Append(c.path, v)
  <2>1. IsSeq(c.path) /\ Rooted(tree2, c.path) /\ c.path \in DOMAIN tree2
    BY <1>0, <1>3
  <2>2. PICK m \in Nat : m = Len(c.path)
    BY <2>1, PathLength
  <2>3. IsSeq(p) /\ p # <<>> /\ Front(p) = c.path /\ DOMAIN p = 1 .. m + 1 /\ Len(p) = m + 1
        /\ SubSeq(p, 1, m) = SubSeq(c.path, 1, m) /\ SubSeq(c.path, 1, m) = c.path
    <3>1. PICK e : e = c.path
      OBVIOUS
    <3>2. /\ IsSeq(Append(e, v)) /\ Append(e, v) # <<>>
          /\ Len(Append(e, v)) = Len(e) + 1 /\ DOMAIN Append(e, v) = 1 .. Len(e) + 1
          /\ \A n \in 0 .. Len(e) : SubSeq(Append(e, v), 1, n) = SubSeq(e, 1, n)
          /\ SubSeq(e, 1, Len(e)) = e
          /\ Front(Append(e, v)) = e
      BY <2>1, <3>1, PathAppend
    <3>3. m \in 0 .. Len(e)
      BY <2>2, <3>1
    <3> QED BY <2>2, <3>1, <3>2, <3>3
  <2>4. Rooted(tree2, p)
    BY <2>1, PathLonger
  <2> HIDE DEF p
  <2>5. p \notin DOMAIN tree
    <3> SUFFICES ASSUME p \in DOMAIN tree PROVE FALSE
      OBVIOUS
    <3>1. Rooted(tree, p)
      BY <1>3 DEF Known
    <3>2. SubSeq(p, 1, (m + 1) - 1) \in DOMAIN tree
      <4>1. m + 1 \in DOMAIN p
        BY <2>3
      <4> QED BY <3>1, <4>1 DEF Rooted
    <3>3. (m + 1) - 1 = m
      OBVIOUS
    <3> QED BY <1>0, <2>3, <3>2, <3>3
  <2>6. p # c.path
    BY <2>2, <2>3
  <2> QED BY <2>0, <2>3, <2>4, <2>5, <2>6 DEF p
<1>5. \A p \in DOMAIN tree2 : tree2[p].kind \in {"leaf", "dict"}
  BY DEF Shape, Grown
<1>6. \A d \in todo2 : d.path \notin DOMAIN tree2
  <2> SUFFICES ASSUME NEW d \in todo2 PROVE d.path \notin DOMAIN tree2
    OBVIOUS
  <2>1. CASE d \in rest
    BY <2>1 DEF Shape
  <2>2. CASE d \in new
    BY <1>4, <2>2
  <2> QED BY <2>1, <2>2
<1>7. <<>> \in Known(tree2, todo2)
  BY <1>1 DEF Shape
<1>8. \A p \in Known(tree2, todo2) : IsSeq(p) /\ Rooted(tree2, p)
  BY <1>1, <1>3, <1>4
<1>9. Shape(tree2, todo2)
  BY <1>2, <1>5, <1>6, <1>7, <1>8 DEF Shape
<1> QED BY <1>1, <1>9

\* What was said of the nodes and the calls is still true when the tree has grown
\* and nothing is forgotten.
LEMMA NodesStable ==
  ASSUME NEW D, NEW tree, NEW todo, Built(D, tree, todo), NEW tree2, Grown(tree, tree2),
         NEW known2, Known(tree, todo) \subseteq known2
  PROVE  /\ \A c \in todo : CallOK(D, tree2, c)
         /\ \A p \in DOMAIN tree : NodeOK(D, tree2, known2, p)
<1>0. \A p \in Known(tree, todo) : Rooted(tree, p)
  BY DEF Built, Shape
<1>1. ASSUME NEW c \in todo PROVE CallOK(D, tree2, c)
  <2>1. Rooted(tree, c.path) /\ CallOK(D, tree, c)
    BY <1>0 DEF Built, Known
  <2>2. OnFeatures(c.path) => Fits(D, tree2, c.path, c.data, c.labels)
    BY <2>1, FitsStable DEF CallOK
  <2> QED BY <2>1, <2>2 DEF CallOK
<1>2. ASSUME NEW p \in DOMAIN tree PROVE NodeOK(D, tree2, known2, p)
  <2>1. Rooted(tree, p) /\ NodeOK(D, tree, Known(tree, todo), p)
    BY <1>0 DEF Built, Known
  <2>2. /\ Agreeing(D, tree2, p) = Agreeing(D, tree, p)
        /\ \A k \in DOMAIN p : KeyOf(D, tree2, p, k) = KeyOf(D, tree, p, k)
        /\ tree2[p] = tree[p]
    BY <2>1, PathStable DEF Grown
  <2>3. tree[p].kind = "dict" => DictOK(D, tree2, known2, p)
    BY <2>1, <2>2 DEF NodeOK, DictOK
  <2>4. tree[p].kind = "leaf" => LeafOK(D, tree2, p)
    BY <2>1, <2>2 DEF NodeOK, LeafOK
  <2> QED BY <2>2, <2>3, <2>4 DEF NodeOK
<1> QED BY <1>1, <1>2

-----------------------------------------------------------------------------
(* createTree returns a class, or a dict with its branches still to come.  *)

\* The data of a call that fits its path are parts of the rows that agree with it.
LEMMA DataRows ==
  ASSUME NEW D \in Datasets, NEW tree, NEW path, NEW data, NEW labs, Fits(D, tree, path, data, labs)
  PROVE  LET rows == Selected(D, Agreeing(D, tree, path)) IN
         /\ IsSeq(labs) /\ Len(labs) \in Nat
         /\ DOMAIN data = DOMAIN rows
         /\ \A n \in DOMAIN rows :
              /\ rows[n] \in Agreeing(D, tree, path) /\ Last(rows[n]) \in Classes
              /\ Len(data[n]) = Len(labs) + 1
              /\ Last(data[n]) = Last(rows[n])
              /\ \A a \in 1 .. Len(labs) : data[n][a] = rows[n][Feature(D, labs[a])]
         /\ \A row \in Agreeing(D, tree, path) : \E n \in DOMAIN rows : rows[n] = row
         /\ \A k : ClassCount(data, k) = ClassCount(rows, k)
<1> DEFINE rows == Selected(D, Agreeing(D, tree, path))
<1>1. IsSeq(labs) /\ Len(labs) \in Nat
  BY SeqIsSeq, LenProperties DEF Fits
<1>2. data = [n \in DOMAIN rows |-> Part(D, labs, rows[n])]
  BY DEF Fits
<1>3. Agreeing(D, tree, path) \subseteq ToSet(D) /\ D \in Seq(ToSet(D))
  BY TrainingSet DEF Agreeing
<1>4. ToSet(rows) = Agreeing(D, tree, path)
  <2>1. ToSet(rows) = ToSet(D) \cap Agreeing(D, tree, path)
    BY <1>3, SelectedMembers
  <2> QED BY <1>3, <2>1
<1> HIDE DEF rows
<1>5. \A n \in DOMAIN rows : rows[n] \in Agreeing(D, tree, path) /\ Last(rows[n]) \in Classes
  BY <1>3, <1>4, TrainingSet DEF ToSet
<1>6. \A n \in DOMAIN rows :
        /\ Len(data[n]) = Len(labs) + 1
        /\ Last(data[n]) = Last(rows[n])
        /\ \A a \in 1 .. Len(labs) : data[n][a] = rows[n][Feature(D, labs[a])]
  BY <1>1, <1>2, PartProperties
<1>7. \A row \in Agreeing(D, tree, path) : \E n \in DOMAIN rows : rows[n] = row
  BY <1>4 DEF ToSet
<1>8. ASSUME NEW k PROVE ClassCount(data, k) = ClassCount(rows, k)
  <2>1. {n \in DOMAIN data : Last(data[n]) = k} = {n \in DOMAIN rows : Last(rows[n]) = k}
    BY <1>2, <1>6
  <2> QED BY <2>1 DEF ClassCount
<1>9. DOMAIN data = DOMAIN rows
  BY <1>2
<1> QED BY <1>1, <1>5, <1>6, <1>7, <1>8, <1>9 DEF rows

\* A call that returns a class has built its leaf, and the others have the same
\* to do.
LEMMA LeafBuilt ==
  ASSUME NEW D \in Datasets, NEW tree, NEW todo, Built(D, tree, todo),
         NEW todo2, NEW c, todo = todo2 \cup {c}, \A d \in todo2 : d.path # c.path,
         NEW cl,
         \/ Cardinality(ValuesOf(c.data, 0)) = 1 /\ cl \in ValuesOf(c.data, 0)
         \/ Len(c.data[1]) = 1 /\ cl \in MajorityCnt(c.data),
         NEW tree2, tree2 = Put(tree, c.path, [kind |-> "leaf", name |-> cl])
  PROVE  Built(D, tree2, todo2)
<1>1. /\ DOMAIN tree2 = DOMAIN tree \cup {c.path} /\ Grown(tree, tree2)
      /\ tree2[c.path].kind = "leaf" /\ tree2[c.path].name = cl
  <2>1. c.path \notin DOMAIN tree
    BY DEF Built, Shape
  <2>2. PICK node : node = [kind |-> "leaf", name |-> cl]
    OBVIOUS
  <2>3. /\ DOMAIN Put(tree, c.path, node) = DOMAIN tree \cup {c.path}
        /\ Put(tree, c.path, node)[c.path] = node
        /\ Grown(tree, Put(tree, c.path, node))
    BY <2>1, NewNode
  <2> QED BY <2>2, <2>3
<1>2. Shape(tree2, todo2) /\ Known(tree2, todo2) = Known(tree, todo)
  BY <1>1, LeafShape DEF Built
<1>3. /\ \A d \in todo : CallOK(D, tree2, d)
      /\ \A p \in DOMAIN tree : NodeOK(D, tree2, Known(tree2, todo2), p)
  BY <1>1, <1>2, NodesStable
<1>4. LeafOK(D, tree2, c.path)
  <2> SUFFICES ASSUME OnFeatures(c.path) PROVE LeafOK(D, tree2, c.path)
    BY DEF LeafOK
  <2> DEFINE agreeing == Agreeing(D, tree2, c.path)
             rows == Selected(D, agreeing)
  <2>1. Fits(D, tree2, c.path, c.data, c.labels) /\ IsSeq(c.data) /\ c.data # <<>>
    BY <1>3 DEF CallOK
  <2>2. /\ IsSeq(c.labels) /\ Len(c.labels) \in Nat
        /\ DOMAIN c.data = DOMAIN rows
        /\ \A n \in DOMAIN rows :
             /\ rows[n] \in agreeing /\ Last(rows[n]) \in Classes
             /\ Len(c.data[n]) = Len(c.labels) + 1
             /\ Last(c.data[n]) = Last(rows[n])
        /\ \A row \in agreeing : \E n \in DOMAIN rows : rows[n] = row
        /\ \A k : ClassCount(c.data, k) = ClassCount(rows, k)
    BY <2>1, DataRows
  <2>3. ValuesOf(c.data, 0) = {Last(c.data[n]) : n \in DOMAIN c.data}
    BY DEF ValuesOf, Cell
  <2>4. DOMAIN c.data = 1 .. Len(c.data) /\ Len(c.data) \in Nat \ {0} /\ IsFiniteSet(DOMAIN c.data)
    BY <2>1, LenProperties, EmptySeq, FS_Interval DEF IsSeq
  <2> HIDE DEF rows, agreeing
  <2>5. cl \in ValuesOf(c.data, 0)
    BY DEF MajorityCnt
  <2>6. cl \in Classes
    BY <2>2, <2>3, <2>5
  <2>7. CASE Cardinality(ValuesOf(c.data, 0)) = 1
    <3>1. IsFiniteSet(ValuesOf(c.data, 0))
      <4>1. \A n \in DOMAIN c.data : Last(c.data[n]) = [m \in DOMAIN c.data |-> Last(c.data[m])][n]
        OBVIOUS
      <4> DEFINE f == [m \in DOMAIN c.data |-> Last(c.data[m])]
      <4>2. IsFiniteSet({f[n] : n \in DOMAIN c.data})
        <5> HIDE DEF f
        <5> QED BY <2>4, ImageFinite
      <4> QED BY <2>3, <4>1, <4>2
    <3>2. ValuesOf(c.data, 0) = {cl}
      BY <2>5, <2>7, <3>1, FS_Singleton
    <3>3. \A row \in agreeing : Last(row) = cl
      BY <2>2, <2>3, <3>2
    <3> QED BY <1>1, <2>6, <3>3 DEF LeafOK, agreeing
  <2>8. CASE Len(c.data[1]) = 1 /\ cl \in MajorityCnt(c.data)
    <3>1. Len(c.labels) = 0
      <4>1. 1 \in DOMAIN rows
        BY <2>2, <2>4
      <4>2. Len(c.data[1]) = Len(c.labels) + 1
        BY <2>2, <4>1
      <4>3. PICK l \in Nat : l = Len(c.labels)
        BY <2>2
      <4>4. 1 = l + 1
        BY <2>8, <4>2, <4>3
      <4> QED BY <4>3, <4>4
    <3>2. ToSet(c.labels) = {}
      <4>1. DOMAIN c.labels = 1 .. 0
        BY <2>2, <3>1, LenProperties DEF IsSeq
      <4> QED BY <4>1 DEF ToSet
    <3>3. \A f \in 1 .. Columns(D) : \E k \in DOMAIN c.path : KeyOf(D, tree2, c.path, k) = f
      BY <2>1, <3>2 DEF Fits
    <3>4. ASSUME NEW k \in Classes PROVE ClassCount(c.data, k) <= ClassCount(c.data, cl)
      <4>1. CASE k \in ValuesOf(c.data, 0)
        BY <2>8, <4>1 DEF MajorityCnt
      <4>2. CASE k \notin ValuesOf(c.data, 0)
        <5>1. {n \in DOMAIN c.data : Last(c.data[n]) = k} = {}
          BY <2>3, <4>2
        <5>2. ClassCount(c.data, k) = 0
          BY <5>1, FS_EmptySet DEF ClassCount
        <5>3. ClassCount(c.data, cl) \in Nat
          <6>1. IsFiniteSet({n \in DOMAIN c.data : Last(c.data[n]) = cl})
            BY <2>4, FS_Subset
          <6> QED BY <6>1, FS_CardinalityType DEF ClassCount
        <5> QED BY <5>2, <5>3
      <4> QED BY <4>1, <4>2
    <3>5. \A k \in Classes : ClassCount(rows, k) <= ClassCount(rows, cl)
      BY <2>2, <3>4
    <3> QED BY <1>1, <2>6, <3>3, <3>5 DEF LeafOK, rows, agreeing
  <2> QED BY <2>7, <2>8
<1>5. \A p \in DOMAIN tree2 : NodeOK(D, tree2, Known(tree2, todo2), p)
  <2>1. NodeOK(D, tree2, Known(tree2, todo2), c.path)
    BY <1>1, <1>4 DEF NodeOK
  <2> QED BY <1>1, <1>3, <2>1
<1> QED BY <1>2, <1>3, <1>5 DEF Built

\* A call that splits has built its dict, and leaves one call to do for each
\* value of the feature.
LEMMA DictBuilt ==
  ASSUME NEW D \in Datasets, NEW tree, NEW todo, Built(D, tree, todo),
         NEW rest, NEW c, todo = rest \cup {c}, \A d \in rest : d.path # c.path,
         Len(c.data[1]) > 1,
         NEW axis, axis = ChooseBestFeatureToSplit(c.data),
         NEW position, position = IF axis = 0 THEN Len(c.labels) ELSE axis,
         NEW frame, frame.path = c.path, frame.data = c.data, frame.axis = axis,
         frame.labels = RemoveAt(c.labels, position), frame.values = ValuesOf(c.data, axis),
         NEW tree2, tree2 = Put(tree, c.path, [kind |-> "dict", name |-> c.labels[position]])
  PROVE  Built(D, tree2, rest \cup CallsOf(frame))
<1> DEFINE todo2 == rest \cup CallsOf(frame)
           V == ValuesOf(c.data, axis)
           below == {Append(c.path, v) : v \in V}
           known2 == Known(tree, todo) \cup below
           rows == Selected(D, Agreeing(D, tree2, c.path))
<1>1. /\ DOMAIN tree2 = DOMAIN tree \cup {c.path} /\ Grown(tree, tree2)
      /\ tree2[c.path].kind = "dict" /\ tree2[c.path].name = c.labels[position]
  <2>1. c.path \notin DOMAIN tree
    BY DEF Built, Shape
  <2>2. PICK node : node = [kind |-> "dict", name |-> c.labels[position]]
    OBVIOUS
  <2>3. /\ DOMAIN Put(tree, c.path, node) = DOMAIN tree \cup {c.path}
        /\ Put(tree, c.path, node)[c.path] = node
        /\ Grown(tree, Put(tree, c.path, node))
    BY <2>1, NewNode
  <2> QED BY <2>2, <2>3
<1>2. \A d \in CallsOf(frame) : \E v \in V :
        /\ d.path = Append(c.path, v)
        /\ d.data = SplitDataSet(c.data, axis, v)
        /\ d.labels = RemoveAt(c.labels, position)
  BY DEF CallsOf, CallFor
<1>3. /\ \A d \in CallsOf(frame) : d.path \in below
      /\ \A p \in below : \E d \in CallsOf(frame) : d.path = p
  <2>1. \A v \in V : CallFor(frame, v) \in CallsOf(frame) /\ CallFor(frame, v).path = Append(c.path, v)
    BY DEF CallsOf, CallFor
  <2> HIDE DEF V
  <2> QED BY <1>2, <2>1
<1>4. Shape(tree2, todo2) /\ Known(tree2, todo2) = known2
  <2>1. Shape(tree, todo)
    BY DEF Built
  <2>2. \A p \in below : \E v : p = Append(c.path, v)
    OBVIOUS
  <2> HIDE DEF below
  <2>3. DOMAIN tree2 = DOMAIN tree \cup {c.path} /\ Grown(tree, tree2) /\ tree2[c.path].kind = "dict"
    BY <1>1
  <2>4. Splits(tree, todo, rest, c, tree2, CallsOf(frame), below, todo2, known2)
    BY <1>3, <2>2, <2>3 DEF Splits
  <2> HIDE DEF todo2, known2
  <2> QED BY <2>1, <2>4, DictShape
<1>5. /\ \A d \in todo : CallOK(D, tree2, d)
      /\ \A p \in DOMAIN tree : NodeOK(D, tree2, known2, p)
  BY <1>1, NodesStable
<1>6. /\ IsSeq(c.path) /\ Rooted(tree, c.path)
      /\ IsSeq(c.data) /\ c.data # <<>> /\ (OnFeatures(c.path) => Fits(D, tree, c.path, c.data, c.labels))
  BY DEF Built, Shape, CallOK, Known
<1>7. PICK v0 : v0 \in V /\ v0 = Cell(c.data[1], axis)
  <2>1. DOMAIN c.data = 1 .. Len(c.data) /\ Len(c.data) \in Nat \ {0}
    BY <1>6, LenProperties, EmptySeq DEF IsSeq
  <2>2. 1 \in DOMAIN c.data
    BY <2>1
  <2> QED BY <2>2 DEF ValuesOf
<1>8. ASSUME OnFeatures(c.path)
      PROVE  /\ position \in 1 .. Len(c.labels)
             /\ axis # 0 => axis \in 1 .. Len(c.labels) /\ position = axis
             /\ axis = 0 => V \subseteq Classes
             /\ c.labels[position] \in ToSet(FeatNames(D))
             /\ axis # 0 => \A row \in Agreeing(D, tree2, c.path) : row[Feature(D, c.labels[axis])] \in V
  <2>1. Fits(D, tree2, c.path, c.data, c.labels)
    BY <1>5, <1>8 DEF CallOK
  <2>2. /\ IsSeq(c.labels) /\ Len(c.labels) \in Nat
        /\ DOMAIN c.data = DOMAIN rows
        /\ \A n \in DOMAIN rows :
             /\ rows[n] \in Agreeing(D, tree2, c.path) /\ Last(rows[n]) \in Classes
             /\ Len(c.data[n]) = Len(c.labels) + 1
             /\ Last(c.data[n]) = Last(rows[n])
             /\ \A a \in 1 .. Len(c.labels) : c.data[n][a] = rows[n][Feature(D, c.labels[a])]
        /\ \A row \in Agreeing(D, tree2, c.path) : \E n \in DOMAIN rows : rows[n] = row
    BY <2>1, DataRows
  <2> HIDE DEF rows
  <2>3. Len(c.data[1]) = Len(c.labels) + 1
    <3>1. DOMAIN c.data = 1 .. Len(c.data) /\ Len(c.data) \in Nat \ {0}
      BY <1>6, LenProperties, EmptySeq DEF IsSeq
    <3>2. 1 \in DOMAIN rows
      BY <2>2, <3>1
    <3> QED BY <2>2, <3>2
  <2>4. axis \in 0 .. Len(c.labels)
    <3>1. Len(c.data[1]) \in Nat
      BY <2>2, <2>3
    <3>2. axis \in 0 .. Len(c.data[1]) - 1 \/ axis = 0
      BY <1>6, <3>1, BestFeature
    <3> QED BY <2>2, <2>3, <3>2
  <2>5. position \in 1 .. Len(c.labels) /\ (axis # 0 => axis \in 1 .. Len(c.labels) /\ position = axis)
    BY <2>2, <2>3, <2>4
  <2>6. axis = 0 => V \subseteq Classes
    BY <2>2 DEF ValuesOf, Cell
  <2>7. c.labels[position] \in ToSet(FeatNames(D))
    <3>1. c.labels \in Seq(ToSet(FeatNames(D)))
      BY <2>1 DEF Fits
    <3> QED BY <2>5, <3>1, ElementOfSeq
  <2>8. axis # 0 => \A row \in Agreeing(D, tree2, c.path) : row[Feature(D, c.labels[axis])] \in V
    <3> SUFFICES ASSUME axis # 0, NEW row \in Agreeing(D, tree2, c.path)
                 PROVE  row[Feature(D, c.labels[axis])] \in V
      OBVIOUS
    <3>1. PICK n \in DOMAIN rows : rows[n] = row
      BY <2>2
    <3>2. c.data[n][axis] = row[Feature(D, c.labels[axis])]
      BY <2>2, <2>5, <3>1
    <3> QED BY <2>2, <3>2 DEF ValuesOf, Cell
  <2> QED BY <2>5, <2>6, <2>7, <2>8
<1> HIDE DEF V
<1>9. ASSUME NEW v \in V PROVE OnFeatures(Append(c.path, v)) => OnFeatures(c.path) /\ v \notin Classes
  <2>1. ToSet(Append(c.path, v)) = ToSet(c.path) \cup {v}
    BY <1>6, PathAppend
  <2> QED BY <2>1 DEF OnFeatures
<1>10. \A d \in CallsOf(frame) : CallOK(D, tree2, d)
  <2> SUFFICES ASSUME NEW d \in CallsOf(frame) PROVE CallOK(D, tree2, d)
    OBVIOUS
  <2>1. PICK v \in V : /\ d.path = Append(c.path, v)
                       /\ d.data = SplitDataSet(c.data, axis, v)
                       /\ d.labels = RemoveAt(c.labels, position)
    BY <1>2
  <2>2. IsSeq(d.data) /\ d.data # <<>>
    BY <1>6, <2>1, SplitNotEmpty DEF V
  <2>3. ASSUME OnFeatures(d.path) PROVE Fits(D, tree2, d.path, d.data, d.labels)
    <3>1. OnFeatures(c.path) /\ v \notin Classes
      BY <1>9, <2>1, <2>3
    <3>2. axis \in 1 .. Len(c.labels) /\ position = axis
      BY <1>8, <3>1
    <3>3. Fits(D, tree, c.path, c.data, c.labels) /\ tree2[c.path].name = c.labels[axis]
      BY <1>1, <1>6, <3>1, <3>2
    <3>4. Fits(D, tree2, Append(c.path, v), SplitDataSet(c.data, axis, v), RemoveAt(c.labels, axis))
      BY <1>1, <1>6, <3>2, <3>3, FitsChild
    <3> QED BY <2>1, <3>2, <3>4
  <2> QED BY <2>2, <2>3 DEF CallOK
<1>11. DictOK(D, tree2, known2, c.path)
  <2>1. Append(c.path, v0) \in known2 /\ Append(c.path, v0) # <<>> /\ Front(Append(c.path, v0)) = c.path
    BY <1>6, <1>7, PathAppend
  <2>2. ASSUME OnFeatures(c.path)
        PROVE  /\ tree2[c.path].name \in ToSet(FeatNames(D))
               /\ \/ \A row \in Agreeing(D, tree2, c.path) :
                       Append(c.path, row[Feature(D, tree2[c.path].name)]) \in known2
                  \/ \E k \in Classes : Append(c.path, k) \in known2
    <3>1. CASE axis = 0
      BY <1>1, <1>7, <1>8, <2>1, <2>2, <3>1
    <3>2. CASE axis # 0
      BY <1>1, <1>8, <2>2, <3>2
    <3> QED BY <3>1, <3>2, ZenonT(30)
  <2> HIDE DEF known2
  <2> QED BY <2>1, <2>2 DEF DictOK
<1>12. \A p \in DOMAIN tree2 : NodeOK(D, tree2, known2, p)
  <2>1. NodeOK(D, tree2, known2, c.path)
    BY <1>1, <1>11 DEF NodeOK
  <2> QED BY <1>1, <1>5, <2>1
<1>13. \A d \in todo2 : CallOK(D, tree2, d)
  BY <1>5, <1>10
<1> QED BY <1>4, <1>12, <1>13 DEF Built

-----------------------------------------------------------------------------
(* The loops on the stack, and the calls that they will make. *)

\* The calls still to come when one more call of createTree is in its loop.
LEMMA StackCallsAppend ==
  ASSUME NEW st, IsSeq(st), NEW frame
  PROVE  StackCalls(Append(st, frame)) = StackCalls(st) \cup CallsOf(frame)
<1> DEFINE st2 == Append(st, frame)
<1>1. PICK m \in Nat : m = Len(st)
  BY PathLength
<1>2. /\ DOMAIN st = 1 .. m /\ DOMAIN st2 = 1 .. m + 1
      /\ st2[m + 1] = frame /\ \A n \in 1 .. m : st2[n] = st[n]
  BY <1>1, PathAppend
<1> HIDE DEF st2
<1>3. \A d : (\E k \in 1 .. m + 1 : d \in CallsOf(st2[k])) <=> (\E k \in 1 .. m : d \in CallsOf(st[k])) \/ d \in CallsOf(frame)
  <2>1. \A k \in 1 .. m + 1 : k \in 1 .. m \/ k = m + 1
    OBVIOUS
  <2>2. \A k \in 1 .. m : k \in 1 .. m + 1
    OBVIOUS
  <2>3. m + 1 \in 1 .. m + 1
    OBVIOUS
  <2> QED BY <1>2, <2>1, <2>2, <2>3
<1>4. StackCalls(st2) = StackCalls(st) \cup CallsOf(frame)
  BY <1>2, <1>3 DEF StackCalls
<1> QED BY <1>4 DEF st2

\* A call of createTree that is through with its loop has no calls to come.
LEMMA StackCallsFront ==
  ASSUME NEW st, IsSeq(st), st # <<>>, Last(st).values = {}
  PROVE  StackCalls(Front(st)) = StackCalls(st)
<1>1. IsSeq(Front(st)) /\ st = Append(Front(st), Last(st))
  BY PathFront
<1>2. CallsOf(Last(st)) = {}
  BY DEF CallsOf
<1>3. PICK front, last : front = Front(st) /\ last = Last(st)
  OBVIOUS
<1>4. StackCalls(Append(front, last)) = StackCalls(front) \cup CallsOf(last)
  BY <1>1, <1>3, StackCallsAppend
<1> QED BY <1>1, <1>2, <1>3, <1>4

\* The stack after the innermost loop has gone on from a value.
Looped(st, v) == [st EXCEPT ![Len(st)].values = @ \ {v}]

\* The stack after the innermost loop has taken a value.
LEMMA LoopedProperties ==
  ASSUME NEW tree, NEW st, NEW here, Chain(tree, st, here), st # <<>>, NEW v
  PROVE  /\ IsSeq(Looped(st, v)) /\ Len(Looped(st, v)) = Len(st) /\ Len(st) \in Nat \ {0}
         /\ DOMAIN st = 1 .. Len(st) /\ DOMAIN Looped(st, v) = 1 .. Len(st)
         /\ \A k \in 1 .. Len(st) :
              k # Len(st) => Looped(st, v)[k] = st[k]
         /\ \E last :
              /\ Looped(st, v)[Len(st)] = last /\ IsFrame(last)
              /\ last.path = Last(st).path /\ last.data = Last(st).data /\ last.axis = Last(st).axis
              /\ last.labels = Last(st).labels /\ last.values = Last(st).values \ {v}
<1> DEFINE st2 == Looped(st, v)
<1>1. IsSeq(st)
  BY DEF Chain
<1>2. PICK n \in Nat \ {0} : n = Len(st)
  BY <1>1, EmptySeq DEF IsSeq
<1>3. st \in [1 .. n -> ToSet(st)] /\ DOMAIN st = 1 .. n
  BY <1>1, <1>2, LenProperties DEF IsSeq
<1>4. PICK last : last = st[n]
  OBVIOUS
<1>5. IsFrame(last)
  BY <1>2, <1>3, <1>4 DEF Chain
<1> DEFINE new == [last EXCEPT !.values = @ \ {v}]
<1>7. st2 = [st EXCEPT ![n] = new]
  BY <1>2, <1>4 DEF Looped
<1>8. new.path = last.path /\ new.data = last.data /\ new.axis = last.axis
      /\ new.labels = last.labels /\ new.values = last.values \ {v}
      /\ IsFrame(new)
  BY <1>5 DEF IsFrame
<1> HIDE DEF new, st2
<1>9. /\ DOMAIN st2 = 1 .. n
      /\ \A k \in 1 .. n : k # n => st2[k] = st[k]
      /\ st2[n] = new
  BY <1>3, <1>7
<1>10. IsSeq(st2) /\ Len(st2) = n
  <2>1. st2 \in [1 .. n -> ToSet(st) \cup {new}]
    BY <1>3, <1>7
  <2>2. st2 \in Seq(ToSet(st) \cup {new})
    BY <2>1, SeqDef
  <2> QED BY <1>9, <2>2, SeqIsSeq, LenProperties
<1>11. Last(st) = last
  BY <1>2, <1>4 DEF Last
<1> QED BY <1>2, <1>3, <1>8, <1>9, <1>10, <1>11 DEF st2

\* Taking a value takes the call for it out of those to come.
LEMMA StackCallsLooped ==
  ASSUME NEW tree, NEW st, NEW here, Chain(tree, st, here), st # <<>>, NEW v \in Last(st).values
  PROVE  StackCalls(st) = StackCalls(Looped(st, v)) \cup {CallFor(Last(st), v)}
<1>1. PICK st2 : st2 = Looped(st, v)
  OBVIOUS
<1>2. PICK n \in Nat \ {0} : n = Len(st)
  BY LoopedProperties
<1>3. /\ DOMAIN st = 1 .. n /\ DOMAIN st2 = 1 .. n
      /\ \A k \in 1 .. n : k # n => st2[k] = st[k]
      /\ st2[n].path = Last(st).path /\ st2[n].data = Last(st).data /\ st2[n].axis = Last(st).axis
      /\ st2[n].labels = Last(st).labels /\ st2[n].values = Last(st).values \ {v}
      /\ st[n] = Last(st)
  <2>1. st[n] = Last(st)
    BY <1>2 DEF Last
  <2>3. PICK last :
        /\ DOMAIN st = 1 .. n /\ DOMAIN st2 = 1 .. n
        /\ \A k \in 1 .. n : k # n => st2[k] = st[k]
        /\ st2[n] = last
        /\ last.path = Last(st).path /\ last.data = Last(st).data /\ last.axis = Last(st).axis
        /\ last.labels = Last(st).labels /\ last.values = Last(st).values \ {v}
    BY <1>1, <1>2, LoopedProperties
  <2> QED BY <2>1, <2>3
<1>4. CallsOf(st[n]) = CallsOf(st2[n]) \cup {CallFor(Last(st), v)}
  <2>1. \A w : CallFor(st2[n], w) = CallFor(Last(st), w)
    BY <1>3 DEF CallFor
  <2> QED BY <1>3, <2>1 DEF CallsOf
<1>5. \A d : (\E k \in 1 .. n : d \in CallsOf(st[k])) <=>
             (\E k \in 1 .. n : d \in CallsOf(st2[k])) \/ d = CallFor(Last(st), v)
  <2>1. n \in 1 .. n
    OBVIOUS
  <2> QED BY <1>3, <1>4, <2>1
<1>6. StackCalls(st) = StackCalls(st2) \cup {CallFor(Last(st), v)}
  <2>1. PICK x : x = CallFor(Last(st), v)
    OBVIOUS
  <2>2. /\ \A d : d \in StackCalls(st) <=> \E k \in 1 .. n : d \in CallsOf(st[k])
        /\ \A d : d \in StackCalls(st2) <=> \E k \in 1 .. n : d \in CallsOf(st2[k])
    BY <1>3 DEF StackCalls
  <2>3. \A d : d \in StackCalls(st) <=> d \in StackCalls(st2) \/ d = x
    BY <1>5, <2>1, <2>2
  <2>4. StackCalls(st) = StackCalls(st2) \cup {x}
    BY <2>3
  <2> QED BY <2>1, <2>4
<1> QED BY <1>1, <1>6

\* No loop will call for the path of the call that goes on.
LEMMA OtherPaths ==
  ASSUME NEW tree, NEW st, NEW here, IsSeq(here), Chain(tree, st, here), Len(st) = Len(here),
         NEW d \in StackCalls(st)
  PROVE  d.path # here
<1>0. PICK k \in DOMAIN st : d \in CallsOf(st[k])
  BY DEF StackCalls
<1>1. PICK v \in st[k].values : d = CallFor(st[k], v)
  BY <1>0 DEF CallsOf
<1>2. /\ d.path = Append(st[k].path, v) /\ st[k].path = SubSeq(here, 1, k - 1)
      /\ (k \in DOMAIN here => here[k] \notin st[k].values)
  BY <1>1 DEF CallFor, Chain
<1>3. PICK n \in Nat : n = Len(here) /\ DOMAIN here = 1 .. n
  BY LenProperties DEF IsSeq
<1>4. DOMAIN st = 1 .. n
  BY <1>3, LenProperties DEF Chain, IsSeq
<1>5. k - 1 \in 0 .. n /\ k \in DOMAIN here
  BY <1>3, <1>4
<1>6. PICK p : p = SubSeq(here, 1, k - 1)
  OBVIOUS
<1>7. IsSeq(p) /\ Len(p) = k - 1
  BY <1>3, <1>5, <1>6, PathPrefix
<1>8. Append(p, v)[(k - 1) + 1] = v
  <2>1. Append(p, v)[Len(p) + 1] = v
    BY <1>7, PathAppend
  <2> QED BY <1>7, <2>1
<1>9. (k - 1) + 1 = k
  BY <1>5
<1>10. d.path[k] = v
  BY <1>2, <1>6, <1>8, <1>9
<1> QED BY <1>1, <1>2, <1>5, <1>10

\* The chain from the node above.
LEMMA ChainLast ==
  ASSUME NEW tree, NEW st, NEW here, IsSeq(here), Chain(tree, st, here), st # <<>>, Len(st) = Len(here)
  PROVE  Chain(tree, st, Last(st).path) /\ Len(st) = Len(Last(st).path) + 1
<1>1. PICK n \in Nat \ {0} : n = Len(st) /\ n = Len(here) /\ DOMAIN st = 1 .. n /\ DOMAIN here = 1 .. n
  BY EmptySeq, LenProperties DEF Chain, IsSeq
<1>2. Last(st).path = SubSeq(here, 1, n - 1)
  BY <1>1 DEF Chain, Last
<1>3. PICK up : up = SubSeq(here, 1, n - 1)
  OBVIOUS
<1>4. /\ IsSeq(up) /\ Len(up) = n - 1 /\ DOMAIN up = 1 .. n - 1
      /\ \A k \in 1 .. n - 1 : up[k] = here[k]
      /\ \A k \in 0 .. n - 1 : SubSeq(up, 1, k) = SubSeq(here, 1, k)
  <2>1. n - 1 \in 0 .. Len(here)
    BY <1>1
  <2> QED BY <1>3, <2>1, PathPrefix
<1>5. \A k \in 1 .. n : SubSeq(up, 1, k - 1) = SubSeq(here, 1, k - 1)
  BY <1>4
<1>6. Chain(tree, st, up)
  BY <1>1, <1>4, <1>5 DEF Chain
<1> QED BY <1>1, <1>2, <1>3, <1>4, <1>6

\* The stack under the innermost call leads to the same node.
LEMMA ChainFront ==
  ASSUME NEW tree, NEW st, NEW here, Chain(tree, st, here), st # <<>>
  PROVE  Chain(tree, Front(st), here) /\ Len(Front(st)) = Len(st) - 1
<1>1. IsSeq(st)
  BY DEF Chain
<1>2. PICK n \in Nat \ {0} : n = Len(st)
  BY <1>1, PathFront
<1>3. n - 1 \in 0 .. Len(st) /\ DOMAIN st = 1 .. n
  BY <1>1, <1>2, LenProperties DEF IsSeq
<1>4. PICK front : front = Front(st)
  OBVIOUS
<1>5. IsSeq(front) /\ Len(front) = n - 1 /\ DOMAIN front = 1 .. n - 1 /\ \A k \in 1 .. n - 1 : front[k] = st[k]
  BY <1>1, <1>2, <1>3, <1>4, PathPrefix DEF Front
<1>6. \A k \in 1 .. n - 1 : k \in DOMAIN st /\ front[k] = st[k]
  BY <1>3, <1>5
<1>7. Chain(tree, front, here)
  BY <1>5, <1>6 DEF Chain
<1> QED BY <1>2, <1>4, <1>5, <1>7

\* The call that split a node is in its loop at this node.
LEMMA ChainAppend ==
  ASSUME NEW tree, NEW st, NEW here, IsSeq(here), Chain(tree, st, here), Len(st) = Len(here),
         NEW frame, IsFrame(frame),
         frame.path = here, here \in DOMAIN tree
  PROVE  Chain(tree, Append(st, frame), here)
<1>1. IsSeq(st)
  BY DEF Chain
<1>2. PICK n \in Nat : n = Len(st) /\ n = Len(here)
  BY <1>1, PathLength
<1>3. PICK st2 : st2 = Append(st, frame)
  OBVIOUS
<1>4. /\ IsSeq(st2) /\ DOMAIN st2 = 1 .. n + 1 /\ DOMAIN st = 1 .. n
      /\ st2[n + 1] = frame /\ \A k \in 1 .. n : st2[k] = st[k]
  BY <1>1, <1>2, <1>3, PathAppend
<1>5. SubSeq(here, 1, n) = here /\ DOMAIN here = 1 .. n
  BY <1>2, PathAppend
<1>6. ASSUME NEW k \in DOMAIN st2
      PROVE  /\ IsFrame(st2[k])
             /\ st2[k].path = SubSeq(here, 1, k - 1)
             /\ k \in DOMAIN here => here[k] \notin st2[k].values
             /\ st2[k].path \in DOMAIN tree
  <2>1. CASE k \in 1 .. n
    BY <1>4, <2>1 DEF Chain
  <2>2. CASE k = n + 1
    <3>1. SubSeq(here, 1, k - 1) = here
      BY <1>5, <2>2
    <3>2. k \notin DOMAIN here
      BY <1>5, <2>2
    <3>3. st2[k] = frame
      BY <1>4, <2>2
    <3> QED BY <3>1, <3>2, <3>3
  <2> QED BY <1>4, <2>1, <2>2
<1> QED BY <1>3, <1>4, <1>6 DEF Chain

\* The call for a value of the innermost loop is one level below it.
LEMMA ChainLooped ==
  ASSUME NEW tree, NEW st, IsSeq(Last(st).path), Chain(tree, st, Last(st).path), st # <<>>,
         Len(st) = Len(Last(st).path) + 1, NEW v
  PROVE  /\ Chain(tree, Looped(st, v), Append(Last(st).path, v))
         /\ Len(Looped(st, v)) = Len(Append(Last(st).path, v))
<1>0. PICK here : here = Last(st).path
  OBVIOUS
<1>9. IsSeq(here) /\ Chain(tree, st, here) /\ Len(st) = Len(here) + 1
  BY <1>0
<1>1. PICK st2 : st2 = Looped(st, v)
  OBVIOUS
<1>2. PICK q : q = Append(here, v)
  OBVIOUS
<1>3. PICK n \in Nat \ {0} : n = Len(st)
  BY <1>9, LoopedProperties
<1>5. PICK last :
      /\ IsSeq(st2) /\ Len(st2) = n
      /\ DOMAIN st = 1 .. n /\ DOMAIN st2 = 1 .. n
      /\ \A k \in 1 .. n : k # n => st2[k] = st[k]
      /\ st2[n] = last /\ IsFrame(last)
      /\ last.path = here /\ last.values = Last(st).values \ {v}
  BY <1>0, <1>1, <1>3, <1>9, LoopedProperties
<1>6. /\ Len(here) = n - 1 /\ DOMAIN here = 1 .. n - 1
      /\ Len(q) = n /\ DOMAIN q = 1 .. n /\ q[n] = v
      /\ \A k \in 1 .. n - 1 : q[k] = here[k]
      /\ \A k \in 0 .. n - 1 : SubSeq(q, 1, k) = SubSeq(here, 1, k)
      /\ SubSeq(here, 1, n - 1) = here
  <2>1. PICK m \in Nat : m = Len(here)
    BY <1>9, PathLength
  <2>2. m = n - 1 /\ m + 1 = n
    BY <1>3, <1>9, <2>1
  <2>3. /\ DOMAIN here = 1 .. m
        /\ Len(q) = m + 1 /\ DOMAIN q = 1 .. m + 1 /\ q[m + 1] = v
        /\ \A k \in 1 .. m : q[k] = here[k]
        /\ \A k \in 0 .. m : SubSeq(q, 1, k) = SubSeq(here, 1, k)
        /\ SubSeq(here, 1, m) = here
    BY <1>2, <1>9, <2>1, PathAppend
  <2> QED BY <2>1, <2>2, <2>3
<1>7. ASSUME NEW k \in 1 .. n
      PROVE  /\ IsFrame(st2[k])
             /\ st2[k].path = SubSeq(q, 1, k - 1)
             /\ k \in DOMAIN q => q[k] \notin st2[k].values
             /\ st2[k].path \in DOMAIN tree
  <2>1. SubSeq(q, 1, k - 1) = SubSeq(here, 1, k - 1)
    BY <1>6
  <2>2. CASE k # n
    <3>1. k \in DOMAIN here /\ q[k] = here[k] /\ st2[k] = st[k]
      BY <1>5, <1>6, <2>2
    <3> QED BY <1>5, <1>9, <2>1, <3>1 DEF Chain
  <2>3. CASE k = n
    <3>1. SubSeq(q, 1, k - 1) = here
      BY <1>6, <2>1, <2>3
    <3>2. here \in DOMAIN tree
      <4>1. st[n].path = SubSeq(here, 1, n - 1) /\ st[n].path \in DOMAIN tree
        BY <1>5, <1>9 DEF Chain
      <4> QED BY <1>6, <4>1
    <3> QED BY <1>5, <1>6, <2>3, <3>1, <3>2
  <2> QED BY <2>2, <2>3
<1>8. Chain(tree, st2, q)
  BY <1>5, <1>7 DEF Chain
<1> QED BY <1>0, <1>1, <1>2, <1>5, <1>6, <1>8

\* The stack leads to the same node when nodes are added.
LEMMA ChainGrown ==
  ASSUME NEW tree, NEW st, NEW here, Chain(tree, st, here), NEW tree2, Grown(tree, tree2)
  PROVE  Chain(tree2, st, here)
BY DEF Chain, Grown

-----------------------------------------------------------------------------
(* The calls are built step by step. *)

\* All columns of a row, and its class, are the row.
LEMMA PartWhole ==
  ASSUME NEW D \in Datasets, NEW row \in ToSet(D)
  PROVE  Part(D, FeatNames(D), row) = row
<1>1. PICK n \in Nat : n = Columns(D)
  BY TrainingSet
<1>2. /\ IsSeq(FeatNames(D)) /\ Len(FeatNames(D)) = n
      /\ \A f \in 1 .. n : Feature(D, FeatNames(D)[f]) = f
  BY <1>1, TrainingSet DEF IsSeq
<1>3. IsSeq(row) /\ Len(row) = n + 1
  BY <1>1, TrainingSet
<1>4. PICK part : part = Part(D, FeatNames(D), row)
  OBVIOUS
<1>5. /\ IsSeq(part) /\ Len(part) = n + 1 /\ part[n + 1] = Last(row)
      /\ \A k \in 1 .. n : part[k] = row[Feature(D, FeatNames(D)[k])]
  <2>1. /\ IsSeq(part) /\ Len(part) = Len(FeatNames(D)) + 1
        /\ part[Len(FeatNames(D)) + 1] = Last(row)
        /\ \A k \in 1 .. Len(FeatNames(D)) : part[k] = row[Feature(D, FeatNames(D)[k])]
    BY <1>2, <1>4, PartProperties
  <2> QED BY <1>2, <2>1
<1>6. \A k \in 1 .. n : part[k] = row[k]
  BY <1>2, <1>5
<1>7. part[n + 1] = row[n + 1]
  BY <1>3, <1>5 DEF Last
<1>8. \A k \in 1 .. n + 1 : part[k] = row[k]
  BY <1>6, <1>7
<1>9. part = row
  BY <1>3, <1>5, <1>8, PathEqual
<1> QED BY <1>4, <1>9

\* The first call has the whole training set.
LEMMA FirstFits ==
  ASSUME NEW D \in Datasets, NEW tree
  PROVE  Fits(D, tree, <<>>, D, FeatNames(D))
<1>1. Agreeing(D, tree, <<>>) = ToSet(D)
  BY EmptyPath DEF Agreeing
<1>2. D \in Seq(ToSet(D)) /\ DOMAIN D = 1 .. Len(D)
  BY TrainingSet
<1>3. Selected(D, ToSet(D)) = D
  BY <1>2, SelectedAll
<1>4. FeatNames(D) \in Seq(ToSet(FeatNames(D)))
      /\ \A f \in 1 .. Columns(D) : FeatNames(D)[f] \in ToSet(FeatNames(D))
  BY TrainingSet
<1>5. \A n \in DOMAIN D : Part(D, FeatNames(D), D[n]) = D[n]
  BY PartWhole DEF ToSet
<1>6. D = [n \in DOMAIN D |-> Part(D, FeatNames(D), D[n])]
  <2>1. PICK m \in Nat : DOMAIN D = 1 .. m /\ D \in [1 .. m -> ToSet(D)]
    <3>1. Len(D) \in Nat /\ DOMAIN D = 1 .. Len(D) /\ D \in [1 .. Len(D) -> ToSet(D)]
      BY <1>2, LenProperties
    <3> QED BY <3>1
  <2> QED BY <1>5, <2>1
<1> QED BY <1>1, <1>3, <1>4, <1>6 DEF Fits

\* At the beginning nothing is built and one call, for the root, is to come.
LEMMA InitBuilt == Init => BuildInv
<1> SUFFICES ASSUME Init PROVE BuildInv
  OBVIOUS
<1>1. /\ dataSet \in Datasets /\ stack = <<>> /\ pc = "createTree"
      /\ call.path = <<>> /\ call.data = dataSet /\ call.labels = FeatNames(dataSet)
      /\ DOMAIN myTree = {}
  BY DEF Init, Names, NumFeatures, FeatNames, Columns
<1>2. Todo = {call}
  BY <1>1, EmptyPath DEF Todo, StackCalls
<1>3. Known(myTree, Todo) = {<<>>}
  BY <1>1, <1>2 DEF Known
<1>4. Shape(myTree, Todo)
  <2>1. IsFiniteSet(DOMAIN myTree)
    BY <1>1, FS_EmptySet
  <2>2. IsSeq(<<>>) /\ Rooted(myTree, <<>>)
    BY EmptyPath DEF Rooted
  <2> QED BY <1>1, <1>3, <2>1, <2>2 DEF Shape
<1>5. CallOK(dataSet, myTree, call)
  BY <1>1, FirstFits, TrainingSet DEF CallOK, IsSeq
<1>6. Built(dataSet, myTree, Todo)
  BY <1>1, <1>2, <1>4, <1>5 DEF Built
<1>7. Chained
  BY <1>1, EmptyPath DEF Chained, Chain
<1> QED BY <1>1, <1>6, <1>7 DEF BuildInv

\* What the chain says of the place where createTree is.
LEMMA Here ==
  ASSUME BuildInv
  PROVE  /\ IsSeq(stack) \/ pc \notin {"createTree", "branch"}
         /\ pc = "createTree" =>
              /\ IsSeq(call.path) /\ Chain(myTree, stack, call.path) /\ Len(stack) = Len(call.path)
              /\ Todo = StackCalls(stack) \cup {call}
              /\ \A d \in StackCalls(stack) : d.path # call.path
         /\ pc = "branch" =>
              /\ stack # <<>> /\ IsSeq(Last(stack).path)
              /\ Chain(myTree, stack, Last(stack).path) /\ Len(stack) = Len(Last(stack).path) + 1
              /\ Todo = StackCalls(stack)
<1>1. Shape(myTree, Todo) /\ Chained
  BY DEF BuildInv, Built
<1>2. ASSUME pc = "createTree"
      PROVE  /\ IsSeq(call.path) /\ Chain(myTree, stack, call.path) /\ Len(stack) = Len(call.path)
             /\ Todo = StackCalls(stack) \cup {call}
             /\ \A d \in StackCalls(stack) : d.path # call.path
  <2>1. Todo = StackCalls(stack) \cup {call}
    BY <1>2 DEF Todo
  <2>2. IsSeq(call.path)
    BY <1>1, <2>1 DEF Shape, Known
  <2>3. Chain(myTree, stack, call.path) /\ Len(stack) = Len(call.path)
    BY <1>1, <1>2 DEF Chained
  <2>4. \A d \in StackCalls(stack) : d.path # call.path
    BY <2>2, <2>3, OtherPaths
  <2> QED BY <2>1, <2>2, <2>3, <2>4
<1>3. ASSUME pc = "branch"
      PROVE  /\ stack # <<>> /\ IsSeq(Last(stack).path)
             /\ Chain(myTree, stack, Last(stack).path) /\ Len(stack) = Len(Last(stack).path) + 1
             /\ Todo = StackCalls(stack)
  <2>1. stack # <<>> /\ Chain(myTree, stack, Last(stack).path) /\ Len(stack) = Len(Last(stack).path) + 1
    BY <1>1, <1>3 DEF Chained
  <2>2. PICK n \in Nat \ {0} : n = Len(stack) /\ DOMAIN stack = 1 .. n
    BY <2>1, EmptySeq, LenProperties DEF Chain, IsSeq
  <2>3. Last(stack).path \in DOMAIN myTree
    BY <2>1, <2>2 DEF Chain, Last
  <2>4. IsSeq(Last(stack).path)
    BY <1>1, <2>3 DEF Shape, Known
  <2>5. Todo = StackCalls(stack)
    BY <1>3 DEF Todo
  <2> QED BY <2>1, <2>4, <2>5
<1>4. IsSeq(stack) \/ pc \notin {"createTree", "branch"}
  BY <1>2, <1>3 DEF Chain
<1> QED BY <1>2, <1>3, <1>4

\* createTree returns a class.
LEMMA StepLeaf ==
  ASSUME BuildInv, pc = "createTree", NEW cl,
         \/ Cardinality(ValuesOf(call.data, 0)) = 1 /\ cl \in ValuesOf(call.data, 0)
         \/ Len(call.data[1]) = 1 /\ cl \in MajorityCnt(call.data),
         ReturnLeaf(cl), UNCHANGED dataSet
  PROVE  BuildInv'
<1>1. /\ IsSeq(call.path) /\ Chain(myTree, stack, call.path) /\ Len(stack) = Len(call.path)
      /\ Todo = StackCalls(stack) \cup {call}
      /\ \A d \in StackCalls(stack) : d.path # call.path
  BY Here
<1>2. /\ myTree' = Put(myTree, call.path, [kind |-> "leaf", name |-> cl])
      /\ stack' = stack
      /\ pc' = IF stack = <<>> THEN "returned" ELSE "branch"
  BY DEF ReturnLeaf
<1>3. dataSet \in Datasets /\ Built(dataSet, myTree, Todo)
  BY DEF BuildInv
<1>4. Built(dataSet, myTree', StackCalls(stack))
  BY <1>1, <1>2, <1>3, LeafBuilt
<1>5. Todo' = StackCalls(stack)
  BY <1>2 DEF Todo
<1>6. Grown(myTree, myTree')
  <2>1. call.path \notin DOMAIN myTree
    BY <1>1, <1>3 DEF Built, Shape
  <2> QED BY <1>2, <2>1, NewNode
<1>7. Chained'
  <2>1. CASE stack = <<>>
    BY <1>2, <2>1 DEF Chained
  <2>2. CASE stack # <<>>
    <3>1. Chain(myTree, stack, Last(stack).path) /\ Len(stack) = Len(Last(stack).path) + 1
      BY <1>1, <2>2, ChainLast
    <3>2. Chain(myTree', stack, Last(stack).path)
      BY <1>6, <3>1, ChainGrown
    <3> QED BY <1>2, <2>2, <3>1, <3>2 DEF Chained
  <2> QED BY <2>1, <2>2
<1>8. Built(dataSet', myTree', Todo')
  BY <1>4, <1>5
<1> QED BY <1>3, <1>7, <1>8 DEF BuildInv

\* createTree makes a dict of the best feature and enters its loop.
LEMMA StepDict ==
  ASSUME BuildInv, pc = "createTree", Len(call.data[1]) > 1, SplitOnBest, UNCHANGED dataSet
  PROVE  BuildInv'
<1>1. /\ IsSeq(call.path) /\ Chain(myTree, stack, call.path) /\ Len(stack) = Len(call.path)
      /\ Todo = StackCalls(stack) \cup {call}
      /\ \A d \in StackCalls(stack) : d.path # call.path
  BY Here
<1>2. PICK axis : axis = ChooseBestFeatureToSplit(call.data)
  OBVIOUS
<1>3. PICK position : position = IF axis = 0 THEN Len(call.labels) ELSE axis
  OBVIOUS
<1>4. PICK frame : frame = [path |-> call.path, data |-> call.data, axis |-> axis,
                            labels |-> RemoveAt(call.labels, position), values |-> ValuesOf(call.data, axis)]
  OBVIOUS
<1>5. /\ frame.path = call.path /\ frame.data = call.data /\ frame.axis = axis
      /\ frame.labels = RemoveAt(call.labels, position) /\ frame.values = ValuesOf(call.data, axis)
      /\ IsFrame(frame)
  BY <1>4 DEF IsFrame
<1>6. /\ myTree' = Put(myTree, call.path, [kind |-> "dict", name |-> call.labels[position]])
      /\ stack' = Append(stack, frame)
      /\ pc' = "branch"
  BY <1>2, <1>3, <1>4 DEF SplitOnBest
<1>7. dataSet \in Datasets /\ Built(dataSet, myTree, Todo)
  BY DEF BuildInv
<1>8. Built(dataSet, myTree', StackCalls(stack) \cup CallsOf(frame))
  BY <1>1, <1>2, <1>3, <1>5, <1>6, <1>7, DictBuilt
<1>9. IsSeq(stack)
  BY <1>1 DEF Chain
<1>10. Todo' = StackCalls(stack) \cup CallsOf(frame)
  <2>1. Todo' = StackCalls(Append(stack, frame))
    BY <1>6 DEF Todo
  <2> QED BY <1>9, <2>1, StackCallsAppend
<1>11. Grown(myTree, myTree') /\ call.path \in DOMAIN myTree'
  <2>1. call.path \notin DOMAIN myTree
    BY <1>1, <1>7 DEF Built, Shape
  <2>2. PICK node : node = [kind |-> "dict", name |-> call.labels[position]]
    OBVIOUS
  <2>3. /\ DOMAIN Put(myTree, call.path, node) = DOMAIN myTree \cup {call.path}
        /\ Put(myTree, call.path, node)[call.path] = node
        /\ Grown(myTree, Put(myTree, call.path, node))
    BY <2>1, NewNode
  <2> QED BY <1>6, <2>2, <2>3
<1>12. Chained'
  <2>1. Chain(myTree', stack, call.path)
    BY <1>1, <1>11, ChainGrown
  <2>2. Chain(myTree', stack', call.path)
    BY <1>1, <1>5, <1>6, <1>11, <2>1, ChainAppend
  <2>3. stack' # <<>> /\ Len(stack') = Len(stack) + 1 /\ Last(stack') = frame
    BY <1>6, <1>9, PathAppend
  <2>4. Last(stack').path = call.path /\ Len(stack') = Len(Last(stack').path) + 1
    BY <1>1, <1>5, <2>3
  <2> QED BY <1>6, <2>2, <2>3, <2>4 DEF Chained
<1>13. Built(dataSet', myTree', Todo')
  BY <1>8, <1>10
<1> QED BY <1>7, <1>12, <1>13 DEF BuildInv

\* The loop of createTree calls it for the next value.
LEMMA StepBranch ==
  ASSUME BuildInv, Branch
  PROVE  BuildInv'
<1>0. pc = "branch" /\ pc' = "createTree" /\ UNCHANGED <<dataSet, myTree>>
  BY DEF Branch
<1>1. /\ stack # <<>> /\ IsSeq(Last(stack).path)
      /\ Chain(myTree, stack, Last(stack).path) /\ Len(stack) = Len(Last(stack).path) + 1
      /\ Todo = StackCalls(stack)
  BY <1>0, Here
<1>2. PICK v \in Last(stack).values : call' = CallFor(Last(stack), v) /\ stack' = Looped(stack, v)
  BY DEF Branch, LoopOn, CallFor, Looped
<1>3. StackCalls(stack) = StackCalls(Looped(stack, v)) \cup {CallFor(Last(stack), v)}
  BY <1>1, StackCallsLooped
<1>4. Todo' = Todo
  <2>1. Todo' = StackCalls(stack') \cup {call'}
    BY <1>0 DEF Todo
  <2> QED BY <1>1, <1>2, <1>3, <2>1
<1>5. Built(dataSet', myTree', Todo')
  BY <1>0, <1>4 DEF BuildInv
<1>6. Chained'
  <2>1. /\ Chain(myTree, Looped(stack, v), Append(Last(stack).path, v))
        /\ Len(Looped(stack, v)) = Len(Append(Last(stack).path, v))
    BY <1>1, ChainLooped
  <2>2. call'.path = Append(Last(stack).path, v)
    BY <1>2 DEF CallFor
  <2> QED BY <1>0, <1>2, <2>1, <2>2 DEF Chained
<1> QED BY <1>0, <1>5, <1>6 DEF BuildInv

\* createTree returns its dict to the call above.
LEMMA StepReturn ==
  ASSUME BuildInv, ReturnDict
  PROVE  BuildInv'
<1>0. /\ pc = "branch" /\ Last(stack).values = {} /\ stack' = Front(stack)
      /\ pc' = IF stack' = <<>> THEN "returned" ELSE "branch"
      /\ UNCHANGED <<dataSet, myTree>>
  BY DEF ReturnDict
<1>1. /\ stack # <<>> /\ IsSeq(Last(stack).path)
      /\ Chain(myTree, stack, Last(stack).path) /\ Len(stack) = Len(Last(stack).path) + 1
      /\ Todo = StackCalls(stack)
  BY <1>0, Here
<1>2. IsSeq(stack)
  BY <1>1 DEF Chain
<1>3. Todo' = Todo
  <2>1. Todo' = StackCalls(stack')
    BY <1>0 DEF Todo
  <2>2. StackCalls(Front(stack)) = StackCalls(stack)
    BY <1>0, <1>1, <1>2, StackCallsFront
  <2> QED BY <1>0, <1>1, <2>1, <2>2
<1>4. Built(dataSet', myTree', Todo')
  BY <1>0, <1>3 DEF BuildInv
<1>5. Chained'
  <2>1. PICK here : here = Last(stack).path
    OBVIOUS
  <2>2. Chain(myTree, stack', here) /\ Len(stack') = Len(stack) - 1
    BY <1>0, <1>1, <2>1, ChainFront
  <2>3. PICK n \in Nat : n = Len(here)
    BY <1>1, <2>1, PathLength
  <2>4. Len(stack') = Len(here)
    BY <1>1, <2>1, <2>2, <2>3
  <2>5. CASE stack' = <<>>
    BY <1>0, <2>5 DEF Chained
  <2>6. CASE stack' # <<>>
    <3>1. Chain(myTree, stack', Last(stack').path) /\ Len(stack') = Len(Last(stack').path) + 1
      BY <1>1, <2>1, <2>2, <2>4, <2>6, ChainLast
    <3> QED BY <1>0, <2>6, <3>1 DEF Chained
  <2> QED BY <2>5, <2>6
<1> QED BY <1>0, <1>4, <1>5 DEF BuildInv

\* No step of createTree, and none of classify, breaks the invariant of the
\* half built tree.
LEMMA NextBuilt == BuildInv /\ [Next]_vars => BuildInv'
<1> SUFFICES ASSUME BuildInv, [Next]_vars PROVE BuildInv'
  OBVIOUS
<1>1. CASE CreateTree
  <2>1. pc = "createTree" /\ UNCHANGED dataSet
    BY <1>1 DEF CreateTree
  <2>2. ASSUME NEW cl \in ValuesOf(call.data, 0), Cardinality(ValuesOf(call.data, 0)) = 1, ReturnLeaf(cl)
        PROVE  BuildInv'
    BY <2>1, <2>2, StepLeaf
  <2>3. ASSUME NEW cl \in MajorityCnt(call.data), Len(call.data[1]) = 1, ReturnLeaf(cl)
        PROVE  BuildInv'
    BY <2>1, <2>3, StepLeaf
  <2>4. ASSUME Len(call.data[1]) > 1, SplitOnBest
        PROVE  BuildInv'
    BY <2>1, <2>4, StepDict
  <2> QED BY <1>1, <2>2, <2>3, <2>4 DEF CreateTree
<1>2. CASE Branch
  BY <1>2, StepBranch
<1>3. CASE ReturnDict
  BY <1>3, StepReturn
<1>4. CASE CallClassify \/ Classify \/ UNCHANGED vars
  <2>1. /\ UNCHANGED <<dataSet, myTree, stack, call>>
        /\ \/ pc' = pc
           \/ pc \notin {"createTree", "branch"} /\ pc' \notin {"createTree", "branch"}
    <3>1. CASE CallClassify
      BY <3>1 DEF CallClassify, buildVars
    <3>2. CASE UNCHANGED vars
      BY <3>2 DEF buildVars, vars
    <3>3. CASE Classify
      <4>1. pc = "classify" /\ UNCHANGED <<dataSet, myTree, stack, call>>
        BY <3>3 DEF Classify, buildVars
      <4>2. pc' = "classified" \/ pc' = pc
        BY <3>3 DEF Classify, Classified
      <4> QED BY <4>1, <4>2
    <3> QED BY <1>4, <3>1, <3>2, <3>3
  <2>2. Todo' = Todo
    BY <2>1 DEF Todo
  <2>3. Chained'
    <3>1. Chained
      BY DEF BuildInv
    <3> QED BY <2>1, <3>1 DEF Chained
  <2> QED BY <2>1, <2>2, <2>3 DEF BuildInv
<1> QED BY <1>1, <1>2, <1>3, <1>4 DEF Next

-----------------------------------------------------------------------------
(* What a finished tree says of a vector.                                  *)

\* The keys of a path are cells of the features, when no split is by class.
LEMMA KeysAreFeatures ==
  ASSUME NEW D \in Datasets, NEW tree, Built(D, tree, {}), \A q \in DOMAIN tree : OnFeatures(q),
         NEW p \in DOMAIN tree
  PROVE  IsSeq(p) /\ Rooted(tree, p) /\ \A k \in DOMAIN p : KeyOf(D, tree, p, k) \in 1 .. Columns(D)
<1>1. Shape(tree, {}) /\ \A q \in DOMAIN tree : NodeOK(D, tree, Known(tree, {}), q)
  BY DEF Built
<1>2. IsSeq(p) /\ Rooted(tree, p)
  BY <1>1 DEF Shape, Known
<1>3. ASSUME NEW k \in DOMAIN p PROVE KeyOf(D, tree, p, k) \in 1 .. Columns(D)
  <2>1. PICK q \in DOMAIN tree : q = SubSeq(p, 1, k - 1) /\ tree[q].kind = "dict"
    BY <1>2 DEF Rooted
  <2>2. tree[q].name \in ToSet(FeatNames(D))
    BY <1>1, <2>1 DEF NodeOK, DictOK
  <2>3. Feature(D, tree[q].name) \in 1 .. Columns(D)
    BY <2>2, TrainingSet
  <2> QED BY <2>1, <2>3 DEF KeyOf
<1> QED BY <1>2, <1>3

\* The features of a row, as a vector.
LEMMA VectorRow ==
  ASSUME NEW D \in Datasets, NEW row \in ToSet(D), NEW vec, Front(row) = vec
  PROVE  IsSeq(vec) /\ Len(vec) = Columns(D) /\ \A f \in 1 .. Columns(D) : vec[f] = row[f]
<1>1. PICK n \in Nat : n = Columns(D)
  BY TrainingSet
<1>2. IsSeq(row) /\ Len(row) = n + 1
  BY <1>1, TrainingSet
<1>3. vec = SubSeq(row, 1, n)
  BY <1>2 DEF Front
<1>4. n \in 0 .. Len(row)
  BY <1>2
<1>5. IsSeq(vec) /\ Len(vec) = n /\ \A f \in 1 .. n : vec[f] = row[f]
  BY <1>2, <1>3, <1>4, PathPrefix
<1> QED BY <1>1, <1>5

\* A row agrees with a path when its vector does.
LEMMA VectorAgrees ==
  ASSUME NEW D \in Datasets, NEW tree, NEW p, \A k \in DOMAIN p : KeyOf(D, tree, p, k) \in 1 .. Columns(D),
         NEW row \in ToSet(D), NEW vec, Front(row) = vec
  PROVE  row \in Agreeing(D, tree, p) <=> \A k \in DOMAIN p : vec[KeyOf(D, tree, p, k)] = p[k]
<1>1. \A f \in 1 .. Columns(D) : vec[f] = row[f]
  BY VectorRow
<1> QED BY <1>1 DEF Agreeing

\* A dict to which a vector of the training set comes has a branch for it.
LEMMA BranchThere ==
  ASSUME NEW D \in Datasets, NEW tree, Built(D, tree, {}), \A q \in DOMAIN tree : OnFeatures(q),
         NEW p \in DOMAIN tree, tree[p].kind = "dict",
         NEW row \in ToSet(D), NEW vec, Front(row) = vec, \A k \in DOMAIN p : vec[KeyOf(D, tree, p, k)] = p[k]
  PROVE  Append(p, vec[Feature(D, tree[p].name)]) \in DOMAIN tree
<1>1. IsSeq(p) /\ Rooted(tree, p) /\ \A k \in DOMAIN p : KeyOf(D, tree, p, k) \in 1 .. Columns(D)
  BY KeysAreFeatures
<1>2. row \in Agreeing(D, tree, p)
  BY <1>1, VectorAgrees
<1>3. Known(tree, {}) = DOMAIN tree
  BY DEF Known
<1>4. DictOK(D, tree, DOMAIN tree, p)
  BY <1>3 DEF Built, NodeOK
<1>5. tree[p].name \in ToSet(FeatNames(D))
  BY <1>4 DEF DictOK
<1>6. ~ \E c \in Classes : Append(p, c) \in DOMAIN tree
  <2> SUFFICES ASSUME NEW c \in Classes, Append(p, c) \in DOMAIN tree PROVE FALSE
    OBVIOUS
  <2>1. ToSet(Append(p, c)) = ToSet(p) \cup {c}
    BY <1>1, PathAppend
  <2>2. OnFeatures(Append(p, c))
    OBVIOUS
  <2> QED BY <2>1, <2>2 DEF OnFeatures
<1>7. Append(p, row[Feature(D, tree[p].name)]) \in DOMAIN tree
  BY <1>2, <1>4, <1>6 DEF DictOK
<1>8. Feature(D, tree[p].name) \in 1 .. Columns(D)
  BY <1>5, TrainingSet
<1>9. vec[Feature(D, tree[p].name)] = row[Feature(D, tree[p].name)]
  BY <1>8, VectorRow
<1> QED BY <1>7, <1>9

\* A leaf to which a vector of the training set comes is a class that most of the
\* rows with the vector have.
LEMMA LeafVotes ==
  ASSUME NEW D \in Datasets, NEW tree, Built(D, tree, {}), \A q \in DOMAIN tree : OnFeatures(q),
         NEW p \in DOMAIN tree, tree[p].kind = "leaf",
         NEW row0 \in ToSet(D), NEW vec, Front(row0) = vec, \A k \in DOMAIN p : vec[KeyOf(D, tree, p, k)] = p[k],
         NEW alike, alike = Selected(D, {row \in ToSet(D) : Front(row) = vec})
  PROVE  /\ tree[p].name \in Classes
         /\ \A c \in Classes : ClassCount(alike, c) <= ClassCount(alike, tree[p].name)
<1>1. IsSeq(p) /\ Rooted(tree, p) /\ \A k \in DOMAIN p : KeyOf(D, tree, p, k) \in 1 .. Columns(D)
  BY KeysAreFeatures
<1>2. LeafOK(D, tree, p) /\ OnFeatures(p)
  BY DEF Built, NodeOK
<1> DEFINE R == {row \in ToSet(D) : Front(row) = vec}
<1>3. R \subseteq Agreeing(D, tree, p)
  BY <1>1, VectorAgrees
<1>4. D \in Seq(ToSet(D)) /\ R \subseteq ToSet(D)
  BY TrainingSet
<1>5. alike \in Seq(ToSet(D)) /\ ToSet(alike) = ToSet(D) \cap R
  BY <1>4, SelectedInSeq, SelectedMembers
<1>6. IsFiniteSet(DOMAIN alike)
  <2>1. PICK m \in Nat : DOMAIN alike = 1 .. m
    BY <1>5, LenProperties
  <2> QED BY <2>1, FS_Interval
<1>7. \A c : ClassCount(alike, c) \in Nat
  <2> SUFFICES ASSUME NEW c PROVE ClassCount(alike, c) \in Nat
    OBVIOUS
  <2>1. IsFiniteSet({n \in DOMAIN alike : Last(alike[n]) = c})
    BY <1>6, FS_Subset
  <2> QED BY <2>1, FS_CardinalityType DEF ClassCount
<1>8. tree[p].name \in Classes
  BY <1>2 DEF LeafOK
<1>9. CASE \A row \in Agreeing(D, tree, p) : Last(row) = tree[p].name
  <2> SUFFICES ASSUME NEW c \in Classes, c # tree[p].name
               PROVE  ClassCount(alike, c) <= ClassCount(alike, tree[p].name)
    BY <1>7, <1>8
  <2>1. \A n \in DOMAIN alike : alike[n] \in R
    BY <1>4, <1>5 DEF ToSet
  <2>2. {n \in DOMAIN alike : Last(alike[n]) = c} = {}
    BY <1>3, <1>9, <2>1
  <2>3. ClassCount(alike, c) = 0
    BY <2>2, FS_EmptySet DEF ClassCount
  <2> QED BY <1>7, <2>3
<1>10. CASE /\ \A f \in 1 .. Columns(D) : \E k \in DOMAIN p : KeyOf(D, tree, p, k) = f
            /\ \A c \in Classes :
                 ClassCount(Selected(D, Agreeing(D, tree, p)), c)
                   <= ClassCount(Selected(D, Agreeing(D, tree, p)), tree[p].name)
  <2>1. IsSeq(vec) /\ Len(vec) = Columns(D)
    BY VectorRow
  <2>2. ASSUME NEW row \in Agreeing(D, tree, p) PROVE row \in R
    <3>1. row \in ToSet(D)
      BY DEF Agreeing
    <3>2. PICK other : other = Front(row)
      OBVIOUS
    <3>3. IsSeq(other) /\ Len(other) = Columns(D)
      BY <3>1, <3>2, VectorRow
    <3>4. \A k \in DOMAIN p : other[KeyOf(D, tree, p, k)] = p[k]
      BY <1>1, <3>1, <3>2, VectorAgrees
    <3>5. \A f \in 1 .. Columns(D) : other[f] = vec[f]
      BY <1>10, <3>4
    <3>6. other = vec
      BY <2>1, <3>3, <3>5, PathEqual
    <3> QED BY <3>1, <3>2, <3>6
  <2>3. Agreeing(D, tree, p) = R
    BY <1>3, <2>2
  <2> QED BY <1>8, <1>10, <2>3
<1> QED BY <1>2, <1>8, <1>9, <1>10 DEF LeafOK

-----------------------------------------------------------------------------
(* The properties. *)

\* The names of the model for what is above.
LEMMA SameNames ==
  /\ Names = FeatNames(dataSet) /\ NumFeatures = Columns(dataSet)
  /\ \A label : FeatureNamed(label) = Feature(dataSet, label)
  /\ \A path, k : FeatureAt(path, k) = KeyOf(dataSet, myTree, path, k)
<1>1. NumFeatures = Columns(dataSet) /\ Names = FeatNames(dataSet)
  BY DEF NumFeatures, Columns, Names, FeatNames
<1>2. ASSUME NEW label PROVE FeatureNamed(label) = Feature(dataSet, label)
  BY <1>1 DEF FeatureNamed, Feature
<1> QED BY <1>1, <1>2 DEF FeatureAt, KeyOf

\* What the invariant says of all calls it says of the one that runs.
LEMMA CallHasRows == BuildInv => CallRows
<1> SUFFICES ASSUME BuildInv, pc = "createTree", OnFeatures(call.path)
             PROVE  CallRows
  BY DEF CallRows
<1> DEFINE agreeing == Agreeing(dataSet, myTree, call.path)
           agreeing2 == {row \in ToSet(dataSet) :
                          \A k \in DOMAIN call.path : row[FeatureAt(call.path, k)] = call.path[k]}
           Rest(row) == [k \in DOMAIN call.labels |-> row[FeatureNamed(call.labels[k])]]
<1>1. call \in Todo
  BY DEF Todo
<1>2. Fits(dataSet, myTree, call.path, call.data, call.labels)
  BY <1>1 DEF BuildInv, Built, CallOK
<1>3. agreeing2 = agreeing
  BY SameNames DEF Agreeing
<1>4. PICK rows : rows = Selected(dataSet, agreeing)
  OBVIOUS
<1>5. call.data = [n \in DOMAIN rows |-> Part(dataSet, call.labels, rows[n])]
  BY <1>2, <1>4 DEF Fits
<1>6. \A row : Append(Rest(row), Last(row)) = Part(dataSet, call.labels, row)
  BY SameNames DEF Part
<1>7. rows = Selected(dataSet, agreeing2)
  BY <1>3, <1>4
<1> HIDE DEF Rest, agreeing2
<1>8. call.data = [n \in DOMAIN rows |-> Append(Rest(rows[n]), Last(rows[n]))]
  BY <1>5, <1>6
<1> QED BY <1>7, <1>8 DEF CallRows, Rest, agreeing2

\* A finished tree: nothing is left to be called, and there is a root.
LEMMA Finished ==
  ASSUME BuildInv, pc \notin {"createTree", "branch"}
  PROVE  dataSet \in Datasets /\ Built(dataSet, myTree, {}) /\ <<>> \in DOMAIN myTree
<1>1. Todo = {}
  BY EmptyPath DEF BuildInv, Chained, Todo, StackCalls
<1>2. Built(dataSet, myTree, {})
  BY <1>1 DEF BuildInv
<1> QED BY <1>2 DEF BuildInv, Built, Shape, Known

ClassifyInv == BuildInv /\ Descends /\ TrainingClassified

\* One level of classify.
LEMMA StepClassify ==
  ASSUME ClassifyInv, Classify
  PROVE  Descends' /\ TrainingClassified'
<1>1. /\ pc = "classify" /\ UNCHANGED <<dataSet, caller, myTree, testVec, labels>>
      /\ pc' \in {"classify", "classified"}
  BY DEF Classify, Classified, buildVars
<1>2. dataSet \in Datasets /\ Built(dataSet, myTree, {}) /\ <<>> \in DOMAIN myTree
  BY <1>1, Finished DEF ClassifyInv
<1>3. CASE ~ (caller = "copies" /\ SplitsOnFeatures /\ myTree[<<>>].kind = "dict")
  <2>1. ~ (caller' = "copies" /\ SplitsOnFeatures' /\ myTree'[<<>>].kind = "dict")
    BY <1>1, <1>3 DEF SplitsOnFeatures
  <2> QED BY <1>1, <2>1 DEF Descends, TrainingClassified
<1>4. CASE caller = "copies" /\ SplitsOnFeatures /\ myTree[<<>>].kind = "dict"
  <2>1. PICK D, tree, p, vec : D = dataSet /\ tree = myTree /\ p = at /\ vec = testVec
    OBVIOUS
  <2>2. /\ D \in Datasets /\ Built(D, tree, {}) /\ \A q \in DOMAIN tree : OnFeatures(q)
        /\ p \in DOMAIN tree /\ tree[p].kind = "dict"
        /\ \A k \in DOMAIN p : vec[KeyOf(D, tree, p, k)] = p[k]
    BY <1>1, <1>2, <1>4, <2>1 DEF ClassifyInv, Descends, SplitsOnFeatures
  <2>3. FeatLabels = FeatNames(D)
    BY <1>4, <2>1, SameNames DEF FeatLabels
  <2>4. tree[p].name \in ToSet(FeatNames(D))
    <3>1. Known(tree, {}) = DOMAIN tree
      BY DEF Known
    <3> QED BY <2>2, <3>1 DEF Built, NodeOK, DictOK
  <2>5. PICK q : q = Append(p, vec[Feature(D, tree[p].name)])
    OBVIOUS
  <2>6. \/ q \notin DOMAIN tree /\ pc' = "classified" /\ at' = at
        \/ q \in DOMAIN tree /\ tree[q].kind = "leaf" /\ pc' = "classified" /\ result' = tree[q].name /\ at' = at
        \/ q \in DOMAIN tree /\ tree[q].kind # "leaf" /\ pc' = "classify" /\ at' = q
    <3>1. q = Append(at, testVec[CHOOSE n \in DOMAIN FeatLabels : FeatLabels[n] = myTree[at].name])
      BY <2>1, <2>3, <2>5 DEF Feature
    <3> QED BY <1>1, <2>1, <2>2, <2>3, <2>4, <3>1 DEF Classify, Classified
  <2>7. IsSeq(p)
    BY <2>2, KeysAreFeatures
  <2>8. \A k \in DOMAIN q : vec[KeyOf(D, tree, q, k)] = q[k]
    <3>1. PICK m \in Nat : m = Len(p) /\ DOMAIN p = 1 .. m
      BY <2>7, PathLength
    <3>2. PICK x : x = vec[Feature(D, tree[p].name)]
      OBVIOUS
    <3>3. /\ DOMAIN Append(p, x) = 1 .. m + 1 /\ Append(p, x)[m + 1] = x
          /\ \A n \in 1 .. m : Append(p, x)[n] = p[n]
      BY <2>7, <3>1, PathAppend
    <3>4. /\ \A k \in 1 .. m : KeyOf(D, tree, Append(p, x), k) = KeyOf(D, tree, p, k)
          /\ KeyOf(D, tree, Append(p, x), m + 1) = Feature(D, tree[p].name)
      <4>1. /\ \A k \in DOMAIN p : KeyOf(D, tree, Append(p, x), k) = KeyOf(D, tree, p, k)
            /\ KeyOf(D, tree, Append(p, x), Len(p) + 1) = Feature(D, tree[p].name)
            /\ Agreeing(D, tree, Append(p, x)) =
                 Agreeing(D, tree, p) \cap Having(D, tree[p].name, x)
            /\ Rooted(tree, p) /\ p \in DOMAIN tree /\ tree[p].kind = "dict" => Rooted(tree, Append(p, x))
        BY <2>7, PathLonger
      <4> QED BY <3>1, <4>1
    <3>5. q = Append(p, x)
      BY <2>5, <3>2
    <3> QED BY <2>2, <3>1, <3>2, <3>3, <3>4, <3>5
  <2>9. Descends'
    <3>1. CASE pc' = "classified"
      BY <3>1 DEF Descends
    <3>2. CASE pc' = "classify"
      <4>1. q \in DOMAIN tree /\ tree[q].kind = "dict" /\ at' = q
        BY <2>2, <2>6, <3>2 DEF Built, Shape
      <4>2. /\ at' \in DOMAIN myTree' /\ myTree'[at'].kind = "dict"
            /\ \A k \in DOMAIN at' : testVec'[KeyOf(dataSet', myTree', at', k)] = at'[k]
        BY <1>1, <2>1, <2>8, <4>1
      <4> QED BY <1>1, <3>2, <4>2 DEF Descends
    <3> QED BY <1>1, <3>1, <3>2
  <2>10. TrainingClassified'
    <3> DEFINE alike == Selected(D, {row \in ToSet(D) : Front(row) = vec})
    <3>1. SUFFICES ASSUME pc' = "classified", alike # <<>>
                   PROVE  result' \in Classes /\ \A c \in Classes : ClassCount(alike, c) <= ClassCount(alike, result')
      <4> HIDE DEF alike
      <4>1. ASSUME result' \in Classes, \A c \in Classes : ClassCount(alike, c) <= ClassCount(alike, result')
            PROVE  \A c \in Classes : [d \in Classes |-> ClassCount(alike, d)][c] <= [d \in Classes |-> ClassCount(alike, d)][result']
        BY <4>1
      <4>2. alike = Selected(dataSet', {row \in ToSet(dataSet') : Front(row) = testVec'})
        BY <1>1, <2>1 DEF alike
      <4> QED BY <4>1, <4>2 DEF TrainingClassified
    <3>2. PICK row0 \in ToSet(D) : Front(row0) = vec
      <4>1. D \in Seq(ToSet(D))
        BY <2>2, TrainingSet
      <4>2. {row \in ToSet(D) : Front(row) = vec} # {}
        <5>1. Selected(D, {}) = <<>>
          <6>1. Selected(D, {}) \in Seq(ToSet(D)) /\ ToSet(Selected(D, {})) = {}
            BY <4>1, SelectedInSeq, SelectedMembers
          <6>2. PICK s, m : s = Selected(D, {}) /\ m \in Nat /\ m = Len(s) /\ DOMAIN s = 1 .. m
            BY <6>1, LenProperties
          <6>3. m = 0
            BY <6>1, <6>2 DEF ToSet
          <6> QED BY <6>1, <6>2, <6>3, EmptySeq
        <5> QED BY <3>1, <5>1
      <4> QED BY <4>2
    <3>3. q \in DOMAIN tree
      BY <2>2, <2>5, <3>2, BranchThere
    <3>4. tree[q].kind = "leaf" /\ result' = tree[q].name
      BY <2>6, <3>1, <3>3
    <3>5. PICK rows : rows = alike
      OBVIOUS
    <3>6. /\ tree[q].name \in Classes
          /\ \A c \in Classes : ClassCount(rows, c) <= ClassCount(rows, tree[q].name)
      BY <2>2, <2>8, <3>2, <3>3, <3>4, <3>5, LeafVotes
    <3> QED BY <3>4, <3>5, <3>6
  <2> QED BY <2>9, <2>10
<1> QED BY <1>3, <1>4

\* No step breaks the invariants of createTree and of classify.
LEMMA NextClassify == ClassifyInv /\ [Next]_vars => ClassifyInv'
<1> SUFFICES ASSUME ClassifyInv, [Next]_vars PROVE ClassifyInv'
  OBVIOUS
<1>1. BuildInv'
  BY NextBuilt DEF ClassifyInv
<1>2. CASE CreateTree \/ Branch \/ ReturnDict
  <2>1. pc \in {"createTree", "branch"} /\ at' = at /\ pc' \notin {"classify", "classified"}
    BY <1>2 DEF CreateTree, ReturnLeaf, SplitOnBest, Branch, ReturnDict
  <2>2. at = <<>>
    BY <2>1 DEF ClassifyInv, Descends
  <2> QED BY <1>1, <2>1, <2>2 DEF ClassifyInv, Descends, TrainingClassified
<1>3. CASE CallClassify
  <2>1. pc = "returned" /\ pc' = "classify" /\ UNCHANGED <<dataSet, caller, myTree, at>>
    BY <1>3 DEF CallClassify, buildVars
  <2>2. at' = <<>> /\ <<>> \in DOMAIN myTree
    BY <2>1, Finished DEF ClassifyInv, Descends
  <2>3. Descends'
    BY <2>1, <2>2, EmptyPath DEF Descends
  <2> QED BY <1>1, <2>1, <2>3 DEF ClassifyInv, TrainingClassified
<1>4. CASE Classify
  BY <1>1, <1>4, StepClassify DEF ClassifyInv
<1>5. CASE UNCHANGED vars
  <2>1. UNCHANGED <<dataSet, caller, pc, myTree, testVec, at, result>>
    BY <1>5 DEF vars, buildVars
  <2>2. Descends'
    BY <2>1 DEF ClassifyInv, Descends, SplitsOnFeatures
  <2>3. TrainingClassified'
    BY <2>1 DEF ClassifyInv, TrainingClassified, SplitsOnFeatures
  <2> QED BY <1>1, <2>2, <2>3 DEF ClassifyInv
<1> QED BY <1>2, <1>3, <1>4, <1>5 DEF Next

\* They hold at the beginning.
LEMMA InitClassify == Init => ClassifyInv
BY InitBuilt DEF ClassifyInv, Init, Descends, TrainingClassified

\* createTree and classify keep their invariants.
LEMMA ClassifyInvHolds == Spec => []ClassifyInv
BY InitClassify, NextClassify, PTL DEF Spec

-----------------------------------------------------------------------------
(* The nodes of a tree.                                                    *)

Kids(tree, p) == {q \in DOMAIN tree : q # <<>> /\ Front(q) = p}
LeavesOf(tree, p) == {q \in DOMAIN tree : tree[q].kind = "leaf" /\ IsPrefix(p, q)}
Breadth(tree, p) == Cardinality(LeavesOf(tree, p))
Deepest(tree) == Max({Len(p) : p \in DOMAIN tree})

\* All of its paths have the nodes above them, which are dicts, and a dict has a
\* branch.
IsTree(tree) ==
  /\ IsFiniteSet(DOMAIN tree) /\ <<>> \in DOMAIN tree
  /\ \A p \in DOMAIN tree : /\ IsSeq(p) /\ Rooted(tree, p)
                            /\ tree[p].kind \in {"leaf", "dict"}
                            /\ tree[p].kind = "dict" => Kids(tree, p) # {}

\* The calls of plotTree are one for each node from the root to here.
PlotChain(tree, st, here) ==
  /\ IsSeq(st) /\ Len(st) = Len(here) + 1 /\ here \in DOMAIN tree
  /\ \A k \in DOMAIN st :
       /\ DOMAIN st[k] = {"path", "cntrPt", "keys"}
       /\ st[k].path = SubSeq(here, 1, k - 1)
       /\ st[k].keys \subseteq Kids(tree, st[k].path)
       /\ k \in DOMAIN here => SubSeq(here, 1, k) \notin st[k].keys

\* The nodes that the calls still have to draw.
Pending(tree, st) == {q \in DOMAIN tree : \E k \in DOMAIN st : \E key \in st[k].keys : IsPrefix(key, q)}

DrawnLeaves(tree, nodes, p) == LeavesOf(tree, p) \cap DOMAIN nodes
ColumnsOf(nodes, S) == {nodes[q].at[1] : q \in S}
OddFrom(s, n) == {2 * k - 1 : k \in s + 1 .. s + n}

\* The leaves that are drawn below a node are side by side, from the left end of
\* the columns over whose middle the node is; below a node that is being drawn
\* they are the last that were drawn.
Across(tree, nodes, st, p) ==
  \E s \in Nat :
    /\ nodes[p].at[1] = 2 * s + Breadth(tree, p)
    /\ ColumnsOf(nodes, DrawnLeaves(tree, nodes, p)) = OddFrom(s, Cardinality(DrawnLeaves(tree, nodes, p)))
    /\ (\E k \in DOMAIN st : st[k].path = p) =>
         s + Cardinality(DrawnLeaves(tree, nodes, p)) = Cardinality(DrawnLeaves(tree, nodes, <<>>))

Placed(tree, nodes, p) ==
  /\ nodes[p].at[2] = Deepest(tree) - Len(p)
  /\ nodes[p].from = IF p = <<>> THEN nodes[p].at ELSE nodes[Front(p)].at

Picture(tree, st, nodes, x, y) ==
  /\ DOMAIN nodes = DOMAIN tree \ Pending(tree, st)
  /\ <<>> \in DOMAIN nodes /\ nodes[<<>>].at[1] = Breadth(tree, <<>>)
  /\ x = 2 * Cardinality(DrawnLeaves(tree, nodes, <<>>)) - 1
  /\ y = Deepest(tree) - Len(st)
  /\ \A p \in DOMAIN nodes : Across(tree, nodes, st, p) /\ Placed(tree, nodes, p)
  /\ \A k \in DOMAIN st : st[k].path \in DOMAIN nodes /\ st[k].cntrPt = nodes[st[k].path].at

PlotInv ==
  /\ plot \in {"none", "drawing", "shown", "raised"}
  /\ plot = "none" => DOMAIN drawn = {}
  /\ plot # "none" => pc = "returned"
  /\ plot = "drawing" => calls # <<>> /\ PlotChain(myTree, calls, Last(calls).path)
  /\ plot = "shown" => calls = <<>>
  /\ plot \in {"drawing", "shown"} => Picture(myTree, calls, drawn, xOff, yOff)

-----------------------------------------------------------------------------
(* Paths of a tree. *)

\* A path is a prefix of another one if it is the beginning of it of its own
\* length.
LEMMA PrefixPath ==
  ASSUME NEW p, IsSeq(p), NEW q, IsSeq(q)
  PROVE  /\ IsPrefix(p, q) <=> Len(p) <= Len(q) /\ p = SubSeq(q, 1, Len(p))
         /\ Len(p) \in Nat /\ Len(q) \in Nat
<1>1. SubSeq(p, 1, Len(p)) = p /\ Len(p) \in Nat /\ Len(q) \in Nat
  BY PathAppend
<1> QED BY <1>1 DEF IsPrefix

\* A finished tree is one.
LEMMA TreeFromBuilt ==
  ASSUME NEW D, NEW tree, Built(D, tree, {})
  PROVE  IsTree(tree)
<1>1. Known(tree, {}) = DOMAIN tree
  BY DEF Known
<1>2. /\ IsFiniteSet(DOMAIN tree) /\ <<>> \in DOMAIN tree
      /\ \A p \in DOMAIN tree : IsSeq(p) /\ Rooted(tree, p) /\ tree[p].kind \in {"leaf", "dict"}
  BY <1>1 DEF Built, Shape
<1>3. ASSUME NEW p \in DOMAIN tree, tree[p].kind = "dict" PROVE Kids(tree, p) # {}
  <2>1. DictOK(D, tree, DOMAIN tree, p)
    BY <1>1, <1>3 DEF Built, NodeOK
  <2> QED BY <2>1 DEF DictOK, Kids
<1> QED BY <1>2, <1>3 DEF IsTree

\* The path of a child is that of its parent, a dict, and one key more.
LEMMA KidPath ==
  ASSUME NEW tree, IsTree(tree), NEW p \in DOMAIN tree, NEW q \in Kids(tree, p)
  PROVE  /\ q \in DOMAIN tree /\ q # <<>> /\ IsSeq(p) /\ IsSeq(q)
         /\ Len(p) \in Nat /\ Len(q) = Len(p) + 1 /\ p = SubSeq(q, 1, Len(p))
         /\ q = Append(p, Last(q)) /\ p # q
         /\ tree[p].kind = "dict" /\ IsPrefix(p, q)
<1>1. q \in DOMAIN tree /\ q # <<>> /\ Front(q) = p /\ IsSeq(p) /\ IsSeq(q) /\ Rooted(tree, q)
  BY DEF Kids, IsTree
<1>2. /\ Len(q) \in Nat \ {0} /\ Len(Front(q)) = Len(q) - 1
      /\ q = Append(Front(q), Last(q)) /\ Front(q) = SubSeq(q, 1, Len(q) - 1)
  BY <1>1, PathFront
<1>3. PICK m \in Nat : m = Len(p)
  BY <1>1, PathLength
<1>4. Len(q) = m + 1 /\ p = SubSeq(q, 1, m)
  <2>0. PICK n \in Nat \ {0} : n = Len(q)
    BY <1>2
  <2>2. Len(Front(q)) = m
    BY <1>1, <1>3
  <2>3. m = n - 1
    BY <1>2, <2>0, <2>2
  <2>1. Len(q) = m + 1 /\ Len(q) - 1 = m
    BY <2>0, <2>3
  <2> QED BY <1>1, <1>2, <2>1
<1>5. tree[p].kind = "dict"
  <2>1. m + 1 \in DOMAIN q /\ (m + 1) - 1 = m
    BY <1>1, <1>4, LenProperties DEF IsSeq
  <2>2. tree[SubSeq(q, 1, (m + 1) - 1)].kind = "dict"
    BY <1>1, <2>1 DEF Rooted
  <2> QED BY <1>4, <2>1, <2>2
<1>6. IsPrefix(p, q)
  <2>1. Len(p) <= Len(q) /\ p = SubSeq(q, 1, Len(p))
    BY <1>3, <1>4
  <2> QED BY <1>1, <2>1, PrefixPath
<1> QED BY <1>1, <1>2, <1>3, <1>4, <1>5, <1>6

\* The nodes on the way to a node.
LEMMA PathNodes ==
  ASSUME NEW tree, IsTree(tree), NEW p \in DOMAIN tree
  PROVE  /\ IsPrefix(p, p) /\ IsPrefix(<<>>, p)
         /\ \A n \in 0 .. Len(p) : /\ SubSeq(p, 1, n) \in DOMAIN tree /\ IsPrefix(SubSeq(p, 1, n), p)
                                   /\ Len(SubSeq(p, 1, n)) = n
                                   /\ n < Len(p) => tree[SubSeq(p, 1, n)].kind = "dict"
         /\ \A n \in 1 .. Len(p) : SubSeq(p, 1, n) \in Kids(tree, SubSeq(p, 1, n - 1))
<1>1. IsSeq(p) /\ Rooted(tree, p) /\ <<>> \in DOMAIN tree
  BY DEF IsTree
<1>2. PICK m \in Nat : m = Len(p) /\ DOMAIN p = 1 .. m /\ SubSeq(p, 1, m) = p
  BY <1>1, PathLength
<1>3. ASSUME NEW n \in 0 .. m
      PROVE  /\ SubSeq(p, 1, n) \in DOMAIN tree /\ IsPrefix(SubSeq(p, 1, n), p)
             /\ Len(SubSeq(p, 1, n)) = n /\ IsSeq(SubSeq(p, 1, n))
             /\ \A k \in 0 .. n : SubSeq(SubSeq(p, 1, n), 1, k) = SubSeq(p, 1, k)
             /\ n < m => tree[SubSeq(p, 1, n)].kind = "dict"
  <2>1. /\ IsSeq(SubSeq(p, 1, n)) /\ Len(SubSeq(p, 1, n)) = n
        /\ \A k \in 0 .. n : SubSeq(SubSeq(p, 1, n), 1, k) = SubSeq(p, 1, k)
    BY <1>1, <1>2, PathPrefix
  <2>2. IsPrefix(SubSeq(p, 1, n), p)
    <3>1. PICK q : q = SubSeq(p, 1, n)
      OBVIOUS
    <3>2. IsSeq(q) /\ Len(q) <= Len(p) /\ q = SubSeq(p, 1, Len(q))
      BY <1>2, <2>1, <3>1
    <3> QED BY <1>1, <3>1, <3>2, PrefixPath
  <2>3. CASE n = m
    <3>1. SubSeq(p, 1, n) = p /\ ~ (n < m)
      BY <1>2, <2>3
    <3>2. SubSeq(p, 1, n) \in DOMAIN tree
      BY <3>1
    <3> QED BY <2>1, <2>2, <3>1, <3>2
  <2>4. CASE n < m
    <3>1. n + 1 \in DOMAIN p /\ (n + 1) - 1 = n
      BY <1>2, <2>4
    <3>2. SubSeq(p, 1, (n + 1) - 1) \in DOMAIN tree /\ tree[SubSeq(p, 1, (n + 1) - 1)].kind = "dict"
      BY <1>1, <3>1 DEF Rooted
    <3> QED BY <2>1, <2>2, <3>1, <3>2
  <2> QED BY <2>3, <2>4
<1>4. ASSUME NEW n \in 1 .. m PROVE SubSeq(p, 1, n) \in Kids(tree, SubSeq(p, 1, n - 1))
  <2>1. PICK q : q = SubSeq(p, 1, n)
    OBVIOUS
  <2>2. q \in DOMAIN tree /\ IsSeq(q) /\ Len(q) = n /\ \A k \in 0 .. n : SubSeq(q, 1, k) = SubSeq(p, 1, k)
    BY <1>3, <2>1
  <2>3. Front(q) = SubSeq(p, 1, n - 1)
    BY <2>2 DEF Front
  <2>4. q # <<>>
    BY <2>2, EmptyPath
  <2> QED BY <2>1, <2>2, <2>3, <2>4 DEF Kids
<1>5. IsPrefix(p, p)
  <2>1. m \in 0 .. m
    BY <1>2
  <2>2. IsPrefix(SubSeq(p, 1, m), p)
    BY <1>3, <2>1
  <2> QED BY <1>2, <2>2
<1>6. IsPrefix(<<>>, p)
  <2>1. PICK q : q = SubSeq(p, 1, 0)
    OBVIOUS
  <2>2. IsSeq(q) /\ Len(q) = 0 /\ IsPrefix(q, p)
    BY <1>3, <2>1
  <2>3. q = <<>>
    BY <2>2, EmptySeq DEF IsSeq
  <2> QED BY <2>2, <2>3
<1> QED BY <1>2, <1>3, <1>4, <1>5, <1>6

\* Of two nodes on the way to a third, the upper is on the way to the lower.
LEMMA PrefixOrder ==
  ASSUME NEW tree, IsTree(tree), NEW p \in DOMAIN tree, NEW q \in DOMAIN tree, NEW r \in DOMAIN tree
  PROVE  /\ IsPrefix(p, q) /\ IsPrefix(q, r) => IsPrefix(p, r)
         /\ IsPrefix(p, r) /\ IsPrefix(q, r) /\ Len(p) <= Len(q) => IsPrefix(p, q)
         /\ IsPrefix(p, q) /\ Len(q) <= Len(p) => p = q
<1>1. IsSeq(p) /\ IsSeq(q) /\ IsSeq(r)
  BY DEF IsTree
<1>2. PICK l, m, n : /\ l = Len(p) /\ m = Len(q) /\ n = Len(r)
  OBVIOUS
<1>3. l \in Nat /\ m \in Nat /\ n \in Nat
  BY <1>1, <1>2, PathAppend
<1>4. /\ IsPrefix(p, q) <=> l <= m /\ p = SubSeq(q, 1, l)
      /\ IsPrefix(q, r) <=> m <= n /\ q = SubSeq(r, 1, m)
      /\ IsPrefix(p, r) <=> l <= n /\ p = SubSeq(r, 1, l)
  BY <1>1, <1>2, PrefixPath
<1>5. m <= n => \A k \in 0 .. m : SubSeq(SubSeq(r, 1, m), 1, k) = SubSeq(r, 1, k)
  <2> SUFFICES ASSUME m <= n PROVE \A k \in 0 .. m : SubSeq(SubSeq(r, 1, m), 1, k) = SubSeq(r, 1, k)
    OBVIOUS
  <2>1. m \in 0 .. Len(r)
    BY <1>2, <1>3
  <2> QED BY <1>1, <2>1, PathPrefix
<1>6. IsPrefix(p, q) /\ IsPrefix(q, r) => IsPrefix(p, r)
  BY <1>3, <1>4, <1>5
<1>7. IsPrefix(p, r) /\ IsPrefix(q, r) /\ l <= m => IsPrefix(p, q)
  BY <1>3, <1>4, <1>5
<1>8. SubSeq(q, 1, m) = q
  BY <1>1, <1>2, PathAppend
<1>9. IsPrefix(p, q) /\ m <= l => p = q
  <2> SUFFICES ASSUME IsPrefix(p, q), m <= l PROVE p = q
    OBVIOUS
  <2>1. l = m
    BY <1>3, <1>4
  <2> QED BY <1>4, <1>8, <2>1
<1> QED BY <1>2, <1>6, <1>7, <1>9

\* Below a node are the node itself and what is below its branches, each below
\* one of them.
LEMMA BelowKids ==
  ASSUME NEW tree, IsTree(tree), NEW p \in DOMAIN tree, NEW q \in DOMAIN tree
  PROVE  /\ IsPrefix(p, q) <=> q = p \/ \E c \in Kids(tree, p) : IsPrefix(c, q)
         /\ \A c \in Kids(tree, p) : IsPrefix(c, q) => q # p
         /\ \A c, d \in Kids(tree, p) : IsPrefix(c, q) /\ IsPrefix(d, q) => c = d
<1>1. IsSeq(p) /\ IsSeq(q)
  BY DEF IsTree
<1>2. PICK m, n : m = Len(p) /\ n = Len(q)
  OBVIOUS
<1>3. m \in Nat /\ n \in Nat /\ (IsPrefix(p, q) <=> m <= n /\ p = SubSeq(q, 1, m)) /\ SubSeq(q, 1, n) = q
  BY <1>1, <1>2, PrefixPath, PathAppend
<1>4. ASSUME NEW c \in Kids(tree, p), IsPrefix(c, q)
      PROVE  IsPrefix(p, q) /\ m + 1 <= n /\ c = SubSeq(q, 1, m + 1)
  <2>1. c \in DOMAIN tree /\ IsPrefix(p, c) /\ Len(c) = m + 1 /\ IsSeq(c)
    BY <1>2, KidPath
  <2>2. IsPrefix(p, q)
    BY <1>4, <2>1, PrefixOrder
  <2>3. Len(c) <= Len(q) /\ c = SubSeq(q, 1, Len(c))
    BY <1>1, <1>4, <2>1, PrefixPath
  <2> QED BY <1>2, <2>1, <2>2, <2>3
<1>5. ASSUME IsPrefix(p, q), q # p PROVE \E c \in Kids(tree, p) : IsPrefix(c, q)
  <2>1. m < n
    BY <1>3, <1>5
  <2>2. m + 1 \in 1 .. Len(q) /\ m + 1 \in 0 .. Len(q) /\ (m + 1) - 1 = m
    BY <1>2, <1>3, <2>1
  <2>3. SubSeq(q, 1, m + 1) \in Kids(tree, SubSeq(q, 1, (m + 1) - 1)) /\ IsPrefix(SubSeq(q, 1, m + 1), q)
    BY <2>2, PathNodes
  <2> QED BY <1>3, <1>5, <2>2, <2>3
<1>6. ASSUME q = p PROVE IsPrefix(p, q)
  BY <1>6, PathNodes
<1>7. \A c \in Kids(tree, p) : IsPrefix(c, q) => q # p
  BY <1>2, <1>3, <1>4
<1> QED BY <1>4, <1>5, <1>6, <1>7

-----------------------------------------------------------------------------
(* Levels and leaves of a tree. *)

\* A tree has a deepest level.
LEMMA Levels ==
  ASSUME NEW tree, IsTree(tree)
  PROVE  /\ Deepest(tree) \in Nat
         /\ \A p \in DOMAIN tree : Len(p) \in Nat /\ Len(p) <= Deepest(tree)
         /\ \E p \in DOMAIN tree : Len(p) = Deepest(tree)
<1> DEFINE len == [p \in DOMAIN tree |-> Len(p)]
           K == {len[p] : p \in DOMAIN tree}
<1>1. \A p \in DOMAIN tree : Len(p) \in Nat
  BY LenProperties DEF IsTree, IsSeq
<1>2. IsFiniteSet(K)
  <2> HIDE DEF len
  <2> QED BY ImageFinite DEF IsTree
<1>3. K \in SUBSET Int /\ K # {} /\ K = {Len(p) : p \in DOMAIN tree}
  <2>1. K = {Len(p) : p \in DOMAIN tree}
    OBVIOUS
  <2>2. Len(<<>>) \in K
    BY <2>1 DEF IsTree
  <2> HIDE DEF K
  <2> QED BY <1>1, <2>1, <2>2
<1>4. Deepest(tree) = Max(K)
  BY <1>3 DEF Deepest
<1> HIDE DEF K
<1>5. Max(K) \in K /\ \A n \in K : n <= Max(K)
  BY <1>2, <1>3, FiniteMax
<1> QED BY <1>1, <1>3, <1>4, <1>5

\* Induction from the leaves to the root.
LEMMA TreeInduction ==
  ASSUME NEW tree, IsTree(tree), NEW S,
         \A p \in DOMAIN tree : (\A c \in Kids(tree, p) : c \in S) => p \in S
  PROVE  DOMAIN tree \subseteq S
<1> SUFFICES ASSUME ~ (DOMAIN tree \subseteq S) PROVE FALSE
  OBVIOUS
<1>1. PICK d \in Nat : d = Deepest(tree) /\ \A p \in DOMAIN tree : Len(p) \in Nat /\ Len(p) <= d
  BY Levels
<1> DEFINE K == {d - Len(p) : p \in DOMAIN tree \ S}
<1>2. K \in SUBSET Nat /\ K # {}
  BY <1>1
<1>3. PICK k \in K : \A n \in K : k <= n
  <2> HIDE DEF K
  <2> QED BY <1>2, Least
<1>4. PICK p \in DOMAIN tree \ S : k = d - Len(p)
  OBVIOUS
<1>5. ASSUME NEW c \in Kids(tree, p) PROVE c \in S
  <2>1. c \in DOMAIN tree /\ Len(c) = Len(p) + 1
    BY KidPath
  <2>2. ~ (k <= d - Len(c))
    BY <1>1, <1>4, <2>1
  <2> QED BY <1>3, <2>1, <2>2
<1> QED BY <1>4, <1>5

\* The leaves below a path are finitely many.
LEMMA LeavesFinite ==
  ASSUME NEW tree, IsTree(tree), NEW p
  PROVE  IsFiniteSet(LeavesOf(tree, p)) /\ Breadth(tree, p) \in Nat
<1>1. IsFiniteSet(LeavesOf(tree, p))
  BY FS_Subset DEF IsTree, LeavesOf
<1> QED BY <1>1, FS_CardinalityType DEF Breadth

\* The only leaf below a leaf is itself.
LEMMA LeafLeaves ==
  ASSUME NEW tree, IsTree(tree), NEW p \in DOMAIN tree, tree[p].kind = "leaf"
  PROVE  LeavesOf(tree, p) = {p} /\ Breadth(tree, p) = 1 /\ Kids(tree, p) = {}
<1>1. Kids(tree, p) = {}
  BY KidPath
<1>2. LeavesOf(tree, p) = {p}
  <2>1. \A q \in DOMAIN tree : IsPrefix(p, q) <=> q = p
    BY <1>1, BelowKids
  <2> QED BY <2>1 DEF LeavesOf
<1> QED BY <1>1, <1>2, FS_Singleton DEF Breadth

\* Every node has a leaf below it.
LEMMA LeafBelow ==
  ASSUME NEW tree, IsTree(tree), NEW p \in DOMAIN tree
  PROVE  LeavesOf(tree, p) # {} /\ Breadth(tree, p) \in Nat \ {0}
<1> DEFINE S == {q \in DOMAIN tree : LeavesOf(tree, q) # {}}
<1>1. ASSUME NEW q \in DOMAIN tree, \A c \in Kids(tree, q) : c \in S
      PROVE  q \in S
  <2>1. CASE tree[q].kind = "leaf"
    BY <2>1, LeafLeaves
  <2>2. CASE tree[q].kind # "leaf"
    <3>1. PICK c \in Kids(tree, q) : TRUE
      BY <2>2 DEF IsTree
    <3>2. PICK r \in LeavesOf(tree, c) : TRUE
      BY <1>1
    <3>3. r \in DOMAIN tree /\ tree[r].kind = "leaf" /\ IsPrefix(q, r)
      BY <3>2, BelowKids DEF LeavesOf
    <3>4. r \in LeavesOf(tree, q)
      BY <3>3 DEF LeavesOf
    <3> QED BY <3>4
  <2> QED BY <2>1, <2>2
<1>2. DOMAIN tree \subseteq S
  <2> HIDE DEF S
  <2> QED BY <1>1, TreeInduction
<1>3. LeavesOf(tree, p) # {}
  BY <1>2
<1>4. Cardinality(LeavesOf(tree, p)) # 0
  BY <1>3, LeavesFinite, FS_EmptySet
<1> QED BY <1>3, <1>4, LeavesFinite DEF Breadth

\* The leaves below a dict are those below its branches.
LEMMA DictLeaves ==
  ASSUME NEW tree, IsTree(tree), NEW p \in DOMAIN tree, tree[p].kind = "dict",
         NEW f, \A c \in Kids(tree, p) : f[c] = Breadth(tree, c)
  PROVE  Breadth(tree, p) = SumFunctionOnSet(f, Kids(tree, p))
<1> DEFINE g == [c \in DOMAIN tree |-> LeavesOf(tree, c)]
           U == UNION {g[c] : c \in Kids(tree, p)}
<1>1. IsFiniteSet(Kids(tree, p)) /\ Kids(tree, p) \subseteq DOMAIN tree
  <2>1. Kids(tree, p) \subseteq DOMAIN tree
    BY DEF Kids
  <2> QED BY <2>1, FS_Subset DEF IsTree
<1>2. \A c \in Kids(tree, p) : IsFiniteSet(g[c]) /\ f[c] = Cardinality(g[c])
  BY <1>1, LeavesFinite DEF Breadth
<1>3. \A c, d \in Kids(tree, p) : c # d => g[c] \cap g[d] = {}
  BY <1>1, BelowKids DEF LeavesOf
<1>4. U = LeavesOf(tree, p)
  <2>1. \A q \in DOMAIN tree : tree[q].kind = "leaf" =>
          (IsPrefix(p, q) <=> \E c \in Kids(tree, p) : IsPrefix(c, q))
    BY BelowKids
  <2>2. \A q : q \in U <=> q \in DOMAIN tree /\ tree[q].kind = "leaf" /\ \E c \in Kids(tree, p) : IsPrefix(c, q)
    <3>1. \A c \in Kids(tree, p) : g[c] = LeavesOf(tree, c)
      BY <1>1
    <3>2. \A q : q \in U <=> \E c \in Kids(tree, p) : q \in LeavesOf(tree, c)
      <4> HIDE DEF g
      <4> QED BY <3>1
    <3> HIDE DEF U
    <3> QED BY <3>2 DEF LeavesOf
  <2>3. \A q : q \in U <=> q \in LeavesOf(tree, p)
    BY <2>1, <2>2 DEF LeavesOf
  <2> HIDE DEF U
  <2> QED BY <2>3
<1> HIDE DEF g
<1>5. SumFunctionOnSet(f, Kids(tree, p)) = Cardinality(U)
  BY <1>1, <1>2, <1>3, SumDisjoint
<1> QED BY <1>4, <1>5 DEF Breadth

IsNumLeafs(f) ==
  f = [path \in DOMAIN myTree |->
        IF myTree[path].kind = "leaf" THEN 1 ELSE SumFunctionOnSet(f, Children(path))]

\* getNumLeafs counts the leaves below a node.
LEMMA NumLeafs ==
  ASSUME IsTree(myTree), NEW p \in DOMAIN myTree
  PROVE  GetNumLeafs[p] = Breadth(myTree, p)
<1> DEFINE L == [q \in DOMAIN myTree |-> Breadth(myTree, q)]
           S == {q \in DOMAIN myTree : GetNumLeafs[q] = Breadth(myTree, q)}
<1>0. \A q : Children(q) = Kids(myTree, q) /\ Kids(myTree, q) \subseteq DOMAIN myTree
  BY DEF Children, Kids
<1>1. IsNumLeafs(L)
  <2>1. ASSUME NEW q \in DOMAIN myTree
        PROVE  L[q] = IF myTree[q].kind = "leaf" THEN 1 ELSE SumFunctionOnSet(L, Children(q))
    <3>0. L[q] = Breadth(myTree, q) /\ \A c \in Kids(myTree, q) : L[c] = Breadth(myTree, c)
      BY <1>0
    <3> HIDE DEF L
    <3>1. CASE myTree[q].kind = "leaf"
      BY <3>0, <3>1, LeafLeaves
    <3>2. CASE myTree[q].kind # "leaf"
      <4>1. myTree[q].kind = "dict"
        BY <3>2 DEF IsTree
      <4>2. Breadth(myTree, q) = SumFunctionOnSet(L, Kids(myTree, q))
        BY <3>0, <4>1, DictLeaves
      <4> QED BY <1>0, <3>0, <3>2, <4>2
    <3> QED BY <3>1, <3>2
  <2>2. L = [q \in DOMAIN myTree |-> L[q]]
    OBVIOUS
  <2> HIDE DEF L
  <2> QED BY <2>1, <2>2 DEF IsNumLeafs
<1>2. GetNumLeafs = CHOOSE f : IsNumLeafs(f)
  BY DEF GetNumLeafs, IsNumLeafs
<1>3. IsNumLeafs(GetNumLeafs)
  <2> HIDE DEF L
  <2> QED BY <1>1, <1>2
<1>4. PICK f : f = GetNumLeafs
  OBVIOUS
<1>5. \A q \in DOMAIN myTree :
        f[q] = IF myTree[q].kind = "leaf" THEN 1 ELSE SumFunctionOnSet(f, Children(q))
  BY <1>3, <1>4 DEF IsNumLeafs
<1>6. ASSUME NEW q \in DOMAIN myTree, \A c \in Kids(myTree, q) : c \in S PROVE q \in S
  <2>1. CASE myTree[q].kind = "leaf"
    BY <1>4, <1>5, <2>1, LeafLeaves
  <2>2. CASE myTree[q].kind # "leaf"
    <3>1. myTree[q].kind = "dict"
      BY <2>2 DEF IsTree
    <3>2. \A c \in Kids(myTree, q) : f[c] = Breadth(myTree, c)
      BY <1>4, <1>6
    <3>3. Breadth(myTree, q) = SumFunctionOnSet(f, Kids(myTree, q))
      BY <3>1, <3>2, DictLeaves
    <3> QED BY <1>0, <1>4, <1>5, <2>2, <3>3
  <2> QED BY <2>1, <2>2
<1>7. DOMAIN myTree \subseteq S
  <2> HIDE DEF S
  <2> QED BY <1>6, TreeInduction
<1> QED BY <1>7

\* The level of the lowest node at or below p, and how many levels that is.
Lowest(tree, p) == Max({Len(q) : q \in {r \in DOMAIN tree : IsPrefix(p, r)}})
Height(tree, p) == Lowest(tree, p) - Len(p)

\* Below every node there is a lowest one.
LEMMA LowestProperties ==
  ASSUME NEW tree, IsTree(tree), NEW p \in DOMAIN tree
  PROVE  /\ Lowest(tree, p) \in Nat
         /\ \A q \in DOMAIN tree : IsPrefix(p, q) => Len(q) <= Lowest(tree, p)
         /\ \E q \in DOMAIN tree : IsPrefix(p, q) /\ Len(q) = Lowest(tree, p)
<1> DEFINE below == {r \in DOMAIN tree : IsPrefix(p, r)}
           len == [q \in below |-> Len(q)]
           K == {len[q] : q \in below}
<1>1. \A q \in DOMAIN tree : Len(q) \in Nat
  BY LenProperties DEF IsTree, IsSeq
<1>2. IsFiniteSet(below) /\ p \in below
  BY FS_Subset, PathNodes DEF IsTree
<1>3. K = {Len(q) : q \in below}
  OBVIOUS
<1>4. Lowest(tree, p) = Max(K)
  BY <1>3 DEF Lowest
<1>5. IsFiniteSet(K)
  <2> HIDE DEF len, below
  <2> QED BY <1>2, ImageFinite
<1>6. \A q \in below : q \in DOMAIN tree /\ IsPrefix(p, q)
  OBVIOUS
<1>7. K \in SUBSET Nat /\ K # {}
  <2> HIDE DEF K, below
  <2> QED BY <1>1, <1>2, <1>3, <1>6
<1>8. Max(K) \in K /\ \A n \in K : n <= Max(K)
  <2> HIDE DEF K
  <2> QED BY <1>5, <1>7, FiniteMax
<1>9. \A q \in DOMAIN tree : IsPrefix(p, q) => Len(q) \in K
  BY <1>3
<1>10. \A n \in K : \E q \in DOMAIN tree : IsPrefix(p, q) /\ Len(q) = n
  BY <1>3
<1> HIDE DEF K
<1> QED BY <1>4, <1>7, <1>8, <1>9, <1>10

\* Below a leaf there are no levels.
LEMMA HeightLeaf ==
  ASSUME NEW tree, IsTree(tree), NEW p \in DOMAIN tree, tree[p].kind = "leaf"
  PROVE  Height(tree, p) = 0
<1>1. PICK q \in DOMAIN tree : IsPrefix(p, q) /\ Len(q) = Lowest(tree, p)
  BY LowestProperties
<1>2. q = p
  BY <1>1, LeafLeaves, BelowKids
<1>3. Len(p) \in Nat
  BY Levels
<1> QED BY <1>1, <1>2, <1>3 DEF Height

\* A dict is one level higher than the highest of its children.
LEMMA HeightDict ==
  ASSUME NEW tree, IsTree(tree), NEW p \in DOMAIN tree, tree[p].kind = "dict",
         NEW f, \A c \in Kids(tree, p) : f[c] = Height(tree, c)
  PROVE  Height(tree, p) = 1 + Max({f[c] : c \in Kids(tree, p)})
<1> DEFINE K == {f[c] : c \in Kids(tree, p)}
<1>1. PICK m \in Nat : m = Len(p)
  BY Levels
<1>2. PICK h \in Nat : h = Lowest(tree, p)
  BY LowestProperties
<1>3. PICK q \in DOMAIN tree : IsPrefix(p, q) /\ Len(q) = h
  BY <1>2, LowestProperties
<1>4. \A r \in DOMAIN tree : IsPrefix(p, r) => Len(r) <= h
  BY <1>2, LowestProperties
<1>5. \A c \in Kids(tree, p) : c \in DOMAIN tree /\ Len(c) = m + 1 /\ IsPrefix(p, c)
  BY <1>1, KidPath
<1>6. PICK c0 \in Kids(tree, p) : IsPrefix(c0, q)
  <2>1. PICK c \in Kids(tree, p) : TRUE
    BY DEF IsTree
  <2>2. m + 1 <= h
    BY <1>4, <1>5, <2>1
  <2>3. q # p
    BY <1>1, <1>2, <1>3, <2>2
  <2> QED BY <1>3, <2>3, BelowKids
<1>7. ASSUME NEW c \in Kids(tree, p)
      PROVE  /\ f[c] \in Int /\ f[c] <= h - m - 1
             /\ \A r \in DOMAIN tree : IsPrefix(c, r) => Len(r) - m - 1 <= f[c]
  <2>1. PICK l \in Nat : l = Lowest(tree, c)
    BY <1>5, LowestProperties
  <2>2. PICK r \in DOMAIN tree : IsPrefix(c, r) /\ Len(r) = l
    BY <1>5, <2>1, LowestProperties
  <2>3. IsPrefix(p, r)
    BY <1>5, <2>2, PrefixOrder
  <2>4. l <= h
    BY <1>4, <2>2, <2>3
  <2>5. f[c] = l - (m + 1)
    BY <1>5, <2>1 DEF Height
  <2>6. \A s \in DOMAIN tree : IsPrefix(c, s) => Len(s) \in Nat /\ Len(s) <= l
    BY <1>5, <2>1, LowestProperties, Levels
  <2> QED BY <1>1, <1>2, <2>1, <2>4, <2>5, <2>6
<1>8. f[c0] = h - m - 1
  <2>1. f[c0] \in Int /\ f[c0] <= h - m - 1 /\ h - m - 1 <= f[c0]
    BY <1>3, <1>6, <1>7
  <2> QED BY <1>1, <1>2, <2>1
<1>9. K \in SUBSET Int /\ h - m - 1 \in K /\ \A n \in K : n <= h - m - 1
  BY <1>6, <1>7, <1>8
<1>10. Max(K) = h - m - 1
  <2> HIDE DEF K
  <2>1. PICK b : b = h - m - 1
    OBVIOUS
  <2>2. K \in SUBSET Int /\ b \in K /\ \A n \in K : n <= b
    BY <1>9, <2>1
  <2>3. Max(K) = b
    BY <2>2, MaxIs
  <2> QED BY <2>1, <2>3
<1> HIDE DEF K
<1>11. Height(tree, p) = h - m
  BY <1>1, <1>2 DEF Height
<1>12. Height(tree, p) = 1 + Max(K)
  BY <1>1, <1>2, <1>10, <1>11
<1> QED BY <1>12 DEF K

IsTreeDepth(f) ==
  f = [path \in DOMAIN myTree |->
        IF myTree[path].kind = "leaf" THEN 0 ELSE 1 + Max({f[next] : next \in Children(path)})]

\* getTreeDepth counts the levels below the root.
LEMMA TreeDepth ==
  ASSUME IsTree(myTree)
  PROVE  GetTreeDepth[<<>>] = Deepest(myTree)
<1> DEFINE H == [q \in DOMAIN myTree |-> Height(myTree, q)]
           S == {q \in DOMAIN myTree : GetTreeDepth[q] = Height(myTree, q)}
<1>0. \A q : Children(q) = Kids(myTree, q) /\ Kids(myTree, q) \subseteq DOMAIN myTree
  BY DEF Children, Kids
<1>1. IsTreeDepth(H)
  <2>1. ASSUME NEW q \in DOMAIN myTree
        PROVE  H[q] = IF myTree[q].kind = "leaf" THEN 0 ELSE 1 + Max({H[c] : c \in Children(q)})
    <3>0. H[q] = Height(myTree, q) /\ \A c \in Kids(myTree, q) : H[c] = Height(myTree, c)
      BY <1>0
    <3> HIDE DEF H
    <3>1. CASE myTree[q].kind = "leaf"
      BY <3>0, <3>1, HeightLeaf
    <3>2. CASE myTree[q].kind # "leaf"
      <4>1. myTree[q].kind = "dict"
        BY <3>2 DEF IsTree
      <4>2. Height(myTree, q) = 1 + Max({H[c] : c \in Kids(myTree, q)})
        BY <3>0, <4>1, HeightDict
      <4> QED BY <1>0, <3>0, <3>2, <4>2
    <3> QED BY <3>1, <3>2
  <2>2. H = [q \in DOMAIN myTree |-> H[q]]
    OBVIOUS
  <2> HIDE DEF H
  <2> QED BY <2>1, <2>2 DEF IsTreeDepth
<1>2. GetTreeDepth = CHOOSE f : IsTreeDepth(f)
  BY DEF GetTreeDepth, IsTreeDepth
<1>3. IsTreeDepth(GetTreeDepth)
  <2> HIDE DEF H
  <2> QED BY <1>1, <1>2
<1>4. PICK f : f = GetTreeDepth
  OBVIOUS
<1>5. \A q \in DOMAIN myTree :
        f[q] = IF myTree[q].kind = "leaf" THEN 0 ELSE 1 + Max({f[c] : c \in Children(q)})
  BY <1>3, <1>4 DEF IsTreeDepth
<1>6. ASSUME NEW q \in DOMAIN myTree, \A c \in Kids(myTree, q) : c \in S PROVE q \in S
  <2>1. CASE myTree[q].kind = "leaf"
    BY <1>4, <1>5, <2>1, HeightLeaf
  <2>2. CASE myTree[q].kind # "leaf"
    <3>1. myTree[q].kind = "dict"
      BY <2>2 DEF IsTree
    <3>2. \A c \in Kids(myTree, q) : f[c] = Height(myTree, c)
      BY <1>4, <1>6
    <3>3. Height(myTree, q) = 1 + Max({f[c] : c \in Kids(myTree, q)})
      BY <3>1, <3>2, HeightDict
    <3> QED BY <1>0, <1>4, <1>5, <2>2, <3>3
  <2> QED BY <2>1, <2>2
<1>7. DOMAIN myTree \subseteq S
  <2> HIDE DEF S
  <2> QED BY <1>6, TreeInduction
<1>8. <<>> \in DOMAIN myTree /\ Len(<<>>) = 0
  BY EmptyPath DEF IsTree
<1>9. Lowest(myTree, <<>>) = Deepest(myTree)
  <2>1. {r \in DOMAIN myTree : IsPrefix(<<>>, r)} = DOMAIN myTree
    BY PathNodes
  <2> QED BY <2>1 DEF Lowest, Deepest
<1>10. GetTreeDepth[<<>>] = Deepest(myTree) - 0
  BY <1>7, <1>8, <1>9 DEF Height
<1>11. Deepest(myTree) \in Nat
  BY Levels
<1> QED BY <1>10, <1>11

-----------------------------------------------------------------------------
(* The calls of plotTree. *)

\* The calls of plotTree are one for each level down to the innermost, and
\* their keys the nodes one level below.
LEMMA PlotChainProperties ==
  ASSUME NEW tree, IsTree(tree), NEW st, NEW here, PlotChain(tree, st, here)
  PROVE  /\ IsSeq(here) /\ Len(here) \in Nat /\ DOMAIN st = 1 .. Len(here) + 1 /\ st # <<>>
         /\ SubSeq(here, 1, Len(here)) = here
         /\ Last(st) = st[Len(here) + 1] /\ Last(st).path = here
         /\ \A k \in DOMAIN st : /\ SubSeq(here, 1, k - 1) \in DOMAIN tree
                                 /\ Len(SubSeq(here, 1, k - 1)) = k - 1
         /\ \A k \in DOMAIN st : \A key \in st[k].keys :
              /\ key \in DOMAIN tree /\ Len(key) = k /\ IsSeq(key)
              /\ key \in Kids(tree, SubSeq(here, 1, k - 1))
<1>1. here \in DOMAIN tree /\ IsSeq(here) /\ IsSeq(st) /\ Len(st) = Len(here) + 1
  BY DEF PlotChain, IsTree
<1>2. PICK n \in Nat : n = Len(here)
  BY <1>1, PathLength
<1>3. DOMAIN st = 1 .. n + 1 /\ SubSeq(here, 1, n) = here
  BY <1>1, <1>2, PathAppend, LenProperties DEF IsSeq
<1>4. st # <<>>
  BY <1>1, <1>2, EmptySeq
<1>5. Last(st) = st[n + 1]
  BY <1>1, <1>2 DEF Last
<1>6. Last(st).path = here
  <2>1. n + 1 \in DOMAIN st /\ (n + 1) - 1 = n
    BY <1>2, <1>3
  <2>2. st[n + 1].path = SubSeq(here, 1, (n + 1) - 1)
    BY <2>1 DEF PlotChain
  <2> QED BY <1>3, <1>5, <2>1, <2>2
<1>7. ASSUME NEW k \in DOMAIN st
      PROVE  SubSeq(here, 1, k - 1) \in DOMAIN tree /\ Len(SubSeq(here, 1, k - 1)) = k - 1
  <2>1. k - 1 \in 0 .. Len(here)
    BY <1>2, <1>3
  <2> QED BY <1>1, <2>1, PathNodes
<1>8. ASSUME NEW k \in DOMAIN st, NEW key \in st[k].keys
      PROVE  /\ key \in DOMAIN tree /\ Len(key) = k /\ IsSeq(key)
             /\ key \in Kids(tree, SubSeq(here, 1, k - 1))
  <2>1. PICK p : p = SubSeq(here, 1, k - 1)
    OBVIOUS
  <2>2. p \in DOMAIN tree /\ Len(p) = k - 1 /\ key \in Kids(tree, p)
    BY <1>7, <2>1 DEF PlotChain
  <2>3. key \in DOMAIN tree /\ Len(key) = Len(p) + 1 /\ IsSeq(key)
    BY <2>2, KidPath
  <2> QED BY <1>3, <2>1, <2>2, <2>3
<1> QED BY <1>1, <1>2, <1>3, <1>4, <1>5, <1>6, <1>7, <1>8

\* A key of the innermost call: what is above it is being drawn, and no other
\* call will draw it.
LEMMA NextKey ==
  ASSUME NEW tree, IsTree(tree), NEW st, NEW here, PlotChain(tree, st, here), NEW next \in Last(st).keys
  PROVE  /\ next \in Kids(tree, here) /\ here \in DOMAIN tree /\ next \in DOMAIN tree
         /\ next \in Pending(tree, st)
         /\ \A k \in DOMAIN st : \A key \in st[k].keys : IsPrefix(key, next) => k = Len(st) /\ key = next
         /\ \A p \in DOMAIN tree : IsPrefix(p, next) => p = next \/ \E k \in DOMAIN st : st[k].path = p
<1>1. PICK n \in Nat : n = Len(here)
  BY PlotChainProperties
<1>2. /\ IsSeq(here) /\ DOMAIN st = 1 .. n + 1 /\ SubSeq(here, 1, n) = here /\ Last(st) = st[n + 1]
      /\ \A k \in DOMAIN st : \A key \in st[k].keys :
           /\ key \in DOMAIN tree /\ Len(key) = k /\ IsSeq(key)
           /\ key \in Kids(tree, SubSeq(here, 1, k - 1))
      /\ here \in DOMAIN tree /\ Len(st) = n + 1
  <2>1. here \in DOMAIN tree /\ Len(st) = n + 1
    BY <1>1 DEF PlotChain
  <2> QED BY <1>1, <2>1, PlotChainProperties
<1>3. next \in DOMAIN tree /\ Len(next) = n + 1 /\ IsSeq(next) /\ next \in Kids(tree, here)
  <2>1. n + 1 \in DOMAIN st /\ (n + 1) - 1 = n
    BY <1>1, <1>2
  <2> QED BY <1>2, <2>1
<1>4. next \in Pending(tree, st)
  <2>1. IsPrefix(next, next)
    BY <1>3, PathNodes
  <2>2. n + 1 \in DOMAIN st /\ next \in st[n + 1].keys
    BY <1>1, <1>2
  <2> QED BY <1>3, <2>1, <2>2 DEF Pending
<1>5. here = SubSeq(next, 1, n) /\ IsPrefix(here, next)
  BY <1>1, <1>2, <1>3, KidPath
<1>6. \A k \in 0 .. n : SubSeq(here, 1, k) = SubSeq(next, 1, k)
  <2>1. n \in 0 .. Len(next)
    BY <1>1, <1>3
  <2>2. \A k \in 0 .. n : SubSeq(SubSeq(next, 1, n), 1, k) = SubSeq(next, 1, k)
    BY <1>3, <2>1, PathPrefix
  <2> QED BY <1>5, <2>2
<1>7. ASSUME NEW k \in DOMAIN st, NEW key \in st[k].keys, IsPrefix(key, next)
      PROVE  k = n + 1 /\ key = next
  <2>1. key \in DOMAIN tree /\ Len(key) = k /\ IsSeq(key)
    BY <1>2
  <2>2. Len(key) <= Len(next) /\ key = SubSeq(next, 1, Len(key))
    BY <1>3, <1>7, <2>1, PrefixPath
  <2>3. key = SubSeq(next, 1, k)
    BY <2>1, <2>2
  <2>4. k = n + 1
    <3> SUFFICES ASSUME k # n + 1 PROVE FALSE
      OBVIOUS
    <3>1. k \in 0 .. n /\ k \in 1 .. n
      BY <1>1, <1>2
    <3>2. key = SubSeq(here, 1, k)
      BY <1>6, <2>3, <3>1
    <3>3. k \in DOMAIN here
      BY <1>1, <1>2, <3>1, LenProperties DEF IsSeq
    <3> QED BY <3>2, <3>3 DEF PlotChain
  <2>5. SubSeq(next, 1, n + 1) = next
    BY <1>3, PathAppend
  <2> QED BY <2>3, <2>4, <2>5
<1>8. ASSUME NEW p \in DOMAIN tree, IsPrefix(p, next), p # next
      PROVE  \E k \in DOMAIN st : st[k].path = p
  <2>1. PICK l \in Nat : l = Len(p) /\ IsSeq(p)
    BY Levels DEF IsTree
  <2>2. p = SubSeq(next, 1, l)
    BY <1>3, <1>8, <2>1, PrefixPath
  <2>3. l <= n
    <3>1. ~ (Len(next) <= l)
      BY <1>3, <1>8, <2>1, PrefixOrder
    <3> QED BY <1>1, <1>3, <2>1, <3>1
  <2>4. p = SubSeq(here, 1, l)
    BY <1>1, <1>6, <2>1, <2>2, <2>3
  <2>5. l + 1 \in DOMAIN st /\ (l + 1) - 1 = l
    BY <1>1, <1>2, <2>1, <2>3
  <2>6. st[l + 1].path = SubSeq(here, 1, (l + 1) - 1)
    BY <2>5 DEF PlotChain
  <2> QED BY <2>4, <2>5, <2>6
<1> QED BY <1>1, <1>2, <1>3, <1>4, <1>7, <1>8

\* The calls after a key of the innermost is done with.
Advanced(st, st2, next) ==
  /\ IsSeq(st2) /\ Len(st2) = Len(st) /\ DOMAIN st2 = DOMAIN st
  /\ \A k \in DOMAIN st :
       /\ DOMAIN st2[k] = {"path", "cntrPt", "keys"}
       /\ st2[k].path = st[k].path /\ st2[k].cntrPt = st[k].cntrPt
       /\ st2[k].keys = IF k = Len(st) THEN st[k].keys \ {next} ELSE st[k].keys

\* Taking a key changes nothing but the keys of the innermost call.
LEMMA KeyRemoved ==
  ASSUME NEW tree, IsTree(tree), NEW st, NEW here, PlotChain(tree, st, here), NEW next
  PROVE  Advanced(st, [st EXCEPT ![Len(st)].keys = @ \ {next}], next)
<1>1. PICK n : n = Len(st)
  OBVIOUS
<1>2. n \in Nat \ {0} /\ DOMAIN st = 1 .. n /\ st \in [1 .. n -> ToSet(st)]
  <2>1. st # <<>> /\ st \in Seq(ToSet(st))
    BY PlotChainProperties DEF PlotChain, IsSeq
  <2> QED BY <1>1, <2>1, EmptySeq, LenProperties
<1>3. PICK last : last = st[n]
  OBVIOUS
<1>4. DOMAIN last = {"path", "cntrPt", "keys"}
  BY <1>2, <1>3 DEF PlotChain
<1> DEFINE new == [last EXCEPT !.keys = @ \ {next}]
           st2 == [st EXCEPT ![Len(st)].keys = @ \ {next}]
<1>5. st2 = [st EXCEPT ![n] = new]
  BY <1>1, <1>3
<1>6. new.path = last.path /\ new.cntrPt = last.cntrPt /\ new.keys = last.keys \ {next}
      /\ DOMAIN new = {"path", "cntrPt", "keys"}
  BY <1>4
<1> HIDE DEF new, st2
<1>7. /\ DOMAIN st2 = 1 .. n
      /\ \A k \in 1 .. n : k # n => st2[k] = st[k]
      /\ st2[n] = new
  BY <1>2, <1>5
<1>8. IsSeq(st2) /\ Len(st2) = n
  <2>1. st2 \in [1 .. n -> ToSet(st) \cup {new}]
    BY <1>2, <1>5
  <2>2. st2 \in Seq(ToSet(st) \cup {new})
    BY <1>2, <2>1, SeqDef
  <2> QED BY <1>2, <1>7, <2>2, SeqIsSeq, LenProperties
<1>9. ASSUME NEW k \in DOMAIN st
      PROVE  /\ DOMAIN st2[k] = {"path", "cntrPt", "keys"}
             /\ st2[k].path = st[k].path /\ st2[k].cntrPt = st[k].cntrPt
             /\ st2[k].keys = IF k = n THEN st[k].keys \ {next} ELSE st[k].keys
  <2>1. CASE k = n
    BY <1>3, <1>6, <1>7, <2>1
  <2>2. CASE k # n
    <3>1. st2[k] = st[k] /\ DOMAIN st[k] = {"path", "cntrPt", "keys"}
      BY <1>2, <1>7, <2>2 DEF PlotChain
    <3> QED BY <2>2, <3>1
  <2> QED BY <2>1, <2>2
<1>10. Advanced(st, st2, next)
  BY <1>1, <1>2, <1>7, <1>8, <1>9 DEF Advanced
<1> QED BY <1>10 DEF st2

\* The calls are for the same nodes after that.
LEMMA PlotChainAdvanced ==
  ASSUME NEW tree, NEW st, NEW here, PlotChain(tree, st, here), NEW st2, NEW next, Advanced(st, st2, next)
  PROVE  PlotChain(tree, st2, here)
<1>1. IsSeq(st2) /\ Len(st2) = Len(here) + 1 /\ here \in DOMAIN tree
  BY DEF PlotChain, Advanced
<1>2. ASSUME NEW k \in DOMAIN st2
      PROVE  /\ DOMAIN st2[k] = {"path", "cntrPt", "keys"}
             /\ st2[k].path = SubSeq(here, 1, k - 1)
             /\ st2[k].keys \subseteq Kids(tree, st2[k].path)
             /\ k \in DOMAIN here => SubSeq(here, 1, k) \notin st2[k].keys
  <2>1. /\ k \in DOMAIN st /\ DOMAIN st2[k] = {"path", "cntrPt", "keys"}
        /\ st2[k].path = st[k].path /\ st2[k].keys \subseteq st[k].keys
    BY DEF Advanced
  <2> QED BY <2>1 DEF PlotChain
<1> QED BY <1>1, <1>2 DEF PlotChain

\* What the calls have to draw without the key and what is below it.
LEMMA PendingAdvanced ==
  ASSUME NEW tree, IsTree(tree), NEW st, NEW here, PlotChain(tree, st, here),
         NEW next \in Last(st).keys, NEW st2, Advanced(st, st2, next)
  PROVE  /\ \A q \in DOMAIN tree : q \in Pending(tree, st) <=> q \in Pending(tree, st2) \/ IsPrefix(next, q)
         /\ next \notin Pending(tree, st2)
<1>1. Len(st) \in DOMAIN st /\ next \in st[Len(st)].keys
  <2>1. PICK n \in Nat : n = Len(here) /\ DOMAIN st = 1 .. n + 1
    BY PlotChainProperties
  <2>2. Len(st) = n + 1
    BY <2>1 DEF PlotChain
  <2> QED BY <2>1, <2>2, PlotChainProperties
<1>2. ASSUME NEW q \in DOMAIN tree, NEW k \in DOMAIN st, NEW key \in st[k].keys, IsPrefix(key, q)
      PROVE  q \in Pending(tree, st2) \/ IsPrefix(next, q)
  <2>1. CASE key = next
    BY <1>2, <2>1
  <2>2. CASE key # next
    <3>1. k \in DOMAIN st2 /\ key \in st2[k].keys
      BY <2>2 DEF Advanced
    <3> QED BY <1>2, <3>1 DEF Pending
  <2> QED BY <2>1, <2>2
<1>3. ASSUME NEW q \in DOMAIN tree, NEW k \in DOMAIN st2, NEW key \in st2[k].keys, IsPrefix(key, q)
      PROVE  q \in Pending(tree, st) /\ q # next
  <2>1. k \in DOMAIN st /\ key \in st[k].keys /\ (k = Len(st) => key # next)
    BY DEF Advanced
  <2>2. q \in Pending(tree, st)
    BY <1>3, <2>1 DEF Pending
  <2>3. q # next
    BY <1>3, <2>1, NextKey
  <2> QED BY <2>2, <2>3
<1>4. \A q \in DOMAIN tree : IsPrefix(next, q) => q \in Pending(tree, st)
  BY <1>1 DEF Pending
<1>5. \A q : q \in Pending(tree, st2) => \E k \in DOMAIN st2 : \E key \in st2[k].keys : IsPrefix(key, q)
  BY DEF Pending
<1>6. \A q : q \in Pending(tree, st) => \E k \in DOMAIN st : \E key \in st[k].keys : IsPrefix(key, q)
  BY DEF Pending
<1>7. next \in DOMAIN tree
  BY NextKey
<1> QED BY <1>2, <1>3, <1>4, <1>5, <1>6, <1>7

\* A leaf is all that was to be drawn for its key.
LEMMA PendingLeaf ==
  ASSUME NEW tree, IsTree(tree), NEW st, NEW here, PlotChain(tree, st, here),
         NEW next \in Last(st).keys, tree[next].kind = "leaf", NEW st2, Advanced(st, st2, next)
  PROVE  Pending(tree, st2) = Pending(tree, st) \ {next}
<1>1. next \in DOMAIN tree
  BY NextKey
<1>2. \A q \in DOMAIN tree : IsPrefix(next, q) <=> q = next
  BY <1>1, BelowKids, LeafLeaves
<1>3. \A q \in Pending(tree, st) \cup Pending(tree, st2) : q \in DOMAIN tree
  BY DEF Pending
<1>4. /\ \A q \in DOMAIN tree : q \in Pending(tree, st) <=> q \in Pending(tree, st2) \/ IsPrefix(next, q)
      /\ next \notin Pending(tree, st2)
  BY PendingAdvanced
<1> QED BY <1>1, <1>2, <1>3, <1>4

\* A dict is drawn now, and what is below it by a call of its own.
LEMMA PendingDict ==
  ASSUME NEW tree, IsTree(tree), NEW st, NEW here, PlotChain(tree, st, here),
         NEW next \in Last(st).keys, NEW st2, Advanced(st, st2, next),
         NEW frame, frame.keys = Kids(tree, next)
  PROVE  Pending(tree, Append(st2, frame)) = Pending(tree, st) \ {next}
<1>1. next \in DOMAIN tree
  BY NextKey
<1>2. PICK st3 : st3 = Append(st2, frame)
  OBVIOUS
<1>3. PICK m \in Nat : /\ DOMAIN st2 = 1 .. m /\ DOMAIN st3 = 1 .. m + 1
                       /\ st3[m + 1] = frame /\ \A k \in 1 .. m : st3[k] = st2[k]
  <2>1. IsSeq(st2)
    BY DEF Advanced
  <2> QED BY <1>2, <2>1, PathAppend
<1>4. \A q \in DOMAIN tree :
        q \in Pending(tree, st3) <=> q \in Pending(tree, st2) \/ \E c \in Kids(tree, next) : IsPrefix(c, q)
  <2>1. \A k : k \in 1 .. m + 1 <=> k \in 1 .. m \/ k = m + 1
    OBVIOUS
  <2>2. \A q : (\E k \in 1 .. m + 1 : \E key \in st3[k].keys : IsPrefix(key, q)) <=>
               (\E k \in 1 .. m : \E key \in st2[k].keys : IsPrefix(key, q)) \/ \E c \in Kids(tree, next) : IsPrefix(c, q)
    BY <1>3, <2>1
  <2> QED BY <1>3, <2>2 DEF Pending
<1>5. /\ \A q \in DOMAIN tree : q \in Pending(tree, st) <=> q \in Pending(tree, st2) \/ IsPrefix(next, q)
      /\ next \notin Pending(tree, st2)
  BY PendingAdvanced
<1>6. \A q \in DOMAIN tree : /\ IsPrefix(next, q) <=> q = next \/ \E c \in Kids(tree, next) : IsPrefix(c, q)
                             /\ \A c \in Kids(tree, next) : IsPrefix(c, q) => q # next
  BY <1>1, BelowKids
<1>7. \A q \in Pending(tree, st) \cup Pending(tree, st3) : q \in DOMAIN tree
  BY DEF Pending
<1>8. Pending(tree, st3) = Pending(tree, st) \ {next}
  BY <1>1, <1>4, <1>5, <1>6, <1>7
<1> QED BY <1>2, <1>8

-----------------------------------------------------------------------------
(* What a call of plotNode adds to the picture. *)

\* The columns of n leaves in a row.
LEMMA OddRow ==
  ASSUME NEW s \in Nat, NEW n \in Nat
  PROVE  /\ OddFrom(s, 0) = {}
         /\ OddFrom(s, n + 1) = OddFrom(s, n) \cup {2 * (s + n) + 1}
         /\ OddFrom(s, n) \subseteq Int
         /\ n > 0 => Min(OddFrom(s, n)) = 2 * s + 1 /\ Max(OddFrom(s, n)) = 2 * (s + n) - 1
<1>1. OddFrom(s, 0) = {}
  BY DEF OddFrom
<1>2. OddFrom(s, n + 1) = OddFrom(s, n) \cup {2 * (s + n) + 1}
  <2>1. \A k : k \in s + 1 .. s + (n + 1) <=> k \in s + 1 .. s + n \/ k = s + n + 1
    OBVIOUS
  <2>2. 2 * (s + n + 1) - 1 = 2 * (s + n) + 1
    OBVIOUS
  <2> QED BY <2>1, <2>2 DEF OddFrom
<1>3. OddFrom(s, n) \subseteq Int
  BY DEF OddFrom
<1>4. ASSUME n > 0
      PROVE  Min(OddFrom(s, n)) = 2 * s + 1 /\ Max(OddFrom(s, n)) = 2 * (s + n) - 1
  <2>1. \A m \in OddFrom(s, n) : 2 * s + 1 <= m /\ m <= 2 * (s + n) - 1
    BY DEF OddFrom
  <2>2. 2 * s + 1 \in OddFrom(s, n)
    <3>1. s + 1 \in s + 1 .. s + n /\ 2 * (s + 1) - 1 = 2 * s + 1
      BY <1>4
    <3> QED BY <3>1 DEF OddFrom
  <2>3. 2 * (s + n) - 1 \in OddFrom(s, n)
    <3>1. s + n \in s + 1 .. s + n
      BY <1>4
    <3> QED BY <3>1 DEF OddFrom
  <2> QED BY <1>3, <2>1, <2>2, <2>3, MinIs, MaxIs
<1> QED BY <1>1, <1>2, <1>3, <1>4

\* What is below a node that is still to be drawn is so too.
LEMMA PendingBelow ==
  ASSUME NEW tree, IsTree(tree), NEW st, NEW here, PlotChain(tree, st, here),
         NEW p \in Pending(tree, st), NEW q \in DOMAIN tree, IsPrefix(p, q)
  PROVE  q \in Pending(tree, st)
<1>0. PICK k \in DOMAIN st : \E key \in st[k].keys : IsPrefix(key, p)
  BY DEF Pending
<1>1. PICK key \in st[k].keys : IsPrefix(key, p)
  BY <1>0
<1>2. p \in DOMAIN tree
  BY DEF Pending
<1>3. key \in DOMAIN tree
  BY PlotChainProperties
<1>4. IsPrefix(key, q)
  BY <1>1, <1>2, <1>3, PrefixOrder
<1> QED BY <1>4 DEF Pending

\* What is above a node is one.
LEMMA ParentInTree ==
  ASSUME NEW tree, IsTree(tree), NEW p \in DOMAIN tree, p # <<>>
  PROVE  Front(p) \in DOMAIN tree
<1>1. IsSeq(p)
  BY DEF IsTree
<1>2. PICK n \in Nat \ {0} : n = Len(p)
  BY <1>1, PathFront
<1>3. Front(p) = SubSeq(p, 1, n - 1) /\ n - 1 \in 0 .. Len(p)
  BY <1>1, <1>2, PathFront
<1> QED BY <1>3, PathNodes

\* The picture with one more node.
Added(tree, nodes, nodes2, next, entry) ==
  /\ next \in DOMAIN tree /\ next \notin DOMAIN nodes /\ next # <<>>
  /\ DOMAIN nodes2 = DOMAIN nodes \cup {next}
  /\ \A p \in DOMAIN nodes : nodes2[p] = nodes[p]
  /\ nodes2[next] = entry
  /\ \A p \in DOMAIN nodes2 : Placed(tree, nodes2, p)

\* A key of the innermost call was not drawn yet, and is drawn at its level
\* with its arrow from the node of the call.
LEMMA NodeAdded ==
  ASSUME NEW tree, IsTree(tree), NEW st, NEW here, PlotChain(tree, st, here), NEW next \in Last(st).keys,
         NEW nodes, NEW x, NEW y, Picture(tree, st, nodes, x, y),
         NEW entry, entry.at[2] = y, entry.from = Last(st).cntrPt
  PROVE  Added(tree, nodes, Put(nodes, next, entry), next, entry)
<1>1. /\ next \in Kids(tree, here) /\ here \in DOMAIN tree /\ next \in DOMAIN tree
      /\ next \in Pending(tree, st)
  BY NextKey
<1>2. next # <<>> /\ Front(next) = here /\ Len(next) = Len(here) + 1 /\ Len(here) \in Nat
  BY <1>1, KidPath DEF Kids
<1>3. DOMAIN nodes = DOMAIN tree \ Pending(tree, st) /\ <<>> \in DOMAIN nodes
  BY DEF Picture
<1>4. PICK nodes2 : nodes2 = Put(nodes, next, entry)
  OBVIOUS
<1>5. /\ DOMAIN nodes2 = DOMAIN nodes \cup {next} /\ next \notin DOMAIN nodes
      /\ \A p \in DOMAIN nodes : nodes2[p] = nodes[p]
      /\ nodes2[next] = entry
  BY <1>1, <1>3, <1>4 DEF Put
<1>6. here \in DOMAIN nodes /\ Last(st).cntrPt = nodes[here].at
  <2>1. PICK k : k = Len(here) + 1
    OBVIOUS
  <2>2. k \in DOMAIN st /\ Last(st) = st[k] /\ Last(st).path = here
    BY <1>2, <2>1, PlotChainProperties
  <2>3. st[k].path \in DOMAIN nodes /\ st[k].cntrPt = nodes[st[k].path].at
    BY <2>2 DEF Picture
  <2> QED BY <2>2, <2>3
<1>7. ASSUME NEW p \in DOMAIN nodes PROVE Placed(tree, nodes2, p)
  <2>1. Placed(tree, nodes, p) /\ p \in DOMAIN tree
    BY <1>3 DEF Picture
  <2>2. p # <<>> => Front(p) \in DOMAIN nodes
    <3> SUFFICES ASSUME p # <<>> PROVE Front(p) \in DOMAIN nodes
      OBVIOUS
    <3>1. p \in Kids(tree, Front(p))
      BY <2>1 DEF Kids
    <3>2. Front(p) \in DOMAIN tree
      BY <2>1, ParentInTree
    <3>3. IsPrefix(Front(p), p)
      BY <3>1, <3>2, KidPath
    <3>4. Front(p) \notin Pending(tree, st)
      BY <1>3, <2>1, <3>3, PendingBelow
    <3> QED BY <1>3, <3>2, <3>4
  <2> QED BY <1>5, <2>1, <2>2 DEF Placed
<1>8. Placed(tree, nodes2, next)
  <2>1. y = Deepest(tree) - Len(next)
    BY <1>2 DEF Picture, PlotChain
  <2>2. nodes2[next].at[2] = Deepest(tree) - Len(next)
    BY <1>5, <2>1
  <2>3. nodes2[next].from = nodes2[Front(next)].at
    BY <1>2, <1>5, <1>6
  <2> QED BY <1>2, <2>2, <2>3 DEF Placed
<1> QED BY <1>1, <1>2, <1>4, <1>5, <1>7, <1>8 DEF Added

\* The leaves drawn below a node when one more node is drawn.
LEMMA LeavesAdded ==
  ASSUME NEW tree, IsTree(tree), NEW nodes, NEW next, next \notin DOMAIN nodes, NEW entry, NEW p
  PROVE  /\ Cardinality(DrawnLeaves(tree, nodes, p)) \in Nat
         /\ next \in LeavesOf(tree, p) =>
              /\ Cardinality(DrawnLeaves(tree, Put(nodes, next, entry), p)) = Cardinality(DrawnLeaves(tree, nodes, p)) + 1
              /\ ColumnsOf(Put(nodes, next, entry), DrawnLeaves(tree, Put(nodes, next, entry), p)) =
                   ColumnsOf(nodes, DrawnLeaves(tree, nodes, p)) \cup {entry.at[1]}
         /\ next \notin LeavesOf(tree, p) =>
              /\ Cardinality(DrawnLeaves(tree, Put(nodes, next, entry), p)) = Cardinality(DrawnLeaves(tree, nodes, p))
              /\ ColumnsOf(Put(nodes, next, entry), DrawnLeaves(tree, Put(nodes, next, entry), p)) =
                   ColumnsOf(nodes, DrawnLeaves(tree, nodes, p))
<1>1. PICK nodes2 : nodes2 = Put(nodes, next, entry)
  OBVIOUS
<1>2. /\ DOMAIN nodes2 = DOMAIN nodes \cup {next}
      /\ \A q \in DOMAIN nodes : nodes2[q] = nodes[q]
      /\ nodes2[next] = entry
  BY <1>1 DEF Put
<1>3. PICK L, L2 : L = DrawnLeaves(tree, nodes, p) /\ L2 = DrawnLeaves(tree, nodes2, p)
  OBVIOUS
<1>4. IsFiniteSet(L) /\ next \notin L /\ L \subseteq DOMAIN nodes
  <2>1. L \subseteq LeavesOf(tree, p) /\ L \subseteq DOMAIN nodes
    BY <1>3 DEF DrawnLeaves
  <2> QED BY <2>1, LeavesFinite, FS_Subset
<1>5. Cardinality(L) \in Nat
  BY <1>4, FS_CardinalityType
<1>6. ASSUME next \in LeavesOf(tree, p)
      PROVE  /\ Cardinality(L2) = Cardinality(L) + 1
             /\ ColumnsOf(nodes2, L2) = ColumnsOf(nodes, L) \cup {entry.at[1]}
  <2>1. L2 = L \cup {next}
    BY <1>2, <1>3, <1>6 DEF DrawnLeaves
  <2>2. Cardinality(L \cup {next}) = Cardinality(L) + 1
    BY <1>4, FS_AddElement
  <2>3. ColumnsOf(nodes2, L2) = ColumnsOf(nodes, L) \cup {entry.at[1]}
    BY <1>2, <1>4, <2>1 DEF ColumnsOf
  <2> QED BY <2>1, <2>2, <2>3
<1>7. ASSUME next \notin LeavesOf(tree, p)
      PROVE  Cardinality(L2) = Cardinality(L) /\ ColumnsOf(nodes2, L2) = ColumnsOf(nodes, L)
  <2>1. L2 = L
    BY <1>2, <1>3, <1>7 DEF DrawnLeaves
  <2>2. ColumnsOf(nodes2, L2) = ColumnsOf(nodes, L)
    BY <1>2, <1>4, <2>1 DEF ColumnsOf
  <2> QED BY <2>1, <2>2
<1> QED BY <1>1, <1>3, <1>5, <1>6, <1>7

\* The calls are of the nodes above each of their keys.
LEMMA CallsAbove ==
  ASSUME NEW tree, IsTree(tree), NEW st, NEW here, PlotChain(tree, st, here), NEW next \in Last(st).keys,
         NEW k \in DOMAIN st
  PROVE  IsPrefix(st[k].path, next) /\ st[k].path # next /\ st[k].path \in DOMAIN tree
<1>1. next \in Kids(tree, here) /\ here \in DOMAIN tree /\ next \in DOMAIN tree
  BY NextKey
<1>2. PICK n \in Nat : n = Len(here) /\ DOMAIN st = 1 .. n + 1
  BY PlotChainProperties
<1>3. PICK p : p = st[k].path /\ p = SubSeq(here, 1, k - 1)
  BY DEF PlotChain
<1>4. k - 1 \in 0 .. Len(here)
  BY <1>2
<1>5. p \in DOMAIN tree /\ IsPrefix(p, here) /\ Len(p) = k - 1
  BY <1>1, <1>3, <1>4, PathNodes
<1>6. IsPrefix(here, next) /\ Len(next) = n + 1
  BY <1>1, <1>2, KidPath
<1>7. IsPrefix(p, next)
  BY <1>1, <1>5, <1>6, PrefixOrder
<1>8. Len(p) # Len(next)
  BY <1>2, <1>5, <1>6
<1> QED BY <1>3, <1>5, <1>7, <1>8

\* A leaf is drawn in the next column.
LEMMA PictureLeaf ==
  ASSUME NEW tree, IsTree(tree), NEW st, NEW here, PlotChain(tree, st, here),
         NEW next \in Last(st).keys, tree[next].kind = "leaf", NEW st2, Advanced(st, st2, next),
         NEW nodes, NEW x, NEW y, Picture(tree, st, nodes, x, y),
         NEW entry, entry.at = <<x + 2, y>>, entry.from = Last(st).cntrPt
  PROVE  Picture(tree, st2, Put(nodes, next, entry), x + 2, y)
<1>0. entry.at[1] = x + 2 /\ entry.at[2] = y
  OBVIOUS
<1>1. PICK nodes2 : nodes2 = Put(nodes, next, entry)
  OBVIOUS
<1>2. /\ next \in DOMAIN tree /\ next \notin DOMAIN nodes /\ next # <<>>
      /\ DOMAIN nodes2 = DOMAIN nodes \cup {next}
      /\ \A p \in DOMAIN nodes : nodes2[p] = nodes[p]
      /\ nodes2[next] = entry
      /\ \A p \in DOMAIN nodes2 : Placed(tree, nodes2, p)
  <2>1. entry.at[2] = y /\ entry.from = Last(st).cntrPt
    BY <1>0
  <2>2. Added(tree, nodes, Put(nodes, next, entry), next, entry)
    BY <2>1, NodeAdded
  <2> QED BY <1>1, <2>2 DEF Added
<1>3. /\ DOMAIN nodes = DOMAIN tree \ Pending(tree, st)
      /\ <<>> \in DOMAIN nodes /\ nodes[<<>>].at[1] = Breadth(tree, <<>>)
      /\ y = Deepest(tree) - Len(st)
      /\ \A p \in DOMAIN nodes : Across(tree, nodes, st, p)
      /\ \A k \in DOMAIN st : st[k].path \in DOMAIN nodes /\ st[k].cntrPt = nodes[st[k].path].at
  BY DEF Picture
<1>4. PICK N \in Nat : /\ N = Cardinality(DrawnLeaves(tree, nodes, <<>>)) /\ x = 2 * N - 1
  BY <1>2, LeavesAdded DEF Picture
<1>5. \A p : /\ Cardinality(DrawnLeaves(tree, nodes, p)) \in Nat
             /\ next \in LeavesOf(tree, p) =>
                  /\ Cardinality(DrawnLeaves(tree, nodes2, p)) = Cardinality(DrawnLeaves(tree, nodes, p)) + 1
                  /\ ColumnsOf(nodes2, DrawnLeaves(tree, nodes2, p)) =
                       ColumnsOf(nodes, DrawnLeaves(tree, nodes, p)) \cup {entry.at[1]}
             /\ next \notin LeavesOf(tree, p) =>
                  /\ Cardinality(DrawnLeaves(tree, nodes2, p)) = Cardinality(DrawnLeaves(tree, nodes, p))
                  /\ ColumnsOf(nodes2, DrawnLeaves(tree, nodes2, p)) =
                       ColumnsOf(nodes, DrawnLeaves(tree, nodes, p))
  BY <1>1, <1>2, LeavesAdded
<1>6. \A p : next \in LeavesOf(tree, p) <=> IsPrefix(p, next)
  BY <1>2 DEF LeavesOf
<1>7. Cardinality(DrawnLeaves(tree, nodes2, <<>>)) = N + 1
  <2>1. IsPrefix(<<>>, next)
    BY <1>2, PathNodes
  <2> QED BY <1>4, <1>5, <1>6, <2>1
<1>8. \A k \in DOMAIN st : st2[k].path = st[k].path /\ st2[k].cntrPt = st[k].cntrPt
  BY DEF Advanced
<1>9. DOMAIN st2 = DOMAIN st /\ Len(st2) = Len(st)
  BY DEF Advanced
<1>10. ASSUME NEW p \in DOMAIN nodes PROVE Across(tree, nodes2, st2, p)
  <2>1. PICK s \in Nat :
          /\ nodes[p].at[1] = 2 * s + Breadth(tree, p)
          /\ ColumnsOf(nodes, DrawnLeaves(tree, nodes, p)) = OddFrom(s, Cardinality(DrawnLeaves(tree, nodes, p)))
          /\ (\E k \in DOMAIN st : st[k].path = p) => s + Cardinality(DrawnLeaves(tree, nodes, p)) = N
    BY <1>3, <1>4 DEF Across
  <2>2. PICK c \in Nat : c = Cardinality(DrawnLeaves(tree, nodes, p))
    BY <1>5
  <2>3. nodes2[p].at[1] = 2 * s + Breadth(tree, p)
    BY <1>2, <2>1
  <2>4. CASE IsPrefix(p, next)
    <3>1. \E k \in DOMAIN st : st[k].path = p
      <4>1. p \in DOMAIN tree /\ p # next
        BY <1>2, <1>3
      <4> QED BY <2>4, <4>1, NextKey
    <3>2. s + c = N
      BY <2>1, <2>2, <3>1
    <3>3. /\ Cardinality(DrawnLeaves(tree, nodes2, p)) = c + 1
          /\ ColumnsOf(nodes2, DrawnLeaves(tree, nodes2, p)) = OddFrom(s, c) \cup {x + 2}
      BY <1>0, <1>5, <1>6, <2>1, <2>2, <2>4
    <3>4. OddFrom(s, c + 1) = OddFrom(s, c) \cup {x + 2}
      <4>1. x + 2 = 2 * (s + c) + 1
        BY <1>4, <3>2
      <4>2. OddFrom(s, c + 1) = OddFrom(s, c) \cup {2 * (s + c) + 1}
        BY OddRow
      <4> QED BY <4>1, <4>2
    <3>5. s + (c + 1) = N + 1
      BY <3>2
    <3> QED BY <1>7, <2>3, <3>3, <3>4, <3>5 DEF Across
  <2>5. CASE ~ IsPrefix(p, next)
    <3>1. /\ Cardinality(DrawnLeaves(tree, nodes2, p)) = c
          /\ ColumnsOf(nodes2, DrawnLeaves(tree, nodes2, p)) = OddFrom(s, c)
      BY <1>5, <1>6, <2>1, <2>2, <2>5
    <3>2. ~ \E k \in DOMAIN st2 : st2[k].path = p
      BY <1>8, <1>9, <2>5, CallsAbove
    <3> QED BY <2>3, <3>1, <3>2 DEF Across
  <2> QED BY <2>4, <2>5
<1>11. Across(tree, nodes2, st2, next)
  <2>1. LeavesOf(tree, next) = {next} /\ Breadth(tree, next) = 1
    BY <1>2, LeafLeaves
  <2>2. DrawnLeaves(tree, nodes2, next) = {next}
    BY <1>2, <2>1 DEF DrawnLeaves
  <2>3. Cardinality(DrawnLeaves(tree, nodes2, next)) = 0 + 1
    <3>1. Cardinality({next}) = 1
      BY FS_Singleton
    <3> QED BY <2>2, <3>1
  <2>4. ColumnsOf(nodes2, DrawnLeaves(tree, nodes2, next)) = {x + 2}
    BY <1>0, <1>2, <2>2 DEF ColumnsOf
  <2>5. OddFrom(N, 0 + 1) = {x + 2}
    <3>1. OddFrom(N, 0 + 1) = OddFrom(N, 0) \cup {2 * (N + 0) + 1} /\ OddFrom(N, 0) = {}
      BY OddRow
    <3>2. x + 2 = 2 * (N + 0) + 1
      BY <1>4
    <3> QED BY <3>1, <3>2
  <2>6. nodes2[next].at[1] = 2 * N + Breadth(tree, next) /\ N + (0 + 1) = N + 1
    BY <1>0, <1>2, <1>4, <2>1
  <2> QED BY <1>7, <2>3, <2>4, <2>5, <2>6 DEF Across
<1>12. DOMAIN nodes2 = DOMAIN tree \ Pending(tree, st2)
  <2>1. Pending(tree, st2) = Pending(tree, st) \ {next}
    BY PendingLeaf
  <2> QED BY <1>2, <1>3, <2>1
<1>13. <<>> \in DOMAIN nodes2 /\ nodes2[<<>>].at[1] = Breadth(tree, <<>>)
  BY <1>2, <1>3
<1>14. x + 2 = 2 * (N + 1) - 1 /\ y = Deepest(tree) - Len(st2)
  BY <1>3, <1>4, <1>9
<1>15. \A k \in DOMAIN st2 : st2[k].path \in DOMAIN nodes2 /\ st2[k].cntrPt = nodes2[st2[k].path].at
  BY <1>2, <1>3, <1>8, <1>9
<1>16. \A p \in DOMAIN nodes2 : Across(tree, nodes2, st2, p) /\ Placed(tree, nodes2, p)
  BY <1>2, <1>10, <1>11
<1> QED BY <1>1, <1>7, <1>12, <1>13, <1>14, <1>15, <1>16 DEF Picture

\* The call of plotTree for a node before it takes a key.
PlotCallOf(tree, frame, next) ==
  DOMAIN frame = {"path", "cntrPt", "keys"} /\ frame.path = next /\ frame.keys = Kids(tree, next)

\* A call of plotTree goes one node down.
LEMMA PlotChainGrown ==
  ASSUME NEW tree, IsTree(tree), NEW st, NEW here, PlotChain(tree, st, here),
         NEW next \in Last(st).keys, NEW st2, Advanced(st, st2, next),
         NEW frame, PlotCallOf(tree, frame, next)
  PROVE  PlotChain(tree, Append(st2, frame), next)
<1>1. PICK n \in Nat : n = Len(here) /\ DOMAIN st = 1 .. n + 1 /\ IsSeq(here) /\ SubSeq(here, 1, n) = here
  BY PlotChainProperties
<1>2. next \in Kids(tree, here) /\ here \in DOMAIN tree /\ next \in DOMAIN tree
  BY NextKey
<1>3. Len(next) = n + 1 /\ IsSeq(next) /\ here = SubSeq(next, 1, n)
  BY <1>1, <1>2, KidPath
<1>4. PICK st3 : st3 = Append(st2, frame)
  OBVIOUS
<1>5. IsSeq(st2) /\ Len(st2) = n + 1
  BY <1>1 DEF Advanced, PlotChain
<1>6. /\ IsSeq(st3) /\ Len(st3) = n + 2 /\ DOMAIN st3 = 1 .. n + 2
      /\ st3[n + 2] = frame /\ \A k \in 1 .. n + 1 : st3[k] = st2[k]
  <2>1. PICK m \in Nat : /\ m = Len(st2) /\ IsSeq(st3) /\ Len(st3) = m + 1 /\ DOMAIN st3 = 1 .. m + 1
                         /\ st3[m + 1] = frame /\ \A k \in 1 .. m : st3[k] = st2[k]
    BY <1>4, <1>5, PathAppend
  <2>2. m = n + 1 /\ m + 1 = n + 2
    BY <1>1, <1>5, <2>1
  <2> QED BY <2>1, <2>2
<1>7. \A k \in 0 .. n : SubSeq(here, 1, k) = SubSeq(next, 1, k)
  <2>1. n \in 0 .. Len(next)
    BY <1>1, <1>3
  <2>2. \A k \in 0 .. n : SubSeq(SubSeq(next, 1, n), 1, k) = SubSeq(next, 1, k)
    BY <1>3, <2>1, PathPrefix
  <2> QED BY <1>3, <2>2
<1>8. SubSeq(next, 1, n + 1) = next /\ DOMAIN next = 1 .. n + 1 /\ DOMAIN here = 1 .. n
  <2>1. SubSeq(next, 1, Len(next)) = next /\ DOMAIN next = 1 .. Len(next)
    BY <1>3, PathAppend
  <2>2. DOMAIN here = 1 .. Len(here)
    BY <1>1, PathAppend
  <2> QED BY <1>1, <1>3, <2>1, <2>2
<1>9. ASSUME NEW k \in 1 .. n + 1
      PROVE  /\ DOMAIN st3[k] = {"path", "cntrPt", "keys"}
             /\ st3[k].path = SubSeq(next, 1, k - 1)
             /\ st3[k].keys \subseteq Kids(tree, st3[k].path)
             /\ SubSeq(next, 1, k) \notin st3[k].keys
  <2>1. PICK old, new : old = st[k] /\ new = st2[k] /\ new = st3[k]
    BY <1>6
  <2>2. /\ old.path = SubSeq(here, 1, k - 1) /\ old.keys \subseteq Kids(tree, old.path)
        /\ k \in DOMAIN here => SubSeq(here, 1, k) \notin old.keys
    BY <1>1, <2>1 DEF PlotChain
  <2>3. /\ DOMAIN new = {"path", "cntrPt", "keys"} /\ new.path = old.path
        /\ new.keys \subseteq old.keys /\ (k = n + 1 => next \notin new.keys)
    <3>1. Len(st) = n + 1
      BY <1>1 DEF PlotChain
    <3> QED BY <1>1, <2>1, <3>1 DEF Advanced
  <2>4. SubSeq(here, 1, k - 1) = SubSeq(next, 1, k - 1)
    <3>1. k - 1 \in 0 .. n
      BY <1>1
    <3> QED BY <1>7, <3>1
  <2>5. CASE k = n + 1
    BY <1>8, <2>1, <2>2, <2>3, <2>4, <2>5
  <2>6. CASE k # n + 1
    <3>1. k \in 1 .. n /\ k \in 0 .. n
      BY <1>1, <2>6
    <3>2. SubSeq(next, 1, k) \notin old.keys
      BY <1>7, <1>8, <2>2, <3>1
    <3> QED BY <2>1, <2>2, <2>3, <2>4, <3>2
  <2> QED BY <2>5, <2>6
<1>10. /\ DOMAIN st3[n + 2] = {"path", "cntrPt", "keys"} /\ st3[n + 2].path = SubSeq(next, 1, (n + 2) - 1)
       /\ st3[n + 2].keys \subseteq Kids(tree, st3[n + 2].path) /\ n + 2 \notin DOMAIN next
  <2>1. (n + 2) - 1 = n + 1 /\ n + 2 \notin 1 .. n + 1
    BY <1>1
  <2> QED BY <1>6, <1>8, <2>1 DEF PlotCallOf
<1>11. ASSUME NEW k \in DOMAIN st3
       PROVE  /\ DOMAIN st3[k] = {"path", "cntrPt", "keys"}
              /\ st3[k].path = SubSeq(next, 1, k - 1)
              /\ st3[k].keys \subseteq Kids(tree, st3[k].path)
              /\ k \in DOMAIN next => SubSeq(next, 1, k) \notin st3[k].keys
  <2>1. CASE k \in 1 .. n + 1
    BY <1>9, <2>1
  <2>2. CASE k \notin 1 .. n + 1
    <3>1. k = n + 2
      BY <1>1, <1>6, <2>2
    <3> QED BY <1>10, <3>1
  <2> QED BY <2>1, <2>2
<1>12. Len(st3) = Len(next) + 1
  BY <1>1, <1>3, <1>6
<1>13. PlotChain(tree, st3, next)
  BY <1>2, <1>6, <1>11, <1>12 DEF PlotChain
<1> QED BY <1>4, <1>13

\* A dict is drawn over the columns of its leaves, the next ones.
LEMMA PictureDict ==
  ASSUME NEW tree, IsTree(tree), NEW st, NEW here, PlotChain(tree, st, here),
         NEW next \in Last(st).keys, tree[next].kind = "dict", NEW st2, Advanced(st, st2, next),
         NEW nodes, NEW x, NEW y, Picture(tree, st, nodes, x, y),
         NEW entry, entry.at = <<x + 1 + Breadth(tree, next), y>>, entry.from = Last(st).cntrPt,
         NEW frame, frame.path = next, frame.cntrPt = entry.at, frame.keys = Kids(tree, next)
  PROVE  Picture(tree, Append(st2, frame), Put(nodes, next, entry), x, y - 1)
<1>0. entry.at[1] = x + 1 + Breadth(tree, next) /\ entry.at[2] = y
  OBVIOUS
<1>1. PICK nodes2 : nodes2 = Put(nodes, next, entry)
  OBVIOUS
<1>2. /\ next \in DOMAIN tree /\ next \notin DOMAIN nodes /\ next # <<>>
      /\ DOMAIN nodes2 = DOMAIN nodes \cup {next}
      /\ \A p \in DOMAIN nodes : nodes2[p] = nodes[p]
      /\ nodes2[next] = entry
      /\ \A p \in DOMAIN nodes2 : Placed(tree, nodes2, p)
  <2>1. entry.at[2] = y /\ entry.from = Last(st).cntrPt
    BY <1>0
  <2>2. Added(tree, nodes, Put(nodes, next, entry), next, entry)
    BY <2>1, NodeAdded
  <2> QED BY <1>1, <2>2 DEF Added
<1>3. /\ DOMAIN nodes = DOMAIN tree \ Pending(tree, st)
      /\ <<>> \in DOMAIN nodes /\ nodes[<<>>].at[1] = Breadth(tree, <<>>)
      /\ y = Deepest(tree) - Len(st)
      /\ \A p \in DOMAIN nodes : Across(tree, nodes, st, p)
      /\ \A k \in DOMAIN st : st[k].path \in DOMAIN nodes /\ st[k].cntrPt = nodes[st[k].path].at
  BY DEF Picture
<1>4. PICK N \in Nat : /\ N = Cardinality(DrawnLeaves(tree, nodes, <<>>)) /\ x = 2 * N - 1
  BY <1>2, LeavesAdded DEF Picture
<1>5. \A p : /\ Cardinality(DrawnLeaves(tree, nodes2, p)) = Cardinality(DrawnLeaves(tree, nodes, p))
             /\ ColumnsOf(nodes2, DrawnLeaves(tree, nodes2, p)) =
                       ColumnsOf(nodes, DrawnLeaves(tree, nodes, p))
  <2>1. \A p : next \notin LeavesOf(tree, p)
    BY DEF LeavesOf
  <2> QED BY <1>1, <1>2, <2>1, LeavesAdded
<1>6. PICK st3 : st3 = Append(st2, frame)
  OBVIOUS
<1>7. PICK m \in Nat : /\ m = Len(st) /\ DOMAIN st = 1 .. m /\ Len(st3) = m + 1 /\ DOMAIN st3 = 1 .. m + 1
                       /\ st3[m + 1] = frame /\ \A k \in 1 .. m : st3[k] = st2[k]
  <2>1. IsSeq(st2) /\ Len(st2) = Len(st) /\ DOMAIN st2 = DOMAIN st
    BY DEF Advanced
  <2>2. PICK m \in Nat : /\ m = Len(st2) /\ DOMAIN st2 = 1 .. m /\ Len(st3) = m + 1 /\ DOMAIN st3 = 1 .. m + 1
                         /\ st3[m + 1] = frame /\ \A k \in 1 .. m : st3[k] = st2[k]
    <3>1. PICK m \in Nat : m = Len(st2)
      BY <2>1, PathLength
    <3>2. /\ DOMAIN st2 = 1 .. Len(st2)
          /\ Len(Append(st2, frame)) = Len(st2) + 1 /\ DOMAIN Append(st2, frame) = 1 .. Len(st2) + 1
          /\ Append(st2, frame)[Len(st2) + 1] = frame /\ \A n \in 1 .. Len(st2) : Append(st2, frame)[n] = st2[n]
      BY <2>1, PathAppend
    <3>3. /\ DOMAIN st2 = 1 .. m /\ Len(st3) = m + 1 /\ DOMAIN st3 = 1 .. m + 1
          /\ st3[m + 1] = frame /\ \A n \in 1 .. m : st3[n] = st2[n]
      BY <1>6, <3>1, <3>2
    <3> QED BY <3>1, <3>3
  <2> QED BY <2>1, <2>2
<1>8. \A k \in 1 .. m : st3[k].path = st[k].path /\ st3[k].cntrPt = st[k].cntrPt
  BY <1>7 DEF Advanced
<1>9. \A k \in DOMAIN st3 : k \in 1 .. m \/ k = m + 1
  BY <1>7
<1>10. ASSUME NEW p \in DOMAIN nodes PROVE Across(tree, nodes2, st3, p)
  <2>1. PICK s \in Nat :
          /\ nodes[p].at[1] = 2 * s + Breadth(tree, p)
          /\ ColumnsOf(nodes, DrawnLeaves(tree, nodes, p)) = OddFrom(s, Cardinality(DrawnLeaves(tree, nodes, p)))
          /\ (\E k \in DOMAIN st : st[k].path = p) => s + Cardinality(DrawnLeaves(tree, nodes, p)) = N
    BY <1>3, <1>4 DEF Across
  <2>2. nodes2[p].at[1] = 2 * s + Breadth(tree, p)
    BY <1>2, <2>1
  <2>3. (\E k \in DOMAIN st3 : st3[k].path = p) => \E k \in DOMAIN st : st[k].path = p
    BY <1>2, <1>7, <1>8, <1>9
  <2> QED BY <1>4, <1>5, <2>1, <2>2, <2>3 DEF Across
<1>11. Across(tree, nodes2, st3, next)
  <2>1. ASSUME NEW q \in DrawnLeaves(tree, nodes2, next) PROVE FALSE
    <3>1. q \in DOMAIN tree /\ tree[q].kind = "leaf" /\ IsPrefix(next, q) /\ q \in DOMAIN nodes
      BY <1>2 DEF DrawnLeaves, LeavesOf
    <3>2. next \in Pending(tree, st)
      BY NextKey
    <3>3. q \in Pending(tree, st)
      BY <3>1, <3>2, PendingBelow
    <3> QED BY <1>3, <3>1, <3>3
  <2>2. DrawnLeaves(tree, nodes2, next) = {}
    BY <2>1
  <2>3. Cardinality(DrawnLeaves(tree, nodes2, next)) = 0
    BY <2>2, FS_EmptySet
  <2>4. ColumnsOf(nodes2, DrawnLeaves(tree, nodes2, next)) = {}
    BY <2>2 DEF ColumnsOf
  <2>5. OddFrom(N, 0) = {}
    BY OddRow
  <2>6. nodes2[next].at[1] = 2 * N + Breadth(tree, next) /\ N + 0 = N
    <3>1. Breadth(tree, next) \in Nat
      BY LeavesFinite
    <3> QED BY <1>0, <1>2, <1>4, <3>1
  <2> QED BY <1>4, <1>5, <2>3, <2>4, <2>5, <2>6 DEF Across
<1>12. DOMAIN nodes2 = DOMAIN tree \ Pending(tree, st3)
  <2>1. Pending(tree, st3) = Pending(tree, st) \ {next}
    BY <1>6, PendingDict
  <2> QED BY <1>2, <1>3, <2>1
<1>13. <<>> \in DOMAIN nodes2 /\ nodes2[<<>>].at[1] = Breadth(tree, <<>>)
  BY <1>2, <1>3
<1>14. x = 2 * Cardinality(DrawnLeaves(tree, nodes2, <<>>)) - 1 /\ y - 1 = Deepest(tree) - Len(st3)
  <2>1. Deepest(tree) \in Nat
    BY Levels
  <2> QED BY <1>3, <1>4, <1>5, <1>7, <2>1
<1>15. ASSUME NEW k \in DOMAIN st3
       PROVE  st3[k].path \in DOMAIN nodes2 /\ st3[k].cntrPt = nodes2[st3[k].path].at
  <2>1. CASE k \in 1 .. m
    BY <1>2, <1>3, <1>7, <1>8, <2>1
  <2>2. CASE k = m + 1
    BY <1>2, <1>7, <2>2
  <2> QED BY <1>9, <2>1, <2>2
<1>16. \A p \in DOMAIN nodes2 : Across(tree, nodes2, st3, p) /\ Placed(tree, nodes2, p)
  BY <1>2, <1>10, <1>11
<1>17. Picture(tree, st3, nodes2, x, y - 1)
  BY <1>12, <1>13, <1>14, <1>15, <1>16 DEF Picture
<1> QED BY <1>1, <1>6, <1>17

\* plotTree returns to its caller.
LEMMA PlotChainShrunk ==
  ASSUME NEW tree, IsTree(tree), NEW st, NEW here, PlotChain(tree, st, here)
  PROVE  /\ IsSeq(Front(st)) /\ Len(Front(st)) = Len(here) /\ DOMAIN Front(st) = 1 .. Len(here)
         /\ \A k \in 1 .. Len(here) : Front(st)[k] = st[k]
         /\ Front(st) # <<>> => PlotChain(tree, Front(st), Last(Front(st)).path)
<1>1. PICK n \in Nat : n = Len(here) /\ DOMAIN st = 1 .. n + 1 /\ IsSeq(here) /\ st # <<>>
  BY PlotChainProperties
<1>2. IsSeq(st) /\ Len(st) = n + 1 /\ here \in DOMAIN tree
  BY <1>1 DEF PlotChain
<1>3. PICK st2 : st2 = Front(st)
  OBVIOUS
<1>4. IsSeq(st2) /\ Len(st2) = n /\ DOMAIN st2 = 1 .. n /\ \A k \in 1 .. n : st2[k] = st[k]
  <2>1. Front(st) = SubSeq(st, 1, Len(st) - 1)
    BY <1>1, <1>2, PathFront
  <2>2. st2 = SubSeq(st, 1, n) /\ n \in 0 .. Len(st)
    <3>1. Len(st) - 1 = n
      BY <1>1, <1>2
    <3> QED BY <1>1, <1>2, <1>3, <2>1, <3>1
  <2>3. /\ IsSeq(SubSeq(st, 1, n)) /\ Len(SubSeq(st, 1, n)) = n /\ DOMAIN SubSeq(st, 1, n) = 1 .. n
        /\ \A k \in 1 .. n : SubSeq(st, 1, n)[k] = st[k]
    BY <1>2, <2>2, PathPrefix
  <2> QED BY <2>2, <2>3
<1>5. ASSUME st2 # <<>> PROVE PlotChain(tree, st2, Last(st2).path)
  <2>1. n \in Nat \ {0}
    BY <1>1, <1>4, <1>5, PathFront
  <2>2. PICK m \in Nat : n = m + 1
    BY <2>1
  <2>3. PICK p : p = SubSeq(here, 1, m)
    OBVIOUS
  <2>4. p \in DOMAIN tree /\ Len(p) = m
    <3>1. m \in 0 .. Len(here)
      BY <1>1, <2>2
    <3> QED BY <1>2, <2>3, <3>1, PathNodes
  <2>5. \A k \in 0 .. m : SubSeq(p, 1, k) = SubSeq(here, 1, k)
    <3>1. m \in 0 .. Len(here)
      BY <1>1, <2>2
    <3> QED BY <1>1, <2>3, <3>1, PathPrefix
  <2>6. DOMAIN p = 1 .. m /\ DOMAIN here = 1 .. n
    <3>1. IsSeq(p)
      BY <2>4 DEF IsTree
    <3>2. DOMAIN p = 1 .. Len(p) /\ DOMAIN here = 1 .. Len(here)
      BY <1>1, <3>1, PathAppend
    <3> QED BY <1>1, <2>4, <3>2
  <2>7. ASSUME NEW k \in 1 .. n
        PROVE  /\ DOMAIN st2[k] = {"path", "cntrPt", "keys"}
               /\ st2[k].path = SubSeq(p, 1, k - 1)
               /\ st2[k].keys \subseteq Kids(tree, st2[k].path)
               /\ k \in DOMAIN p => SubSeq(p, 1, k) \notin st2[k].keys
    <3>1. st2[k] = st[k] /\ k \in DOMAIN st
      BY <1>1, <1>4
    <3>2. /\ DOMAIN st[k] = {"path", "cntrPt", "keys"}
          /\ st[k].path = SubSeq(here, 1, k - 1)
          /\ st[k].keys \subseteq Kids(tree, st[k].path)
          /\ k \in DOMAIN here => SubSeq(here, 1, k) \notin st[k].keys
      BY <3>1 DEF PlotChain
    <3>3. SubSeq(p, 1, k - 1) = SubSeq(here, 1, k - 1)
      <4>1. k - 1 \in 0 .. m
        BY <2>2
      <4> QED BY <2>5, <4>1
    <3>4. k \in DOMAIN p => SubSeq(p, 1, k) \notin st2[k].keys
      <4>1. k \in DOMAIN p => k \in 0 .. m /\ k \in DOMAIN here
        BY <2>2, <2>6
      <4> QED BY <2>5, <3>1, <3>2, <4>1
    <3> QED BY <3>1, <3>2, <3>3, <3>4
  <2>8. Len(st2) = Len(p) + 1
    BY <1>4, <2>2, <2>4
  <2>9. PlotChain(tree, st2, p)
    BY <1>4, <2>4, <2>7, <2>8 DEF PlotChain
  <2>10. Last(st2).path = p
    BY <2>9, PlotChainProperties
  <2> QED BY <2>9, <2>10
<1> QED BY <1>1, <1>3, <1>4, <1>5

\* Nothing is drawn by it.
LEMMA PictureReturn ==
  ASSUME NEW tree, IsTree(tree), NEW st, NEW here, PlotChain(tree, st, here), Last(st).keys = {},
         NEW nodes, NEW x, NEW y, Picture(tree, st, nodes, x, y)
  PROVE  Picture(tree, Front(st), nodes, x, y + 1)
<1>1. PICK n \in Nat : n = Len(here) /\ DOMAIN st = 1 .. n + 1 /\ Last(st) = st[n + 1]
  BY PlotChainProperties
<1>2. PICK st2 : st2 = Front(st)
  OBVIOUS
<1>3. Len(st2) = n /\ DOMAIN st2 = 1 .. n /\ \A k \in 1 .. n : st2[k] = st[k]
  BY <1>1, <1>2, PlotChainShrunk
<1>4. /\ DOMAIN nodes = DOMAIN tree \ Pending(tree, st)
      /\ <<>> \in DOMAIN nodes /\ nodes[<<>>].at[1] = Breadth(tree, <<>>)
      /\ x = 2 * Cardinality(DrawnLeaves(tree, nodes, <<>>)) - 1
      /\ y = Deepest(tree) - Len(st)
      /\ \A p \in DOMAIN nodes : Across(tree, nodes, st, p) /\ Placed(tree, nodes, p)
      /\ \A k \in DOMAIN st : st[k].path \in DOMAIN nodes /\ st[k].cntrPt = nodes[st[k].path].at
  BY DEF Picture
<1>5. \A k : k \in 1 .. n + 1 <=> k \in 1 .. n \/ k = n + 1
  BY <1>1
<1>6. Pending(tree, st2) = Pending(tree, st)
  <2>1. \A q : (\E k \in DOMAIN st : \E key \in st[k].keys : IsPrefix(key, q)) <=>
               (\E k \in DOMAIN st2 : \E key \in st2[k].keys : IsPrefix(key, q))
    BY <1>1, <1>3, <1>5
  <2> QED BY <2>1 DEF Pending
<1>7. ASSUME NEW p \in DOMAIN nodes PROVE Across(tree, nodes, st2, p)
  <2>1. Across(tree, nodes, st, p)
    BY <1>4
  <2>2. (\E k \in DOMAIN st2 : st2[k].path = p) => \E k \in DOMAIN st : st[k].path = p
    BY <1>1, <1>3, <1>5
  <2> QED BY <2>1, <2>2 DEF Across
<1>8. y + 1 = Deepest(tree) - Len(st2)
  <2>1. Deepest(tree) \in Nat
    BY Levels
  <2>2. Len(st) = n + 1
    BY <1>1 DEF PlotChain
  <2> QED BY <1>1, <1>3, <1>4, <2>1, <2>2
<1>9. \A k \in DOMAIN st2 : st2[k].path \in DOMAIN nodes /\ st2[k].cntrPt = nodes[st2[k].path].at
  BY <1>1, <1>3, <1>4, <1>5
<1>10. Picture(tree, st2, nodes, x, y + 1)
  BY <1>4, <1>6, <1>7, <1>8, <1>9 DEF Picture
<1> QED BY <1>2, <1>10

\* The picture when the root is drawn: a dict in the middle, over all that is to come.
LEMMA PictureStart ==
  ASSUME NEW tree, IsTree(tree), tree[<<>>].kind = "dict",
         NEW nodes, DOMAIN nodes = {<<>>},
         nodes[<<>>].at = <<Breadth(tree, <<>>), Deepest(tree)>>, nodes[<<>>].from = nodes[<<>>].at,
         NEW frame, PlotCallOf(tree, frame, <<>>), frame.cntrPt = nodes[<<>>].at
  PROVE  /\ PlotChain(tree, Append(<<>>, frame), <<>>)
         /\ Picture(tree, Append(<<>>, frame), nodes, -1, Deepest(tree) - 1)
<1>0. nodes[<<>>].at[1] = Breadth(tree, <<>>) /\ nodes[<<>>].at[2] = Deepest(tree)
  OBVIOUS
<1>1. PICK root : root = <<>>
  OBVIOUS
<1>2. root \in DOMAIN tree /\ IsSeq(root) /\ Len(root) = 0 /\ DOMAIN root = {} /\ SubSeq(root, 1, 0) = root
  <2>1. root \in DOMAIN tree /\ IsSeq(root) /\ Len(root) = 0 /\ DOMAIN root = {}
    BY <1>1, EmptyPath DEF IsTree
  <2>2. SubSeq(root, 1, Len(root)) = root
    BY <2>1, PathAppend
  <2> QED BY <2>1, <2>2
<1>3. PICK st : st = Append(root, frame)
  OBVIOUS
<1>4. IsSeq(st) /\ Len(st) = 1 /\ DOMAIN st = {1} /\ st[1] = frame
  <2>1. /\ IsSeq(Append(root, frame)) /\ Len(Append(root, frame)) = Len(root) + 1
        /\ DOMAIN Append(root, frame) = 1 .. Len(root) + 1 /\ Append(root, frame)[Len(root) + 1] = frame
    BY <1>2, PathAppend
  <2>2. Len(root) + 1 = 1 /\ 1 .. 1 = {1}
    BY <1>2
  <2> QED BY <1>3, <2>1, <2>2
<1>5. /\ DOMAIN frame = {"path", "cntrPt", "keys"} /\ frame.path = root /\ frame.keys = Kids(tree, root)
      /\ frame.cntrPt = nodes[root].at
  BY <1>1 DEF PlotCallOf
<1>6. PlotChain(tree, st, root)
  <2>1. ASSUME NEW k \in DOMAIN st
        PROVE  /\ DOMAIN st[k] = {"path", "cntrPt", "keys"}
               /\ st[k].path = SubSeq(root, 1, k - 1)
               /\ st[k].keys \subseteq Kids(tree, st[k].path)
               /\ k \in DOMAIN root => SubSeq(root, 1, k) \notin st[k].keys
    <3>1. k = 1 /\ k - 1 = 0 /\ k \notin DOMAIN root /\ st[k] = frame
      BY <1>2, <1>4
    <3>2. SubSeq(root, 1, k - 1) = root
      BY <1>2, <3>1
    <3> QED BY <1>5, <3>1, <3>2
  <2>2. Len(st) = Len(root) + 1
    BY <1>2, <1>4
  <2> QED BY <1>2, <1>4, <2>1, <2>2 DEF PlotChain
<1>7. DOMAIN nodes = DOMAIN tree \ Pending(tree, st)
  <2>1. \A q \in DOMAIN tree : /\ q = root \/ \E c \in Kids(tree, root) : IsPrefix(c, q)
                               /\ \A c \in Kids(tree, root) : IsPrefix(c, q) => q # root
    <3>1. \A q \in DOMAIN tree : IsPrefix(root, q)
      BY <1>1, PathNodes
    <3> QED BY <1>2, <3>1, BelowKids
  <2>2. \A q \in DOMAIN tree : q \in Pending(tree, st) <=> q # root
    BY <1>4, <1>5, <2>1 DEF Pending
  <2>3. DOMAIN nodes = {root}
    BY <1>1
  <2> QED BY <1>2, <2>2, <2>3
<1>8. DrawnLeaves(tree, nodes, root) = {}
  BY <1>1 DEF DrawnLeaves, LeavesOf
<1>9. Cardinality(DrawnLeaves(tree, nodes, root)) = 0
  BY <1>8, FS_EmptySet
<1>10. Across(tree, nodes, st, root)
  <2>1. nodes[root].at[1] = 2 * 0 + Breadth(tree, root)
    <3>1. Breadth(tree, root) \in Nat
      BY LeavesFinite
    <3> QED BY <1>0, <1>1, <3>1
  <2>2. ColumnsOf(nodes, DrawnLeaves(tree, nodes, root)) = OddFrom(0, 0)
    BY <1>8, OddRow DEF ColumnsOf
  <2>3. 0 + Cardinality(DrawnLeaves(tree, nodes, root)) = Cardinality(DrawnLeaves(tree, nodes, <<>>))
    BY <1>1, <1>9
  <2> QED BY <1>9, <2>1, <2>2, <2>3 DEF Across
<1>11. Placed(tree, nodes, root)
  <2>1. Deepest(tree) - Len(root) = Deepest(tree)
    BY <1>2, Levels
  <2> QED BY <1>0, <1>1, <2>1 DEF Placed
<1>12. /\ \A p \in DOMAIN nodes : Across(tree, nodes, st, p) /\ Placed(tree, nodes, p)
       /\ <<>> \in DOMAIN nodes /\ nodes[<<>>].at[1] = Breadth(tree, <<>>)
  BY <1>0, <1>1, <1>10, <1>11
<1>13. -1 = 2 * Cardinality(DrawnLeaves(tree, nodes, <<>>)) - 1 /\ Deepest(tree) - 1 = Deepest(tree) - Len(st)
  BY <1>1, <1>4, <1>9
<1>14. \A k \in DOMAIN st : st[k].path \in DOMAIN nodes /\ st[k].cntrPt = nodes[st[k].path].at
  BY <1>1, <1>4, <1>5
<1>15. Picture(tree, st, nodes, -1, Deepest(tree) - 1)
  BY <1>7, <1>12, <1>13, <1>14 DEF Picture
<1> QED BY <1>1, <1>3, <1>6, <1>15

\* In the finished picture all is drawn, a node over the middle of its leaves.
LEMMA PictureDone ==
  ASSUME NEW tree, IsTree(tree), NEW nodes, NEW x, NEW y, Picture(tree, <<>>, nodes, x, y)
  PROVE  /\ DOMAIN nodes = DOMAIN tree
         /\ ColumnsOf(nodes, LeavesOf(tree, <<>>)) = OddFrom(0, Breadth(tree, <<>>))
         /\ \A p \in DOMAIN tree :
              /\ 2 * nodes[p].at[1] = Min(ColumnsOf(nodes, LeavesOf(tree, p))) + Max(ColumnsOf(nodes, LeavesOf(tree, p)))
              /\ Placed(tree, nodes, p)
<1>1. DOMAIN nodes = DOMAIN tree
  <2>1. Pending(tree, <<>>) = {}
    BY EmptyPath DEF Pending
  <2> QED BY <2>1 DEF Picture
<1>2. \A p : DrawnLeaves(tree, nodes, p) = LeavesOf(tree, p)
  BY <1>1 DEF DrawnLeaves, LeavesOf
<1>3. ASSUME NEW p \in DOMAIN tree
      PROVE  \E s \in Nat : /\ nodes[p].at[1] = 2 * s + Breadth(tree, p)
                            /\ ColumnsOf(nodes, LeavesOf(tree, p)) = OddFrom(s, Breadth(tree, p))
  <2>1. Across(tree, nodes, <<>>, p)
    BY <1>1 DEF Picture
  <2> QED BY <1>2, <2>1 DEF Across, Breadth
<1>4. ColumnsOf(nodes, LeavesOf(tree, <<>>)) = OddFrom(0, Breadth(tree, <<>>))
  <2>1. PICK root : root = <<>> /\ root \in DOMAIN tree
    BY DEF IsTree
  <2>2. PICK s \in Nat : /\ nodes[root].at[1] = 2 * s + Breadth(tree, root)
                         /\ ColumnsOf(nodes, LeavesOf(tree, root)) = OddFrom(s, Breadth(tree, root))
    BY <1>3, <2>1
  <2>3. nodes[root].at[1] = Breadth(tree, root) /\ Breadth(tree, root) \in Nat
    BY <2>1, LeavesFinite DEF Picture
  <2>4. s = 0
    BY <2>2, <2>3
  <2> QED BY <2>1, <2>2, <2>4
<1>5. ASSUME NEW p \in DOMAIN tree
      PROVE  2 * nodes[p].at[1] = Min(ColumnsOf(nodes, LeavesOf(tree, p))) + Max(ColumnsOf(nodes, LeavesOf(tree, p)))
  <2>1. PICK s \in Nat : /\ nodes[p].at[1] = 2 * s + Breadth(tree, p)
                         /\ ColumnsOf(nodes, LeavesOf(tree, p)) = OddFrom(s, Breadth(tree, p))
    BY <1>3
  <2>2. PICK b \in Nat \ {0} : b = Breadth(tree, p)
    BY LeafBelow
  <2>3. Min(OddFrom(s, b)) = 2 * s + 1 /\ Max(OddFrom(s, b)) = 2 * (s + b) - 1
    <3>1. b \in Nat /\ b > 0
      BY <2>2
    <3>2. b > 0 => Min(OddFrom(s, b)) = 2 * s + 1 /\ Max(OddFrom(s, b)) = 2 * (s + b) - 1
      BY <3>1, OddRow
    <3> QED BY <3>1, <3>2
  <2>4. 2 * (2 * s + b) = (2 * s + 1) + (2 * (s + b) - 1)
    BY <2>2
  <2> QED BY <2>1, <2>2, <2>3, <2>4
<1>6. \A p \in DOMAIN tree : Placed(tree, nodes, p)
  BY <1>1 DEF Picture
<1> QED BY <1>1, <1>4, <1>5, <1>6

\* The lowest nodes stand on the lower edge.
LEMMA LowestOnEdge ==
  ASSUME NEW tree, IsTree(tree), NEW nodes, DOMAIN nodes = DOMAIN tree,
         \A p \in DOMAIN tree : nodes[p].at[2] = Deepest(tree) - Len(p)
  PROVE  Min({nodes[p].at[2] : p \in DOMAIN nodes}) = 0
<1> DEFINE K == {nodes[p].at[2] : p \in DOMAIN nodes}
<1>1. PICK d \in Nat : /\ d = Deepest(tree)
                       /\ \A p \in DOMAIN tree : Len(p) \in Nat /\ Len(p) <= d
                       /\ \E p \in DOMAIN tree : Len(p) = d
  BY Levels
<1>2. \A p \in DOMAIN tree : nodes[p].at[2] \in Int /\ 0 <= nodes[p].at[2]
  BY <1>1
<1>3. \E p \in DOMAIN tree : nodes[p].at[2] = 0
  BY <1>1
<1>4. K \in SUBSET Int /\ 0 \in K /\ \A n \in K : 0 <= n
  BY <1>2, <1>3
<1>5. Min(K) = 0
  <2> HIDE DEF K
  <2> QED BY <1>4, MinIs
<1> QED BY <1>5

-----------------------------------------------------------------------------
(* createPlot step by step. *)

\* createPlot and plotTree have to do with a finished tree.
LEMMA TreeOfPlot ==
  ASSUME ClassifyInv, pc = "returned"
  PROVE  /\ IsTree(myTree)
         /\ \A p \in DOMAIN myTree : GetNumLeafs[p] = Breadth(myTree, p) /\ Breadth(myTree, p) \in Nat
         /\ GetTreeDepth[<<>>] = Deepest(myTree)
         /\ \A p \in DOMAIN myTree : Children(p) = Kids(myTree, p)
<1>1. IsTree(myTree)
  BY Finished, TreeFromBuilt DEF ClassifyInv
<1> QED BY <1>1, NumLeafs, LeavesFinite, TreeDepth DEF Children, Kids

\* createPlot draws the root.
LEMMA StepCreatePlot ==
  ASSUME ClassifyInv, PlotInv, CreatePlot
  PROVE  PlotInv'
<1>1. pc = "returned" /\ plot = "none" /\ UNCHANGED vars /\ pc' = pc /\ myTree' = myTree /\ DOMAIN drawn = {}
  BY DEF CreatePlot, vars, buildVars, PlotInv
<1>2. CASE myTree[<<>>].kind = "leaf" /\ plot' = "raised" /\ UNCHANGED <<xOff, yOff, calls, drawn>>
  BY <1>1, <1>2 DEF PlotInv
<1>3. CASE /\ myTree[<<>>].kind = "dict"
           /\ plot' = "drawing"
           /\ PlotTree(<<>>, <<GetNumLeafs[<<>>], GetTreeDepth[<<>>]>>, <<>>, LeftOfFirst, GetTreeDepth[<<>>])
  <2>1. /\ IsTree(myTree) /\ <<>> \in DOMAIN myTree
        /\ GetNumLeafs[<<>>] = Breadth(myTree, <<>>) /\ Breadth(myTree, <<>>) \in Nat
        /\ GetTreeDepth[<<>>] = Deepest(myTree) /\ Children(<<>>) = Kids(myTree, <<>>)
    <3>1. <<>> \in DOMAIN myTree
      BY <1>1, Finished DEF ClassifyInv
    <3> QED BY <1>1, <3>1, TreeOfPlot
  <2>2. PICK point : point = <<Breadth(myTree, <<>>), Deepest(myTree)>>
    OBVIOUS
  <2>3. Centre(<<>>, LeftOfFirst, GetTreeDepth[<<>>]) = point
    <3>1. LeftOfFirst + 1 + Breadth(myTree, <<>>) = Breadth(myTree, <<>>)
      BY <2>1 DEF LeftOfFirst
    <3> QED BY <2>1, <2>2, <3>1 DEF Centre
  <2>4. PICK frame, entry : /\ frame = [path |-> <<>>, cntrPt |-> point, keys |-> Kids(myTree, <<>>)]
                            /\ entry = [at |-> point, from |-> point]
    OBVIOUS
  <2>5. /\ drawn' = Put(drawn, <<>>, entry) /\ xOff' = -1 /\ yOff' = Deepest(myTree) - 1
        /\ calls' = Append(<<>>, frame)
    BY <1>3, <2>1, <2>2, <2>3, <2>4 DEF PlotTree, PlotNode, LeftOfFirst
  <2>6. DOMAIN drawn' = {<<>>} /\ drawn'[<<>>] = entry
    BY <1>1, <2>5 DEF Put
  <2>7. drawn'[<<>>].at = point /\ drawn'[<<>>].from = point
    BY <2>4, <2>6
  <2>8. PlotCallOf(myTree, frame, <<>>) /\ frame.cntrPt = point
    BY <2>4 DEF PlotCallOf
  <2>9. PlotChain(myTree, calls', <<>>) /\ Picture(myTree, calls', drawn', xOff', yOff')
    <3>1. PICK nodes : nodes = drawn'
      OBVIOUS
    <3>2. /\ DOMAIN nodes = {<<>>}
          /\ nodes[<<>>].at = <<Breadth(myTree, <<>>), Deepest(myTree)>> /\ nodes[<<>>].from = nodes[<<>>].at
          /\ frame.cntrPt = nodes[<<>>].at
      BY <2>2, <2>6, <2>7, <2>8, <3>1
    <3>3. /\ PlotChain(myTree, Append(<<>>, frame), <<>>)
          /\ Picture(myTree, Append(<<>>, frame), nodes, -1, Deepest(myTree) - 1)
      BY <1>3, <2>1, <2>8, <3>2, PictureStart
    <3> QED BY <2>5, <3>1, <3>3
  <2>10. calls' # <<>> /\ Last(calls').path = <<>>
    BY <2>1, <2>9, PlotChainProperties
  <2> QED BY <1>1, <1>3, <2>9, <2>10 DEF PlotInv
<1> QED BY <1>2, <1>3 DEF CreatePlot

\* plotTree takes a key.
LEMMA StepPlotKey ==
  ASSUME ClassifyInv, PlotInv, PlotKey
  PROVE  PlotInv'
<1>1. /\ plot = "drawing" /\ plot' = plot /\ pc' = pc /\ myTree' = myTree /\ pc = "returned" /\ calls # <<>>
      /\ Picture(myTree, calls, drawn, xOff, yOff)
  BY DEF PlotKey, vars, buildVars, PlotInv
<1>2. PICK here : PlotChain(myTree, calls, here)
  BY <1>1 DEF PlotInv
<1>3. IsTree(myTree)
  BY <1>1, TreeOfPlot
<1>4. PICK next \in Last(calls).keys :
        LET rest == [calls EXCEPT ![Len(calls)].keys = @ \ {next}]
        IN  \/ /\ myTree[next].kind = "dict"
               /\ PlotTree(next, Last(calls).cntrPt, rest, xOff, yOff)
            \/ /\ myTree[next].kind = "leaf"
               /\ xOff' = xOff + 2
               /\ PlotNode(next, <<xOff', yOff>>, Last(calls).cntrPt)
               /\ calls' = rest
               /\ UNCHANGED yOff
  BY DEF PlotKey
<1>5. PICK rest : rest = [calls EXCEPT ![Len(calls)].keys = @ \ {next}]
  OBVIOUS
<1>6. Advanced(calls, rest, next)
  BY <1>2, <1>3, <1>5, KeyRemoved
<1>7. next \in DOMAIN myTree
  BY <1>2, <1>3, NextKey
<1>8. PICK below : below = Last(calls).cntrPt
  OBVIOUS
<1>9. \E top : PlotChain(myTree, calls', top) /\ Picture(myTree, calls', drawn', xOff', yOff')
  <2>1. CASE /\ myTree[next].kind = "dict"
             /\ PlotTree(next, below, rest, xOff, yOff)
    <3>1. PICK point : point = <<xOff + 1 + Breadth(myTree, next), yOff>>
      OBVIOUS
    <3>2. Centre(next, xOff, yOff) = point /\ Children(next) = Kids(myTree, next)
      BY <1>1, <1>7, <3>1, TreeOfPlot DEF Centre
    <3>3. PICK frame, entry : /\ frame = [path |-> next, cntrPt |-> point, keys |-> Kids(myTree, next)]
                              /\ entry = [at |-> point, from |-> below]
      OBVIOUS
    <3>4. /\ drawn' = Put(drawn, next, entry) /\ xOff' = xOff /\ yOff' = yOff - 1
          /\ calls' = Append(rest, frame)
      BY <2>1, <3>2, <3>3 DEF PlotTree, PlotNode
    <3>5. /\ PlotCallOf(myTree, frame, next) /\ frame.path = next /\ frame.cntrPt = point
          /\ frame.keys = Kids(myTree, next) /\ entry.at = point /\ entry.from = below
      BY <3>3 DEF PlotCallOf
    <3>6. PlotChain(myTree, Append(rest, frame), next)
      BY <1>2, <1>3, <1>6, <3>5, PlotChainGrown
    <3>7. Picture(myTree, Append(rest, frame), Put(drawn, next, entry), xOff, yOff - 1)
      <4>1. /\ entry.at = <<xOff + 1 + Breadth(myTree, next), yOff>> /\ entry.from = Last(calls).cntrPt
            /\ frame.cntrPt = entry.at
        BY <1>8, <3>1, <3>5
      <4> QED BY <1>1, <1>2, <1>3, <1>6, <2>1, <3>5, <4>1, PictureDict
    <3> QED BY <3>4, <3>6, <3>7
  <2>2. CASE /\ myTree[next].kind = "leaf"
             /\ xOff' = xOff + 2
             /\ PlotNode(next, <<xOff', yOff>>, below)
             /\ calls' = rest
             /\ UNCHANGED yOff
    <3>1. PICK entry : entry = [at |-> <<xOff + 2, yOff>>, from |-> below]
      OBVIOUS
    <3>2. drawn' = Put(drawn, next, entry)
      BY <2>2, <3>1 DEF PlotNode
    <3>3. entry.at = <<xOff + 2, yOff>> /\ entry.from = Last(calls).cntrPt
      BY <1>8, <3>1
    <3>4. Picture(myTree, rest, Put(drawn, next, entry), xOff + 2, yOff)
      BY <1>1, <1>2, <1>3, <1>6, <2>2, <3>3, PictureLeaf
    <3>5. PlotChain(myTree, rest, here)
      BY <1>2, <1>6, PlotChainAdvanced
    <3> QED BY <2>2, <3>2, <3>4, <3>5
  <2> QED BY <1>4, <1>5, <1>8, <2>1, <2>2
<1>10. PICK top : PlotChain(myTree, calls', top) /\ Picture(myTree, calls', drawn', xOff', yOff')
  BY <1>9
<1>11. calls' # <<>> /\ Last(calls').path = top
  BY <1>3, <1>10, PlotChainProperties
<1> QED BY <1>1, <1>10, <1>11 DEF PlotInv

\* plotTree, or createPlot, returns.
LEMMA StepPlotReturn ==
  ASSUME ClassifyInv, PlotInv, PlotReturn
  PROVE  PlotInv'
<1>1. /\ plot = "drawing" /\ pc' = pc /\ myTree' = myTree /\ pc = "returned"
      /\ Picture(myTree, calls, drawn, xOff, yOff) /\ Last(calls).keys = {}
      /\ xOff' = xOff /\ yOff' = yOff + 1 /\ drawn' = drawn /\ calls' = Front(calls)
      /\ plot' = IF calls' = <<>> THEN "shown" ELSE "drawing"
  BY DEF PlotReturn, UpOneLevel, vars, buildVars, PlotInv
<1>2. PICK here : PlotChain(myTree, calls, here)
  BY <1>1 DEF PlotInv
<1>3. IsTree(myTree)
  BY <1>1, TreeOfPlot
<1>4. calls' # <<>> => PlotChain(myTree, calls', Last(calls').path)
  BY <1>1, <1>2, <1>3, PlotChainShrunk
<1>5. Picture(myTree, Front(calls), drawn, xOff, yOff + 1)
  BY <1>1, <1>2, <1>3, PictureReturn
<1>6. CASE calls' = <<>>
  BY <1>1, <1>5, <1>6 DEF PlotInv
<1>7. CASE calls' # <<>>
  BY <1>1, <1>4, <1>5, <1>7 DEF PlotInv
<1> QED BY <1>6, <1>7

\* No step breaks the invariant of the picture, and each is one of createTree
\* and classify or leaves what they have alone.
LEMMA NextPlot ==
  ClassifyInv /\ PlotInv /\ [PlotNext]_<<vars, plotVars>> => PlotInv' /\ [Next]_vars
<1> SUFFICES ASSUME ClassifyInv, PlotInv, [PlotNext]_<<vars, plotVars>> PROVE PlotInv' /\ [Next]_vars
  OBVIOUS
<1>1. CASE plot = "none" /\ Next /\ UNCHANGED plotVars
  BY <1>1 DEF PlotInv, plotVars
<1>2. CASE CreatePlot
  BY <1>2, StepCreatePlot DEF CreatePlot
<1>3. CASE PlotKey
  BY <1>3, StepPlotKey DEF PlotKey
<1>4. CASE PlotReturn
  BY <1>4, StepPlotReturn DEF PlotReturn
<1>5. CASE UNCHANGED <<vars, plotVars>>
  BY <1>5 DEF PlotInv, plotVars, vars, buildVars
<1> QED BY <1>1, <1>2, <1>3, <1>4, <1>5 DEF PlotNext

\* The program that also draws its tree keeps the invariants of both.
LEMMA PlotInvHolds == PlotSpec => [](ClassifyInv /\ PlotInv)
<1>1. PlotInit => ClassifyInv /\ PlotInv
  BY InitClassify DEF PlotInit, PlotInv
<1>2. ClassifyInv /\ PlotInv /\ [PlotNext]_<<vars, plotVars>> => (ClassifyInv /\ PlotInv)'
  BY NextPlot, NextClassify
<1> QED BY <1>1, <1>2, PTL DEF PlotSpec

\* The leaves share the width of the picture, each with a column of its own, and
\* the lowest stand on its lower edge.
THEOREM LeavesAreSpread == PlotSpec => []LeavesSpread
<1>1. ClassifyInv /\ PlotInv => LeavesSpread
  <2> SUFFICES ASSUME ClassifyInv, PlotInv, plot = "shown"
               PROVE  /\ DOMAIN drawn = DOMAIN myTree
                      /\ {drawn[p].at[1] : p \in LeafsUnder(<<>>)} = {2 * k - 1 : k \in 1 .. Width}
                      /\ Min({drawn[p].at[2] : p \in DOMAIN drawn}) = 0
    BY DEF LeavesSpread
  <2>1. pc = "returned" /\ Picture(myTree, <<>>, drawn, xOff, yOff)
    BY DEF PlotInv
  <2>2. IsTree(myTree)
    BY <2>1, TreeOfPlot
  <2>3. /\ DOMAIN drawn = DOMAIN myTree
        /\ ColumnsOf(drawn, LeavesOf(myTree, <<>>)) = OddFrom(0, Breadth(myTree, <<>>))
        /\ \A p \in DOMAIN myTree : Placed(myTree, drawn, p)
    BY <2>1, <2>2, PictureDone
  <2>4. LeafsUnder(<<>>) = LeavesOf(myTree, <<>>) /\ Width = Breadth(myTree, <<>>)
    BY DEF LeafsUnder, LeavesOf, Width, Breadth
  <2>5. {drawn[p].at[1] : p \in LeafsUnder(<<>>)} = {2 * k - 1 : k \in 1 .. Width}
    <3>1. OddFrom(0, Width) = {2 * k - 1 : k \in 1 .. Width}
      <4>1. Width \in Nat
        BY <2>2, <2>4, LeavesFinite
      <4>2. 0 + 1 .. 0 + Width = 1 .. Width
        BY <4>1
      <4> QED BY <4>2 DEF OddFrom
    <3> QED BY <2>3, <2>4, <3>1 DEF ColumnsOf
  <2>6. \A p \in DOMAIN myTree : drawn[p].at[2] = Deepest(myTree) - Len(p)
    BY <2>3 DEF Placed
  <2>7. Min({drawn[p].at[2] : p \in DOMAIN drawn}) = 0
    BY <2>2, <2>3, <2>6, LowestOnEdge
  <2> QED BY <2>3, <2>5, <2>7
<1> QED BY <1>1, PlotInvHolds, PTL

\* Every node stands on the level of its depth, over the middle of its leaves.
THEOREM NodesAreAboveLeaves == PlotSpec => []NodesAboveLeaves
<1>1. ClassifyInv /\ PlotInv => NodesAboveLeaves
  <2> SUFFICES ASSUME ClassifyInv, PlotInv, plot = "shown", NEW path \in DOMAIN drawn
               PROVE  /\ 2 * drawn[path].at[1] = Min({drawn[p].at[1] : p \in LeafsUnder(path)})
                                                   + Max({drawn[p].at[1] : p \in LeafsUnder(path)})
                      /\ drawn[path].at[2] = Depth - Len(path)
                      /\ drawn[path].from = IF path = <<>> THEN drawn[path].at ELSE drawn[Front(path)].at
    BY DEF NodesAboveLeaves
  <2>1. pc = "returned" /\ Picture(myTree, <<>>, drawn, xOff, yOff)
    BY DEF PlotInv
  <2>2. IsTree(myTree)
    BY <2>1, TreeOfPlot
  <2>3. /\ path \in DOMAIN myTree
        /\ 2 * drawn[path].at[1] = Min(ColumnsOf(drawn, LeavesOf(myTree, path)))
                                     + Max(ColumnsOf(drawn, LeavesOf(myTree, path)))
        /\ Placed(myTree, drawn, path)
    <3>1. /\ DOMAIN drawn = DOMAIN myTree
          /\ \A p \in DOMAIN myTree :
               /\ 2 * drawn[p].at[1] = Min(ColumnsOf(drawn, LeavesOf(myTree, p)))
                                         + Max(ColumnsOf(drawn, LeavesOf(myTree, p)))
               /\ Placed(myTree, drawn, p)
      BY <2>1, <2>2, PictureDone
    <3> QED BY <3>1
  <2>4. ColumnsOf(drawn, LeavesOf(myTree, path)) = {drawn[p].at[1] : p \in LeafsUnder(path)}
    BY DEF LeafsUnder, LeavesOf, ColumnsOf
  <2>5. Depth = Deepest(myTree)
    BY DEF Depth, Deepest
  <2> QED BY <2>3, <2>4, <2>5 DEF Placed
<1> QED BY <1>1, PlotInvHolds, PTL

\* On a path of splits on features a call of createTree has the rows that the path
\* says, with the columns and the labels that are left, whether the tree is drawn
\* afterwards or not.  Of calls below a split on the class column nothing is said.
THEOREM CallHasItsRows == (Spec => []CallRows) /\ (PlotSpec => []CallRows)
<1>1. ClassifyInv => CallRows
  BY CallHasRows DEF ClassifyInv
<1>2. Spec => []CallRows
  BY <1>1, ClassifyInvHolds, PTL
<1>3. PlotSpec => []CallRows
  BY <1>1, PlotInvHolds, PTL
<1> QED BY <1>2, <1>3

\* If all splits of a tree are on features and the caller keeps its labels, classify
\* gives a training row a class that no other outnumbers among the rows like it.
THEOREM TrainingIsClassified == (Spec => []TrainingClassified) /\ (PlotSpec => []TrainingClassified)
<1>1. ClassifyInv => TrainingClassified
  BY DEF ClassifyInv
<1>2. Spec => []TrainingClassified
  BY <1>1, ClassifyInvHolds, PTL
<1>3. PlotSpec => []TrainingClassified
  BY <1>1, PlotInvHolds, PTL
<1> QED BY <1>2, <1>3

-----------------------------------------------------------------------------
(* The place of an update in its ascent. *)

\* How many updates m rows have seen before turn b of the inner loop in turn a of
\* the outer loop.
Turn(m, a, b) == a * m + b

AscentTypeOK ==
  /\ job \in Jobs
  /\ stage \in {"start", "ascend", "test", "returned", "raised"}
  /\ j \in Nat /\ i \in Nat
  /\ dataIndex \in Seq(Nat)
  /\ weights \in Seq([rows : SUBSET Nat, alpha : Nat \X Nat])
  /\ numTestVec \in Nat /\ errorCount \in Nat
  /\ errorRates \in Seq(Nat \X Nat)

\* The loop variables count the updates, and stay in their ranges.
Counted ==
  CASE job.routine = "gradAscent" -> Len(weights) = j /\ j <= job.rounds
    [] job.routine = "stocGradAscent0" -> Len(weights) = i /\ i <= job.m
    [] OTHER -> /\ Len(weights) = Turn(job.m, j, i)
                /\ j <= job.rounds /\ i < job.m
                /\ j = job.rounds => i = 0

\* An ascent that is over went through all its turns.
Over ==
  stage \in {"test", "returned"} => IF job.routine = "stocGradAscent0" THEN i = job.m ELSE j = job.rounds

\* Every turn of the inner loop takes one number off dataIndex.
Shrinks == IsRandom /\ stage = "ascend" => Len(dataIndex) = job.m - i

\* Turn b of the inner loop used one of the first m - b rows, with the step size
\* of its place.
DrawnAt(a, b) ==
  /\ \E r \in 0 .. job.m - 1 - b : weights[Turn(job.m, a, b) + 1].rows = {r}
  /\ weights[Turn(job.m, a, b) + 1].alpha = <<40000 + 1 + a + b, 10000 * (1 + a + b)>>

Drawn ==
  IsRandom =>
    \A a \in Nat, b \in 0 .. job.m - 1 : Turn(job.m, a, b) + 1 \in DOMAIN weights => DrawnAt(a, b)

AscentInv == AscentTypeOK /\ Counted /\ Over /\ Shrinks /\ Drawn

\* The number of a turn of an inner loop of m turns, and the one after it.
LEMMA TurnType ==
  ASSUME NEW m \in Nat, NEW a \in Nat, NEW b \in Nat
  PROVE  /\ Turn(m, a, b) \in Nat
         /\ Turn(m, a, b + 1) = Turn(m, a, b) + 1
         /\ Turn(m, a + 1, b) = Turn(m, a, b) + m
         /\ Turn(m, 0, b) = b
BY DEF Turn

\* Division with remainder, by the number of rows.
LEMMA TurnDefined ==
  ASSUME NEW n \in Nat, NEW m \in Nat \ {0}
  PROVE  /\ n \div m \in Nat
         /\ n % m \in 0 .. m - 1 /\ n % m \in Nat
         /\ n = Turn(m, n \div m, n % m)
BY DEF Turn

\* The remainder and the quotient are unique.
LEMMA TurnUnique ==
  ASSUME NEW m \in Nat \ {0}, NEW a \in Nat, NEW c \in Nat,
         NEW b \in 0 .. m - 1, NEW d \in 0 .. m - 1,
         Turn(m, a, b) = Turn(m, c, d)
  PROVE  a = c /\ b = d
<1>1. \A x, y \in Nat : x < y => x * m + m <= y * m
  <2> SUFFICES ASSUME NEW x \in Nat, NEW y \in Nat, x < y PROVE x * m + m <= y * m
    OBVIOUS
  <2>1. PICK k \in Nat : y = x + 1 + k
    <3>1. y - x - 1 \in Nat /\ y = x + 1 + (y - x - 1)
      OBVIOUS
    <3> QED
      BY <3>1
  <2>2. y * m = x * m + m + k * m /\ k * m \in Nat /\ x * m \in Nat
    BY <2>1
  <2> QED
    BY <2>2
<1>2. a * m \in Nat /\ c * m \in Nat /\ a * m + b = c * m + d
  BY DEF Turn
<1>3. ~ (a < c)
  BY <1>1, <1>2
<1>4. ~ (c < a)
  BY <1>1, <1>2
<1> QED
  BY <1>2, <1>3, <1>4

\* The remainder and the quotient of a number that is given by its turns.
LEMMA TurnRemainder ==
  ASSUME NEW m \in Nat \ {0}, NEW a \in Nat, NEW b \in 0 .. m - 1
  PROVE  Turn(m, a, b) % m = b /\ Turn(m, a, b) \div m = a
<1>1. Turn(m, a, b) \in Nat
  BY TurnType
<1>2. /\ Turn(m, a, b) \div m \in Nat
      /\ Turn(m, a, b) % m \in 0 .. m - 1
      /\ Turn(m, a, b) = Turn(m, Turn(m, a, b) \div m, Turn(m, a, b) % m)
  BY <1>1, TurnDefined
<1> QED
  BY <1>2, TurnUnique

\* The next turn of the inner loop, and the first one after the last.
LEMMA NextTurn ==
  ASSUME NEW m \in Nat \ {0}, NEW b \in 0 .. m - 1
  PROVE  (b + 1) % m = IF b + 1 = m THEN 0 ELSE b + 1
<1>1. CASE b + 1 = m
  <2>1. Turn(m, 1, 0) = b + 1 /\ 0 \in 0 .. m - 1
    BY <1>1 DEF Turn
  <2> QED
    BY <1>1, <2>1, TurnRemainder
<1>2. CASE b + 1 < m
  <2>1. Turn(m, 0, b + 1) = b + 1 /\ b + 1 \in 0 .. m - 1
    BY <1>2 DEF Turn
  <2>2. Turn(m, 0, b + 1) % m = b + 1
    BY <2>1, TurnRemainder
  <2> QED
    BY <1>2, <2>1, <2>2
<1> QED
  BY <1>1, <1>2

-----------------------------------------------------------------------------
(* Types. *)

\* Jobs have rows, rounds and tests.
LEMMA JobType ==
  ASSUME AscentTypeOK
  PROVE  /\ job.routine \in Routines
         /\ job.m \in Nat \ {0} /\ job.rounds \in Nat \ {0}
         /\ job.tests \in Nat \ {0} /\ job.lines \in Nat
BY JobsAssumption DEF AscentTypeOK

\* del(dataIndex[randIndex]) takes one number away.
LEMMA RemoveAtType ==
  ASSUME NEW S, NEW s \in Seq(S), NEW k \in 1 .. Len(s)
  PROVE  RemoveAt(s, k) \in Seq(S) /\ Len(RemoveAt(s, k)) = Len(s) - 1
<1> DEFINE front == SubSeq(s, 1, k - 1)
           back == SubSeq(s, k + 1, Len(s))
<1>1. Len(s) \in Nat /\ k \in Int /\ \A n \in 1 .. Len(s) : s[n] \in S
  BY LenProperties, ElementOfSeq
<1>2. front \in Seq(S) /\ Len(front) = k - 1
  BY <1>1, SubSeqProperties
<1>3. back \in Seq(S) /\ Len(back) = Len(s) - k
  BY <1>1, SubSeqProperties
<1> HIDE DEF front, back
<1>4. front \o back \in Seq(S) /\ Len(front \o back) = Len(front) + Len(back)
  BY <1>2, <1>3, ConcatProperties
<1>5. RemoveAt(s, k) = front \o back
  BY DEF RemoveAt, front, back
<1>6. Len(front) + Len(back) = Len(s) - 1
  BY <1>1, <1>2, <1>3
<1> QED
  BY <1>4, <1>5, <1>6

\* dataIndex begins as a list of all rows.
LEMMA AllIndicesType ==
  ASSUME AscentTypeOK
  PROVE  AllIndices \in Seq(Nat) /\ Len(AllIndices) = job.m
BY JobType, IsASeq DEF AllIndices

\* Every variable has its type, for jobs of every size.
THEOREM AscentTypeCorrect == AscentSpec => []AscentTypeOK
<1>1. AscentInit => AscentTypeOK
  BY DEF AscentInit, AscentTypeOK
<1>2. AscentTypeOK /\ [AscentNext]_allVars => AscentTypeOK'
  <2> SUFFICES ASSUME AscentTypeOK, [AscentNext]_allVars PROVE AscentTypeOK'
    OBVIOUS
  <2> USE JobType
  <2>1. CASE Start
    BY <2>1, AllIndicesType DEF AscentTypeOK, Start, Ones
  <2>2. CASE GradAscent
    BY <2>2 DEF AscentTypeOK, GradAscent, Update, Rows, testVars
  <2>3. CASE StocGradAscent0
    BY <2>3 DEF AscentTypeOK, StocGradAscent0, Update, testVars
  <2>4. CASE StocGradAscent1
    <3>1. PICK randIndex \in RandIndices :
            /\ Update({randIndex}, Alpha)
            /\ dataIndex' = IF i + 1 = job.m THEN AllIndices ELSE RemoveAt(dataIndex, randIndex + 1)
      BY <2>4 DEF StocGradAscent1
    <3>2. dataIndex \in Seq(Nat) /\ Len(dataIndex) \in Nat
      BY DEF AscentTypeOK
    <3>3. randIndex \in Nat /\ randIndex + 1 \in 1 .. Len(dataIndex)
      BY <3>2 DEF RandIndices
    <3>4. dataIndex' \in Seq(Nat)
      BY <3>1, <3>2, <3>3, RemoveAtType, AllIndicesType
    <3>5. weights' \in Seq([rows : SUBSET Nat, alpha : Nat \X Nat])
      <4>0. i \in Nat /\ j \in Nat
        BY DEF AscentTypeOK
      <4>1. Alpha \in Nat \X Nat /\ {randIndex} \in SUBSET Nat
        BY <3>3, <4>0 DEF Alpha
      <4>2. [rows |-> {randIndex}, alpha |-> Alpha] \in [rows : SUBSET Nat, alpha : Nat \X Nat]
        BY <4>1
      <4> QED
        BY <3>1, <4>2, AppendProperties DEF AscentTypeOK, Update
    <3>6. i' \in Nat /\ j' \in Nat
      <4>1. i + 1 \in Nat /\ j + 1 \in Nat /\ j \in Nat
        BY DEF AscentTypeOK
      <4>2. (i + 1) % job.m \in Nat
        BY <4>1, JobType, TurnDefined
      <4> QED
        BY <2>4, <4>1, <4>2 DEF StocGradAscent1
    <3> QED
      BY <2>4, <3>4, <3>5, <3>6 DEF AscentTypeOK, StocGradAscent1, testVars
  <2>5. CASE Ascended
    BY <2>5 DEF AscentTypeOK, Ascended, ascentVars, testVars
  <2>6. CASE ClassifyVector
    BY <2>6 DEF AscentTypeOK, ClassifyVector, ascentVars
  <2>7. CASE EndOfColicTest
    <3>1. stage' \in {"start", "returned", "raised"}
      BY <2>7 DEF EndOfColicTest
    <3>2. errorRates' \in Seq(Nat \X Nat)
      <4>1. errorRates \in Seq(Nat \X Nat) /\ <<errorCount, numTestVec>> \in Nat \X Nat
        BY DEF AscentTypeOK
      <4>2. errorRates' = errorRates \/ errorRates' = Append(errorRates, <<errorCount, numTestVec>>)
        BY <2>7 DEF EndOfColicTest
      <4> DEFINE Rates == Nat \X Nat
                 rate == <<errorCount, numTestVec>>
      <4>3. rate \in Rates /\ errorRates \in Seq(Rates)
        BY <4>1
      <4> HIDE DEF Rates, rate
      <4>4. Append(errorRates, rate) \in Seq(Rates)
        BY <4>3, AppendProperties
      <4> USE DEF Rates, rate
      <4> QED
        BY <4>1, <4>2, <4>4, Zenon
    <3> QED
      BY <2>7, <3>1, <3>2 DEF AscentTypeOK, EndOfColicTest, ascentVars
  <2>8. CASE UNCHANGED allVars
    BY <2>8 DEF AscentTypeOK, allVars, ascentVars, testVars
  <2> QED
    BY <2>1, <2>2, <2>3, <2>4, <2>5, <2>6, <2>7, <2>8 DEF AscentNext
<1> QED
  BY <1>1, <1>2, PTL DEF AscentSpec

-----------------------------------------------------------------------------
(* The inductive invariant. *)

\* No update has been made at the beginning.
LEMMA InitAscentInv == AscentInit => AscentInv
<1> SUFFICES ASSUME AscentInit PROVE AscentInv
  OBVIOUS
<1>1. AscentTypeOK
  BY DEF AscentInit, AscentTypeOK
<1>2. Counted
  BY <1>1, JobType DEF AscentInit, Counted, Turn
<1> QED
  BY <1>1, <1>2 DEF AscentInit, AscentInv, Over, Shrinks, Drawn

\* The weights of a new ascent are ones.
LEMMA StartAscentInv == AscentInv /\ AscentTypeOK' /\ Start => AscentInv'
<1> SUFFICES ASSUME AscentInv, AscentTypeOK', Start PROVE AscentInv'
  OBVIOUS
<1> USE DEF AscentInv
<1>1. job' = job /\ i' = 0 /\ j' = 0 /\ weights' = <<>> /\ stage' = "ascend" /\ dataIndex' = AllIndices
  BY DEF Start, Ones
<1>2. Counted'
  BY <1>1, JobType DEF Counted, Turn
<1>3. Shrinks'
  BY <1>1, JobType, AllIndicesType DEF Shrinks
<1>4. Drawn' /\ Over'
  BY <1>1 DEF Drawn, Over
<1> QED
  BY <1>2, <1>3, <1>4

\* A draw is below the length of dataIndex, and that is m - i.
LEMMA StocGradAscent1AscentInv == AscentInv /\ AscentTypeOK' /\ StocGradAscent1 => AscentInv'
<1> SUFFICES ASSUME AscentInv, AscentTypeOK', StocGradAscent1 PROVE AscentInv'
  OBVIOUS
<1> DEFINE m == job.m
<1>1. PICK randIndex \in RandIndices :
        /\ Update({randIndex}, Alpha)
        /\ dataIndex' = IF i + 1 = m THEN AllIndices ELSE RemoveAt(dataIndex, randIndex + 1)
  BY DEF StocGradAscent1
<1>2. /\ IsRandom /\ IsRandom' /\ job' = job /\ stage = "ascend" /\ stage' = "ascend"
      /\ j < job.rounds
      /\ i' = (i + 1) % m
      /\ j' = IF i + 1 = m THEN j + 1 ELSE j
  BY DEF StocGradAscent1, IsRandom
<1>3. /\ m \in Nat \ {0} /\ job.rounds \in Nat /\ i \in Nat /\ j \in Nat
      /\ dataIndex \in Seq(Nat) /\ Len(dataIndex) \in Nat /\ Len(weights) \in Nat
  BY JobType DEF AscentInv, AscentTypeOK
<1>4. /\ Len(weights) = Turn(m, j, i) /\ j <= job.rounds /\ i < m
      /\ Len(dataIndex) = m - i
  BY <1>2 DEF AscentInv, Counted, IsRandom, Shrinks
<1>5. i' = IF i + 1 = m THEN 0 ELSE i + 1
  <2>1. i \in 0 .. m - 1
    BY <1>3, <1>4
  <2> QED
    BY <2>1, <1>2, <1>3, NextTurn
<1> HIDE DEF m
<1>6. /\ Len(weights') = Len(weights) + 1
      /\ weights'[Len(weights) + 1] = [rows |-> {randIndex}, alpha |-> Alpha]
      /\ \A n \in 1 .. Len(weights) : weights'[n] = weights[n]
      /\ DOMAIN weights' = 1 .. Len(weights) + 1
      /\ DOMAIN weights = 1 .. Len(weights)
  BY <1>1 DEF Update, AscentInv, AscentTypeOK
<1>7. Counted'
  <2>1. Turn(m, j', i') = Turn(m, j, i) + 1
    <3>1. CASE i + 1 = m
      <4>1. /\ Turn(m, j, 0) \in Nat
            /\ Turn(m, j + 1, 0) = Turn(m, j, 0) + m /\ Turn(m, j, i) = Turn(m, j, 0) + i
        BY <1>3 DEF Turn
      <4> QED
        BY <3>1, <4>1, <1>2, <1>3, <1>5
    <3>2. CASE i + 1 # m
      BY <3>2, <1>2, <1>3, <1>5, TurnType
    <3> QED
      BY <3>1, <3>2
  <2>2. Len(weights') = Turn(job.m, j, i)'
    BY <2>1, <1>2, <1>4, <1>6 DEF m
  <2>3. j' <= job.rounds /\ i' < m /\ (j' = job.rounds => i' = 0)
    BY <1>2, <1>3, <1>4, <1>5
  <2> QED
    BY <1>2, <2>2, <2>3 DEF Counted, IsRandom, m
<1>8. Shrinks'
  <2>1. CASE i + 1 = m
    BY <2>1, <1>1, <1>2, <1>3, <1>5, AllIndicesType DEF Shrinks, AscentInv, m
  <2>2. CASE i + 1 # m
    <3>1. randIndex + 1 \in 1 .. Len(dataIndex)
      BY <1>3 DEF RandIndices
    <3>2. Len(dataIndex') = m - i - 1
      BY <2>2, <3>1, <1>1, <1>3, <1>4, RemoveAtType
    <3> QED
      BY <2>2, <3>2, <1>2, <1>3, <1>5 DEF Shrinks, m
  <2> QED
    BY <2>1, <2>2
<1>9. Drawn'
  <2> SUFFICES ASSUME NEW a \in Nat, NEW b \in (0 .. job.m - 1)',
                      (Turn(job.m, a, b) + 1 \in DOMAIN weights)'
               PROVE  DrawnAt(a, b)'
    BY DEF Drawn
  <2>a. b \in 0 .. m - 1 /\ Turn(m, a, b) + 1 \in DOMAIN weights'
    BY <1>2 DEF m
  <2>0. Turn(m, a, b) \in Nat
    BY <2>a, <1>3, TurnType
  <2>1. CASE Turn(m, a, b) + 1 \in 1 .. Len(weights)
    <3>1. Turn(m, a, b) + 1 \in DOMAIN weights
      BY <2>1, <1>6
    <3>2. weights'[Turn(m, a, b) + 1] = weights[Turn(m, a, b) + 1]
      BY <2>1, <1>6
    <3>3. DrawnAt(a, b)
      BY <2>a, <3>1, <1>2 DEF AscentInv, Drawn, m
    <3> QED
      BY <3>2, <3>3, <1>2 DEF DrawnAt, m
  <2>2. CASE Turn(m, a, b) + 1 = Len(weights) + 1
    <3>1. a = j /\ b = i
      <4>1. Turn(m, a, b) = Turn(m, j, i)
        BY <2>0, <2>2, <1>3, <1>4
      <4>2. i \in 0 .. m - 1
        BY <1>3, <1>4
      <4> QED
        BY <2>a, <4>1, <4>2, <1>3, TurnUnique
    <3>2. randIndex \in 0 .. m - 1 - b
      BY <3>1, <1>3, <1>4 DEF RandIndices
    <3>3. weights'[Turn(m, a, b) + 1] = [rows |-> {randIndex}, alpha |-> Alpha]
      BY <2>2, <1>6
    <3>4. Alpha = <<40000 + 1 + a + b, 10000 * (1 + a + b)>>
      BY <3>1 DEF Alpha
    <3> QED
      BY <3>2, <3>3, <3>4, <1>2 DEF DrawnAt, m
  <2> QED
    BY <2>a, <2>0, <2>1, <2>2, <1>3, <1>6
<1>10. Over'
  BY <1>2 DEF Over
<1> QED
  BY <1>7, <1>8, <1>9, <1>10 DEF AscentInv

\* What says nothing about stage is kept while the loop variables are.
LEMMA AscentUnchanged ==
  ASSUME Counted, Drawn, UNCHANGED <<job, ascentVars>>
  PROVE  Counted' /\ Drawn'
<1>1. job' = job /\ i' = i /\ j' = j /\ weights' = weights
  BY DEF ascentVars
<1>2. Counted'
  BY <1>1 DEF Counted
<1>3. IsRandom' = IsRandom
  BY <1>1 DEF IsRandom
<1>4. ASSUME NEW a, NEW b, DrawnAt(a, b) PROVE DrawnAt(a, b)'
  BY <1>1, <1>4 DEF DrawnAt
<1>5. Drawn'
  <2> SUFFICES ASSUME IsRandom, NEW a \in Nat, NEW b \in 0 .. job.m - 1,
                      Turn(job.m, a, b) + 1 \in DOMAIN weights
               PROVE  DrawnAt(a, b)
    BY <1>1, <1>3, <1>4 DEF Drawn
  <2> QED
    BY DEF Drawn
<1> QED
  BY <1>2, <1>5

\* Shrinks and Drawn say nothing about the ascents that draw no rows.
LEMMA NotRandom ==
  ASSUME job' = job, job.routine \in {"gradAscent", "stocGradAscent0"}
  PROVE  Shrinks' /\ Drawn'
<1>1. ~ IsRandom'
  BY DEF IsRandom
<1> QED
  BY <1>1 DEF Shrinks, Drawn

\* The loops count the updates, and every update draws from what is left of dataIndex.
LEMMA AscentInvHolds == AscentSpec => []AscentInv
<1>1. AscentInit => AscentInv
  BY InitAscentInv
<1>2. AscentInv /\ AscentTypeOK' /\ [AscentNext]_allVars => AscentInv'
  <2> SUFFICES ASSUME AscentInv, AscentTypeOK', [AscentNext]_allVars PROVE AscentInv'
    OBVIOUS
  <2>0. AscentTypeOK /\ Counted /\ Over /\ Shrinks /\ Drawn
    BY DEF AscentInv
  <2>1. CASE Start
    BY <2>1, StartAscentInv
  <2>2. CASE GradAscent
    <3>1. /\ job' = job /\ stage' = stage /\ stage = "ascend" /\ job.routine = "gradAscent"
          /\ j' = j + 1 /\ j < job.rounds
          /\ Len(weights') = Len(weights) + 1
      BY <2>0, <2>2 DEF GradAscent, Update, AscentTypeOK
    <3>2. j \in Nat /\ job.rounds \in Nat
      BY <2>0, JobType DEF AscentTypeOK
    <3>3. Counted'
      BY <2>0, <3>1, <3>2 DEF Counted
    <3>4. Over'
      BY <3>1 DEF Over
    <3> QED
      BY <3>1, <3>3, <3>4, NotRandom DEF AscentInv
  <2>3. CASE StocGradAscent0
    <3>1. /\ job' = job /\ stage' = stage /\ stage = "ascend" /\ job.routine = "stocGradAscent0"
          /\ i' = i + 1 /\ i < job.m
          /\ Len(weights') = Len(weights) + 1
      BY <2>0, <2>3 DEF StocGradAscent0, Update, AscentTypeOK
    <3>2. i \in Nat /\ job.m \in Nat
      BY <2>0, JobType DEF AscentTypeOK
    <3>3. Counted'
      BY <2>0, <3>1, <3>2 DEF Counted
    <3>4. Over'
      BY <3>1 DEF Over
    <3> QED
      BY <3>1, <3>3, <3>4, NotRandom DEF AscentInv
  <2>4. CASE StocGradAscent1
    BY <2>4, StocGradAscent1AscentInv
  <2>5. CASE Ascended
    <3>1. /\ UNCHANGED <<job, ascentVars>> /\ stage' \in {"test", "returned"}
          /\ IF job.routine = "stocGradAscent0" THEN i = job.m ELSE j = job.rounds
      BY <2>5 DEF Ascended
    <3>2. job' = job /\ i' = i /\ j' = j
      BY <3>1 DEF ascentVars
    <3>3. Over'
      BY <3>1, <3>2 DEF Over
    <3>4. Shrinks'
      BY <3>1 DEF Shrinks
    <3> QED
      BY <2>0, <3>1, <3>3, <3>4, AscentUnchanged DEF AscentInv
  <2>6. CASE ClassifyVector
    <3>1. UNCHANGED <<job, ascentVars>> /\ stage' = stage /\ stage = "test"
      BY <2>6 DEF ClassifyVector
    <3>2. job' = job /\ i' = i /\ j' = j
      BY <3>1 DEF ascentVars
    <3>3. Over'
      BY <2>0, <3>1, <3>2 DEF Over
    <3>4. Shrinks'
      BY <3>1 DEF Shrinks
    <3> QED
      BY <2>0, <3>1, <3>3, <3>4, AscentUnchanged DEF AscentInv
  <2>7. CASE EndOfColicTest
    <3>1. UNCHANGED <<job, ascentVars>> /\ stage = "test" /\ stage' \in {"start", "returned", "raised"}
      BY <2>7 DEF EndOfColicTest
    <3>2. job' = job /\ i' = i /\ j' = j
      BY <3>1 DEF ascentVars
    <3>3. Over'
      BY <2>0, <3>1, <3>2 DEF Over
    <3>4. Shrinks'
      BY <3>1 DEF Shrinks
    <3> QED
      BY <2>0, <3>1, <3>3, <3>4, AscentUnchanged DEF AscentInv
  <2>8. CASE UNCHANGED allVars
    <3>1. UNCHANGED <<job, ascentVars>> /\ stage' = stage
      BY <2>8 DEF allVars
    <3>2. job' = job /\ i' = i /\ j' = j /\ dataIndex' = dataIndex
      BY <3>1 DEF ascentVars
    <3>3. Over' /\ Shrinks'
      BY <2>0, <3>1, <3>2 DEF Over, Shrinks, IsRandom
    <3> QED
      BY <2>0, <3>1, <3>3, AscentUnchanged DEF AscentInv
  <2> QED
    BY <2>1, <2>2, <2>3, <2>4, <2>5, <2>6, <2>7, <2>8 DEF AscentNext
<1> QED
  BY <1>1, <1>2, AscentTypeCorrect, PTL DEF AscentSpec

-----------------------------------------------------------------------------
(* What it implies. *)

\* Every update of a random ascent is at a place, whose row and step size Drawn
\* gives.
LEMMA UpdateAt ==
  ASSUME AscentInv, IsRandom, NEW n \in DOMAIN weights
  PROVE  \E a \in Nat, b \in 0 .. job.m - 1 : n = Turn(job.m, a, b) + 1 /\ DrawnAt(a, b)
<1> DEFINE a == (n - 1) \div job.m
           b == (n - 1) % job.m
<1>1. job.m \in Nat \ {0}
  BY JobType DEF AscentInv
<1>2. n \in Nat /\ n - 1 \in Nat
  BY DEF AscentInv, AscentTypeOK
<1>3. a \in Nat /\ b \in 0 .. job.m - 1 /\ n - 1 = Turn(job.m, a, b)
  BY <1>1, <1>2, TurnDefined
<1> HIDE DEF a, b
<1>4. n = Turn(job.m, a, b) + 1
  BY <1>2, <1>3
<1>5. DrawnAt(a, b)
  BY <1>3, <1>4 DEF AscentInv, Drawn
<1> QED
  BY <1>3, <1>4, <1>5

\* Every ascent is as long as its loops say.
THEOREM UpdatesAreExact == AscentSpec => []UpdatesExact
<1>1. AscentInv => UpdatesExact
  <2> SUFFICES ASSUME AscentInv, stage \in {"test", "returned"}
               PROVE  Len(weights) = CASE job.routine = "gradAscent" -> job.rounds
                                       [] job.routine = "stocGradAscent0" -> job.m
                                       [] OTHER -> job.rounds * job.m
    BY DEF UpdatesExact
  <2>1. job.m \in Nat \ {0} /\ job.rounds \in Nat \ {0} /\ job.rounds * job.m \in Nat
    BY JobType DEF AscentInv
  <2>2. Turn(job.m, job.rounds, 0) = job.rounds * job.m
    BY <2>1 DEF Turn
  <2> QED
    BY <2>2 DEF AscentInv, Counted, Over
<1> QED
  BY <1>1, AscentInvHolds, PTL

\* An epoch begins where a turn of the outer loop does.
LEMMA UpdateOfEpoch ==
  ASSUME AscentInv, IsRandom, NEW base \in Epochs, NEW n \in OfEpoch(base)
  PROVE  \E r \in 0 .. job.m - (n - base) : weights[n].rows = {r}
<1> DEFINE m == job.m
           q == base \div m
           d == n - base - 1
<1>1. m \in Nat \ {0} /\ Len(weights) \in Nat /\ DOMAIN weights = 1 .. Len(weights)
  BY JobType DEF AscentInv, AscentTypeOK
<1>2. base \in Nat /\ n \in Nat /\ d \in 0 .. m - 1
  BY <1>1 DEF Epochs, OfEpoch
<1>3. q \in Nat /\ base = Turn(m, q, 0)
  BY <1>1, <1>2, TurnDefined DEF Epochs
<1>4. Turn(m, q, d) = Turn(m, q, 0) + d
  BY <1>1, <1>2, <1>3 DEF Turn
<1> HIDE DEF m, q
<1>5. n = Turn(m, q, d) + 1
  BY <1>2, <1>3, <1>4
<1>6. Turn(m, q, d) + 1 \in DOMAIN weights
  BY <1>5 DEF OfEpoch
<1> HIDE DEF d
<1>7. \E r \in 0 .. m - 1 - d : weights[Turn(m, q, d) + 1].rows = {r}
  BY <1>2, <1>3, <1>6 DEF AscentInv, Drawn, DrawnAt, m
<1>8. m - 1 - d = m - (n - base)
  BY <1>1, <1>2 DEF d
<1> QED
  BY <1>5, <1>7, <1>8 DEF m

\* The last rows are used rarely: position p of dataIndex is row p, and only while
\* there are more than p positions left.
THEOREM LateRowsAreRare == AscentSpec => []LateRowsRare
<1>1. AscentInv => LateRowsRare
  <2> SUFFICES ASSUME AscentInv, IsRandom, NEW base \in Epochs, NEW r \in Rows
               PROVE  Cardinality({n \in OfEpoch(base) : weights[n].rows \cap (r .. job.m - 1) # {}})
                        <= job.m - r
    BY DEF LateRowsRare
  <2> DEFINE Late == {n \in OfEpoch(base) : weights[n].rows \cap (r .. job.m - 1) # {}}
  <2>1. job.m \in Nat \ {0} /\ base \in Nat /\ r \in Nat /\ r < job.m /\ Len(weights) \in Nat
    BY JobType DEF AscentInv, AscentTypeOK, Epochs, Rows
  <2>2. Late \subseteq base + 1 .. base + (job.m - r)
    <3> SUFFICES ASSUME NEW n \in Late PROVE n \in base + 1 .. base + (job.m - r)
      OBVIOUS
    <3>1. n \in Nat /\ n > base
      BY <2>1 DEF OfEpoch, AscentInv, AscentTypeOK
    <3>2. PICK x \in 0 .. job.m - (n - base) : weights[n].rows = {x}
      BY UpdateOfEpoch
    <3>3. x >= r
      BY <3>2, <2>1
    <3> QED
      BY <2>1, <3>1, <3>2, <3>3
  <2>3. /\ IsFiniteSet(base + 1 .. base + (job.m - r))
        /\ Cardinality(base + 1 .. base + (job.m - r)) = job.m - r
    <3>1. base + 1 \in Int /\ base + (job.m - r) \in Int
      BY <2>1
    <3>2. /\ IsFiniteSet(base + 1 .. base + (job.m - r))
          /\ Cardinality(base + 1 .. base + (job.m - r)) =
               IF base + 1 > base + (job.m - r) THEN 0 ELSE (base + (job.m - r)) - (base + 1) + 1
      BY <3>1, FS_Interval
    <3> QED
      BY <2>1, <3>2
  <2>4. Cardinality(Late) <= Cardinality(base + 1 .. base + (job.m - r))
    BY <2>2, <2>3, FS_Subset
  <2> QED
    BY <2>3, <2>4
<1> QED
  BY <1>1, AscentInvHolds, PTL

\* 4/(1.0+j+i)+0.0001 falls as j + i grows.
LEMMA AlphaFalls ==
  ASSUME NEW k \in Nat
  PROVE  Smaller(<<40001 + (k + 1), 10000 * (1 + (k + 1))>>, <<40001 + k, 10000 * (1 + k)>>)
<1>1. (40001 + (k + 1)) * (10000 * (1 + k)) = 10000 * (k * k) + 400030000 * k + 400020000
  OBVIOUS
<1>2. (40001 + k) * (10000 * (1 + (k + 1))) = 10000 * (k * k) + 400030000 * k + 800020000
  OBVIOUS
<1>3. k * k \in Nat
  OBVIOUS
<1> QED
  BY <1>1, <1>2, <1>3 DEF Smaller

\* Step sizes fall within a turn of the outer loop, and from turn to turn.
THEOREM StepsAlwaysFall == AscentSpec => []StepsFall
<1>1. AscentInv => StepsFall
  <2> SUFFICES ASSUME AscentInv, IsRandom, NEW n \in DOMAIN weights, NEW later \in DOMAIN weights,
                      (later = n + 1 /\ n % job.m # 0) \/ later = n + job.m
               PROVE  Smaller(weights[later].alpha, weights[n].alpha)
    BY DEF StepsFall
  <2>0. n \in Nat
    BY DEF AscentInv, AscentTypeOK
  <2>1. job.m \in Nat \ {0} /\ n \in Nat
    BY <2>0, JobType DEF AscentInv
  <2>2. PICK a \in Nat, b \in 0 .. job.m - 1 : n = Turn(job.m, a, b) + 1 /\ DrawnAt(a, b)
    BY UpdateAt
  <2>3. PICK c \in Nat, d \in 0 .. job.m - 1 : later = Turn(job.m, c, d) + 1 /\ DrawnAt(c, d)
    BY UpdateAt
  <2>4. c + d = (a + b) + 1
    <3> DEFINE m == job.m
    <3>a. m \in Nat /\ b \in Nat /\ d \in Nat /\ b + 1 \in Nat /\ a + 1 \in Nat
      BY <2>1
    <3> HIDE DEF m
    <3>b. Turn(m, c, d) \in Nat
      BY <3>a, TurnType
    <3>c. Turn(m, a, b) \in Nat
      BY <3>a, TurnType
    <3>d. Turn(m, a, b + 1) = Turn(m, a, b) + 1
      BY <3>a DEF Turn
    <3>e. Turn(m, a + 1, b) = Turn(m, a, b) + m
      BY <3>a DEF Turn
    <3>0. /\ b + 1 \in Nat /\ b \in Nat /\ Turn(job.m, a, b) \in Nat /\ Turn(job.m, c, d) \in Nat
          /\ Turn(job.m, a, b + 1) = Turn(job.m, a, b) + 1
          /\ Turn(job.m, a + 1, b) = Turn(job.m, a, b) + job.m
      BY <3>a, <3>b, <3>c, <3>d, <3>e DEF m
    <3>1. CASE later = n + 1 /\ n % job.m # 0
      <4>1. Turn(job.m, a, b + 1) = Turn(job.m, a, b) + 1
        BY <3>0, Zenon
      <4>2. b + 1 # job.m
        <5> SUFFICES ASSUME b + 1 = job.m PROVE FALSE
          OBVIOUS
        <5>1. Turn(job.m, a + 1, 0) = Turn(job.m, a, 0) + job.m /\ Turn(job.m, a, b) = Turn(job.m, a, 0) + b
          BY <2>1 DEF Turn
        <5>2. Turn(job.m, a, 0) \in Nat
          BY <2>1, TurnType
        <5>3. n = Turn(job.m, a + 1, 0)
          BY <2>1, <2>2, <5>1, <5>2
        <5>4. 0 \in 0 .. job.m - 1 /\ a + 1 \in Nat
          BY <2>1
        <5>5. n % job.m = 0
          BY <2>1, <5>3, <5>4, TurnRemainder
        <5> QED
          BY <3>1, <5>5
      <4>3. Turn(job.m, c, d) = Turn(job.m, a, b + 1) /\ b + 1 \in 0 .. job.m - 1
        BY <2>1, <2>2, <2>3, <3>0, <3>1, <4>1, <4>2
      <4>4. c = a /\ d = b + 1
        BY <2>1, <4>3, TurnUnique
      <4> QED
        BY <4>4
    <3>2. CASE later = n + job.m
      <4>1. Turn(job.m, a + 1, b) = Turn(job.m, a, b) + job.m /\ a + 1 \in Nat
        BY <3>0
      <4>2. Turn(job.m, c, d) = Turn(job.m, a + 1, b)
        BY <2>1, <2>2, <2>3, <3>0, <3>2, <4>1
      <4>3. c = a + 1 /\ d = b
        BY <2>1, <4>1, <4>2, TurnUnique
      <4> QED
        BY <4>3
    <3> QED
      BY <3>1, <3>2
  <2> DEFINE k == a + b
  <2>5. k \in Nat
    BY <2>1
  <2>6. /\ weights[n].alpha = <<40001 + k, 10000 * (1 + k)>>
        /\ weights[later].alpha = <<40001 + (k + 1), 10000 * (1 + (k + 1))>>
    <3>1. 40000 + 1 + a + b = 40001 + k /\ 1 + a + b = 1 + k
      BY <2>1
    <3>2. 40000 + 1 + c + d = 40001 + (k + 1) /\ 1 + c + d = 1 + (k + 1)
      BY <2>1, <2>4
    <3>3. /\ weights[n].alpha = <<40000 + 1 + a + b, 10000 * (1 + a + b)>>
          /\ weights[later].alpha = <<40000 + 1 + c + d, 10000 * (1 + c + d)>>
      BY <2>2, <2>3 DEF DrawnAt
    <3> QED
      BY <3>1, <3>2, <3>3
  <2> QED
    BY <2>5, <2>6, AlphaFalls
<1> QED
  BY <1>1, AscentInvHolds, PTL
=============================================================================
