---------------------------- MODULE DecisionTree ----------------------------
(***************************************************************************)
(* createTree of examples/mlia/src/dt/trees.py and a classify of one       *)
(* vector with the tree that it returns.                                   *)
(*                                                                         *)
(* A row is the sequence of its features and its class; a dataset is a     *)
(* sequence of rows.  The nested dicts of a tree are kept as a function    *)
(* from paths, the keys taken from the root, to nodes and leaves.  The     *)
(* recursion of createTree is a stack of frames, one for each loop over    *)
(* the values of a feature.                                                *)
(*                                                                         *)
(* Entropies are compared exactly, through powers of two:                  *)
(* 2 ^ (n * entropy) of n rows is the fraction n^n / (product of k^k over  *)
(* the class counts k).  The code compares rounded sums of logarithms; the *)
(* two agree for datasets as small as those of the instances.              *)
(***************************************************************************)
EXTENDS Integers, FiniteSets, SequencesExt, Products, Selection

CONSTANTS Datasets,     \* the training sets
          Labels,       \* names of the features, as many as a row has or more
          Classes,      \* the classes
          Callers       \* who calls: "copies" keeps a copy of labels, "shares" does not

ASSUME CallersAssumption == Callers \subseteq {"copies", "shares"}
ASSUME LabelsAssumption == Labels \in Seq(ToSet(Labels)) /\ IsInjective(Labels)

\* There is a row, and all have the same features and a class.
ASSUME DatasetsAssumption ==
  \A data \in Datasets :
    /\ data \in Seq(ToSet(data)) /\ data # <<>>
    /\ \A row \in ToSet(data) :
         /\ row \in Seq(ToSet(row))
         /\ Len(row) = Len(data[1]) /\ Len(row) \in 1 .. Len(Labels) + 1
         /\ Last(row) \in Classes

VARIABLES dataSet,      \* argument: the training set
          caller,       \* what the caller does with its labels
          labels,       \* the caller's list of labels
          pc,           \* what happens next
          call,         \* the arguments of the next createTree, and its path
          stack,        \* the loops over the values of a feature, the innermost last
          myTree,       \* path -> node or leaf
          testVec,      \* the vector to classify
          at,           \* the path of inputTree in classify
          result        \* the class, or the exception that classify raised

buildVars == <<labels, call, stack, myTree>>
vars == <<dataSet, caller, pc, buildVars, testVec, at, result>>

NumFeatures == Len(dataSet[1]) - 1
Names == SubSeq(Labels, 1, NumFeatures)

Init ==
  /\ dataSet \in Datasets
  /\ caller \in Callers
  /\ labels = Names
  /\ pc = "createTree"
  /\ call = [path |-> <<>>, data |-> dataSet, labels |-> Names]
  /\ stack = <<>>
  /\ myTree = [path \in {} |-> 0]
  /\ testVec = <<>> /\ at = <<>> /\ result = "none"

-----------------------------------------------------------------------------
(* Columns.  Axis 0 stands for the index -1 of Python, the last element.   *)

Cell(row, axis) == IF axis = 0 THEN Last(row) ELSE row[axis]

ValuesOf(data, axis) == {Cell(data[i], axis) : i \in DOMAIN data}

\* A faulty variant: always the first column is chopped out.
Chop_First(row, axis) == Tail(row)

\* featVec[:axis] extended with featVec[axis+1:]; for axis -1 the second slice
\* begins at 0 and is the whole row.
Chop(row, axis) == IF axis = 0 THEN Front(row) \o row ELSE RemoveAt(row, axis)

SplitDataSet(data, axis, value) ==
  LET kept == Selected(data, {row \in ToSet(data) : Cell(row, axis) = value})
  IN  [i \in DOMAIN kept |-> Chop(kept[i], axis)]

ClassCount(data, c) == Cardinality({i \in DOMAIN data : Last(data[i]) = c})

-----------------------------------------------------------------------------
(* Entropy.  A product over the classes of k^k is one over the rows of k.   *)

\* How many rows have the cells of row i in the columns that are named.
Alike(data, i, axes) ==
  Cardinality({j \in DOMAIN data : \A a \in axes : Cell(data[j], a) = Cell(data[i], a)})

\* 2 ^ (number of rows * Shannon entropy), as <<numerator, denominator>>.
CalcShannonEnt(data) ==
  <<Power(Len(data), Len(data)), Product([i \in DOMAIN data |-> Alike(data, i, {0})], DOMAIN data)>>

\* The same for the weighted sum of the entropies of the subsets of an axis.
NewEntropy(data, axis) ==
  <<Product([i \in DOMAIN data |-> Alike(data, i, {axis})], DOMAIN data),
    Product([i \in DOMAIN data |-> Alike(data, i, {axis, 0})], DOMAIN data)>>

Lower(p, q) == p[1] * q[2] < q[1] * p[2]

\* The first feature with the largest information gain; without any gain the
\* initial value -1 is returned.
ChooseBestFeatureToSplit(data) ==
  LET ent == [i \in 1 .. Len(data[1]) - 1 |-> NewEntropy(data, i)]
      gaining == {i \in DOMAIN ent : Lower(ent[i], CalcShannonEnt(data))}
  IN  IF gaining = {} THEN 0
      ELSE CHOOSE i \in gaining :
             \A j \in gaining : ~Lower(ent[j], ent[i]) /\ (j < i => Lower(ent[i], ent[j]))

\* A faulty variant: the votes are sorted without reverse=True.
MajorityCnt_Least(data) ==
  {c \in ValuesOf(data, 0) : \A d \in ValuesOf(data, 0) : ClassCount(data, c) <= ClassCount(data, d)}

\* A class with the most votes; the order of a dict decides between several.
MajorityCnt(data) ==
  {c \in ValuesOf(data, 0) : \A d \in ValuesOf(data, 0) : ClassCount(data, d) <= ClassCount(data, c)}

-----------------------------------------------------------------------------
(* createTree. *)

\* A function from paths with one entry more, or another one.
Put(f, path, entry) == [p \in DOMAIN f \cup {path} |-> IF p = path THEN entry ELSE f[p]]

\* createTree returns a class, which becomes a leaf.
ReturnLeaf(c) ==
  /\ myTree' = Put(myTree, call.path, [kind |-> "leaf", name |-> c])
  /\ pc' = IF stack = <<>> THEN "returned" ELSE "branch"
  /\ UNCHANGED <<labels, call, stack>>

\* A new dict for the best feature.  del removes its label from the list that
\* was passed in, which for the first call is the list of the caller.
SplitOnBest ==
  \E axis \in {ChooseBestFeatureToSplit(call.data)} :
    LET position == IF axis = 0 THEN Len(call.labels) ELSE axis
        rest == RemoveAt(call.labels, position)
    IN  /\ myTree' = Put(myTree, call.path, [kind |-> "dict", name |-> call.labels[position]])
        /\ stack' = Append(stack, [path |-> call.path, data |-> call.data, axis |-> axis,
                                   labels |-> rest, values |-> ValuesOf(call.data, axis)])
        /\ labels' = IF stack = <<>> THEN rest ELSE labels
        /\ pc' = "branch"
        /\ UNCHANGED call

CreateTree ==
  /\ pc = "createTree"
  /\ LET classes == ValuesOf(call.data, 0)
     IN  \/ Cardinality(classes) = 1 /\ \E c \in classes : ReturnLeaf(c)
         \/ Cardinality(classes) > 1 /\ Len(call.data[1]) = 1
            /\ \E c \in MajorityCnt(call.data) : ReturnLeaf(c)
         \/ Cardinality(classes) > 1 /\ Len(call.data[1]) > 1 /\ SplitOnBest
  /\ UNCHANGED <<dataSet, caller, testVec, at, result>>

\* A faulty variant: the loop never advances.
LoopOn_Again(v) == stack' = stack

\* The loop goes on to the values that are left.
LoopOn(v) == stack' = [stack EXCEPT ![Len(stack)].values = @ \ {v}]

\* One value of the feature: the recursive call with its rows and a copy of the
\* labels.
Branch ==
  /\ pc = "branch"
  /\ \E v \in Last(stack).values :
       /\ call' = [path |-> Append(Last(stack).path, v),
                   data |-> SplitDataSet(Last(stack).data, Last(stack).axis, v),
                   labels |-> Last(stack).labels]
       /\ LoopOn(v)
  /\ pc' = "createTree"
  /\ UNCHANGED <<dataSet, caller, labels, myTree, testVec, at, result>>

ReturnDict ==
  /\ pc = "branch" /\ Last(stack).values = {}
  /\ stack' = Front(stack)
  /\ pc' = IF stack' = <<>> THEN "returned" ELSE "branch"
  /\ UNCHANGED <<dataSet, caller, labels, call, myTree, testVec, at, result>>

-----------------------------------------------------------------------------
(* classify, called once with one of the vectors that the rows could have. *)

FeatLabels == IF caller = "copies" THEN Names ELSE labels

FeatureValues == UNION {ValuesOf(dataSet, i) : i \in 1 .. NumFeatures}

CallClassify ==
  /\ pc = "returned"
  /\ testVec' \in [1 .. NumFeatures -> FeatureValues]
  /\ pc' = "classify"
  /\ UNCHANGED <<dataSet, caller, buildVars, at, result>>

Classified(r) == result' = r /\ pc' = "classified" /\ UNCHANGED at

\* One level of the recursion.  A tree that is a class has no keys(); a label
\* may be missing in featLabels; a value may have no branch.
Classify ==
  /\ pc = "classify"
  /\ LET label == myTree[at].name
         next == Append(at, testVec[CHOOSE i \in DOMAIN FeatLabels : FeatLabels[i] = label])
     IN  \/ myTree[at].kind = "leaf" /\ Classified("AttributeError")
         \/ /\ myTree[at].kind = "dict"
            /\ \/ label \notin ToSet(FeatLabels) /\ Classified("ValueError")
               \/ /\ label \in ToSet(FeatLabels)
                  /\ \/ next \notin DOMAIN myTree /\ Classified("KeyError")
                     \/ /\ next \in DOMAIN myTree
                        /\ IF myTree[next].kind = "leaf" THEN Classified(myTree[next].name)
                           ELSE at' = next /\ UNCHANGED <<result, pc>>
  /\ UNCHANGED <<dataSet, caller, buildVars, testVec>>

Next == CreateTree \/ Branch \/ ReturnDict \/ CallClassify \/ Classify

\* A sequential program goes on running.
Spec == Init /\ [][Next]_vars /\ WF_vars(Next)

-----------------------------------------------------------------------------
\* A split without gain has branches for classes.  Nothing below it is a split.
OnFeatures(path) == ToSet(path) \cap Classes = {}
SplitsOnFeatures == \A path \in DOMAIN myTree : OnFeatures(path)

FeatureNamed(label) == CHOOSE i \in DOMAIN Names : Names[i] = label

\* The feature that the k-th key of a path is a value of.
FeatureAt(path, k) == FeatureNamed(myTree[SubSeq(path, 1, k - 1)].name)

\* On a path of splits on features, a call of createTree has exactly the training
\* rows that agree with the keys of the path, less their columns, and the labels of
\* the columns that are left: labels and columns are in step.  (Below a split on
\* the class column they are not.)
CallRows ==
  pc = "createTree" /\ OnFeatures(call.path) =>
    LET rows == Selected(dataSet, {row \in ToSet(dataSet) :
                  \A k \in DOMAIN call.path : row[FeatureAt(call.path, k)] = call.path[k]})
        Rest(row) == [k \in DOMAIN call.labels |-> row[FeatureNamed(call.labels[k])]]
    IN  call.data = [i \in DOMAIN rows |-> Append(Rest(rows[i]), Last(rows[i]))]

\* If all splits are on features and the caller keeps its labels, a training row is
\* given its class back, or a majority class of the rows that have the same
\* features; it is never without a branch.
TrainingClassified ==
  LET alike == Selected(dataSet, {row \in ToSet(dataSet) : Front(row) = testVec})
      votes == [c \in Classes |-> ClassCount(alike, c)]
  IN  pc = "classified" /\ caller = "copies" /\ SplitsOnFeatures
      /\ myTree[<<>>].kind = "dict" /\ alike # <<>> =>
        result \in Classes /\ \A c \in Classes : votes[c] <= votes[result]

\* The keys of a dict of the tree are values of the feature that it is for.
BranchesAreValues ==
  \A path \in DOMAIN myTree : \A k \in DOMAIN path :
    path[k] \in ValuesOf(dataSet, FeatureAt(path, k))
=============================================================================
