-------------------------- MODULE NearestNeighbours --------------------------
(***************************************************************************)
(* classify0 of examples/mlia/src/knn/kNN.py and the two tests that count  *)
(* its errors: datingClassTest, which normalises one file and holds half   *)
(* of it out, and handwritingClassTest, which reads two directories.       *)
(*                                                                         *)
(* A line of a file is a sequence of numbers, the class last.  A row is a  *)
(* record of its features x and its label.  Features are integers, and     *)
(* distances are compared as they are defined, before any rounding.        *)
(***************************************************************************)
EXTENDS Integers, FiniteSets, SequencesExt, Products

CONSTANTS Programs,     \* what is run: [file] for the one test, [train, test] for the other
          Scales        \* factors between the units that a feature may have

ASSUME ScalesAssumption == Scales \subseteq Nat \ {0}

\* A line has three features and a class; all images have the same pixels.
ASSUME ProgramsAssumption ==
  \A p \in Programs :
    IF "file" \in DOMAIN p THEN p.file \in Seq([1 .. 4 -> Int])
    ELSE /\ p.train \in Seq([x : Seq(Int), label : Int])
         /\ p.test \in Seq([x : Seq(Int), label : Int])
         /\ \A row, other \in ToSet(p.train) \cup ToSet(p.test) : Len(row.x) = Len(other.x)

VARIABLES program,      \* argument: the files
          pc,           \* "load", "classify", "returned" or "raised"
          data,         \* the rows to test and to train with, and the ranges
          i,            \* how many rows have been classified
          classifierResult,
          errorCount

vars == <<program, pc, data, i, classifierResult, errorCount>>

k == 3

Init ==
  /\ program \in Programs
  /\ pc = "load"
  /\ data = [test |-> <<>>, train |-> <<>>, ranges |-> <<>>]
  /\ i = 0
  /\ classifierResult = 0
  /\ errorCount = 0

-----------------------------------------------------------------------------
\* A line is split into three features and the class, which is last.
File2Matrix(lines) ==
  [n \in DOMAIN lines |-> [x |-> SubSeq(lines[n], 1, 3), label |-> Last(lines[n])]]

Column(rows, f) == {rows[n].x[f] : n \in DOMAIN rows}

\* A faulty variant: a column is divided by its largest value.
RangeOf_Max(column) == Max(column)

RangeOf(column) == Max(column) - Min(column)

\* The rows less the minima of their columns, and the ranges that divide them.
AutoNorm(rows) ==
  [mat |-> [n \in DOMAIN rows |->
      [rows[n] EXCEPT !.x = [f \in DOMAIN @ |-> @[f] - Min(Column(rows, f))]]],
   ranges |-> [f \in DOMAIN rows[1].x |-> RangeOf(Column(rows, f))]]

\* A faulty variant: the rows that are tested are trained with too.
TrainingRows_All(mat, numTestVecs) == mat

TrainingRows(mat, numTestVecs) == SubSeq(mat, numTestVecs + 1, Len(mat))

\* A faulty variant: the half is rounded up.
NumTestVecs_Up(m) == (m + 1) \div 2

\* hoRatio is 0.50, and int cuts off.
NumTestVecs(m) == m \div 2

Dating(file) ==
  LET norm == AutoNorm(File2Matrix(file))
      numTestVecs == NumTestVecs(Len(file))
  IN  [test |-> SubSeq(norm.mat, 1, numTestVecs),
       train |-> TrainingRows(norm.mat, numTestVecs),
       ranges |-> norm.ranges]

\* Digits are not normalised: what they are divided by is 1.
Handwriting(p) ==
  [test |-> p.test, train |-> p.train,
   ranges |-> [f \in UNION {DOMAIN p.train[n].x : n \in DOMAIN p.train} |-> 1]]

-----------------------------------------------------------------------------
\* The squared distance of two rows, times the squares of all the ranges.
SqDistance(x, y, ranges) ==
  LET Diff(f) == (x[f] - y[f]) * Product(ranges, DOMAIN ranges \ {f})
  IN  SumFunction([f \in DOMAIN ranges |-> Diff(f) * Diff(f)])

\* After a division by a range of zero every distance is nan.
IsNan(ranges) == 0 \in Range(ranges)

\* The sets of k rows that argsort may put first: equal distances in any order,
\* and nan in any.
Nearest(inX, train, ranges) ==
  LET Dist(n) == SqDistance(inX, train[n].x, ranges)
  IN  {near \in kSubset(k, DOMAIN train) :
         IsNan(ranges) \/ \A n \in near, o \in DOMAIN train \ near : Dist(n) <= Dist(o)}

\* A faulty variant: the votes are sorted without reverse=True.
MoreVotes_Less(a, b) == a <= b

MoreVotes(a, b) == a >= b

\* The classes that may come first when the votes are sorted.
Elected(near, train) ==
  LET classCount == [c \in {train[n].label : n \in near} |->
                       Cardinality({n \in near : train[n].label = c})]
  IN  {c \in DOMAIN classCount : \A d \in DOMAIN classCount : MoreVotes(classCount[c], classCount[d])}

Classify0(inX, train, ranges) ==
  UNION {Elected(near, train) : near \in Nearest(inX, train, ranges)}

-----------------------------------------------------------------------------
\* The minima of an empty matrix are an error.
Load ==
  /\ pc = "load"
  /\ IF "file" \notin DOMAIN program
     THEN data' = Handwriting(program) /\ pc' = "classify"
     ELSE IF program.file = <<>> THEN pc' = "raised" /\ UNCHANGED data
     ELSE data' = Dating(program.file) /\ pc' = "classify"
  /\ UNCHANGED <<program, i, classifierResult, errorCount>>

\* One turn of the loop over the rows to test.  With fewer than k rows to train
\* with, the index of a neighbour is out of range.
Classify ==
  /\ pc = "classify" /\ i < Len(data.test)
  /\ IF Len(data.train) < k
     THEN pc' = "raised" /\ UNCHANGED <<i, classifierResult, errorCount>>
     ELSE /\ classifierResult' \in Classify0(data.test[i + 1].x, data.train, data.ranges)
          /\ errorCount' = errorCount + IF classifierResult' # data.test[i + 1].label THEN 1 ELSE 0
          /\ i' = i + 1
          /\ UNCHANGED pc
  /\ UNCHANGED <<program, data>>

\* The error rate: without a row to test it is a division by zero.
Report ==
  /\ pc = "classify" /\ i = Len(data.test)
  /\ pc' = IF i = 0 THEN "raised" ELSE "returned"
  /\ UNCHANGED <<program, data, i, classifierResult, errorCount>>

Next == Load \/ Classify \/ Report

Spec == Init /\ [][Next]_vars

-----------------------------------------------------------------------------
IsDating == "file" \in DOMAIN program /\ pc # "load" /\ program.file # <<>>

\* What may be answered for row n of a file.
Answers(file, n) ==
  LET d == Dating(file) IN Classify0(d.test[n].x, d.train, d.ranges)

Measured(file, f, factor, offset) ==
  [n \in DOMAIN file |-> [file[n] EXCEPT ![f] = factor * @ + offset]]

\* With normalised rows the answer does not depend on the unit or the origin
\* that a feature is measured with.
UnitFree ==
  IsDating /\ i < Len(data.test) /\ Len(data.train) >= k =>
    \A f \in 1 .. 3, factor \in Scales, offset \in {-1, 0, 5} :
      Answers(Measured(program.file, f, factor, offset), i + 1) = Answers(program.file, i + 1)

\* The answer for a row does not depend on the class that the file has for it:
\* no row is among those it is compared with.
OwnClassUnused ==
  IsDating /\ i < Len(data.test) /\ Len(data.train) >= k =>
    \A line \in ToSet(program.file) :
      LET relabelled == [program.file EXCEPT ![i + 1][4] = line[4]]
      IN  Answers(relabelled, i + 1) = Answers(program.file, i + 1)

\* A row is nearer than another whatever the units: in no feature further away.
Nearer(inX, row, other) ==
  LET Gap(y, f) == IF y.x[f] < inX[f] THEN inX[f] - y.x[f] ELSE y.x[f] - inX[f]
  IN  /\ \A f \in DOMAIN inX : Gap(row, f) <= Gap(other, f)
      /\ \E f \in DOMAIN inX : Gap(row, f) < Gap(other, f)

\* When most of k rows of one class are nearer than every row of other classes,
\* that class is the answer; unless a column is constant, when anything may be.
NearRowsWin ==
  i > 0 /\ ~IsNan(data.ranges) =>
    \A c \in {row.label : row \in ToSet(data.train)} :
      LET inX == data.test[i].x
          Beats(row) == \A other \in ToSet(data.train) :
                          other.label # c => Nearer(inX, row, other)
          near == {n \in DOMAIN data.train : data.train[n].label = c /\ Beats(data.train[n])}
      IN  2 * Cardinality(near) > k => classifierResult = c

\* Only files that are too small end a test with an error.
RaisesOnlyWhenSmall ==
  pc = "raised" =>
    IF "file" \in DOMAIN program THEN Len(program.file) < 2 * k - 1
    ELSE Len(program.train) < k \/ program.test = <<>>
=============================================================================
