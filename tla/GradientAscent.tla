--------------------------- MODULE GradientAscent ---------------------------
(***************************************************************************)
(* The three ascents of examples/mlia/src/lr/logRegres.py, and colicTest   *)
(* with the multiTest that repeats it.                                     *)
(*                                                                         *)
(* Weights begin as ones and change by updates; they are kept as the       *)
(* sequence of these, each with the rows it is computed from and its step  *)
(* size.  What a vector is classified as, from weights that are real       *)
(* numbers, is left open.  Rows are numbered from 0.                       *)
(***************************************************************************)
EXTENDS Integers, FiniteSets, SequencesExt

CONSTANT Jobs   \* what is run: [routine, m rows, rounds, tests, lines to test with]

Routines == {"gradAscent", "stocGradAscent0", "stocGradAscent1", "multiTest"}

ASSUME JobsAssumption ==
  Jobs \subseteq [routine : Routines, m : Nat \ {0}, rounds : Nat \ {0}, tests : Nat \ {0}, lines : Nat]

VARIABLES job,
          stage,        \* "start", "ascend", "test", "returned" or "raised"
          j, i,         \* the loop variables of the ascent
          dataIndex,    \* what is left of range(m)
          weights,      \* the updates since they were ones
          numTestVec, errorCount,
          errorRates    \* what each colicTest has returned, as <<errors, lines>>

ascentVars == <<j, i, dataIndex, weights>>
testVars == <<numTestVec, errorCount, errorRates>>
allVars == <<job, stage, ascentVars, testVars>>

Rows == 0 .. job.m - 1

AscentInit ==
  /\ job \in Jobs
  /\ stage = "start"
  /\ j = 0 /\ i = 0
  /\ dataIndex = <<>>
  /\ weights = <<>>
  /\ numTestVec = 0 /\ errorCount = 0
  /\ errorRates = <<>>

\* range(m).
AllIndices == [n \in 1 .. job.m |-> n - 1]

\* A faulty variant: each test goes on with the weights of the one before.
Ones_Kept == weights

Ones == <<>>

\* The ascent is called; for multiTest by a colicTest that has read its file.
Start ==
  /\ stage = "start"
  /\ weights' = Ones
  /\ j' = 0 /\ i' = 0
  /\ dataIndex' = AllIndices
  /\ numTestVec' = 0 /\ errorCount' = 0
  /\ stage' = "ascend"
  /\ UNCHANGED <<job, errorRates>>

-----------------------------------------------------------------------------
Update(rows, alpha) == weights' = Append(weights, [rows |-> rows, alpha |-> alpha])

\* One cycle over the whole matrix, alpha = 0.001.
GradAscent ==
  /\ stage = "ascend" /\ job.routine = "gradAscent" /\ j < job.rounds
  /\ Update(Rows, <<1, 1000>>)
  /\ j' = j + 1
  /\ UNCHANGED <<job, stage, i, dataIndex, testVars>>

\* One row after the other, alpha = 0.01.
StocGradAscent0 ==
  /\ stage = "ascend" /\ job.routine = "stocGradAscent0" /\ i < job.m
  /\ Update({i}, <<1, 100>>)
  /\ i' = i + 1
  /\ UNCHANGED <<job, stage, j, dataIndex, testVars>>

\* A faulty variant: alpha is set once for each turn of the outer loop.
Alpha_OfEpoch == <<40000 + 1 + j, 10000 * (1 + j)>>

\* 4/(1.0+j+i)+0.0001
Alpha == <<40000 + 1 + j + i, 10000 * (1 + j + i)>>

\* A faulty variant: the length itself may be drawn.
RandIndices_Inclusive == 0 .. Len(dataIndex)

\* int(random.uniform(0,len(dataIndex)))
RandIndices == 0 .. Len(dataIndex) - 1

\* One turn of the inner loop.  The number that is drawn is a position in what is
\* left of dataIndex, and it is used as the number of a row.
StocGradAscent1 ==
  /\ stage = "ascend" /\ job.routine \in {"stocGradAscent1", "multiTest"} /\ j < job.rounds
  /\ \E randIndex \in RandIndices :
       /\ Update({randIndex}, Alpha)
       /\ dataIndex' = IF i + 1 = job.m THEN AllIndices ELSE RemoveAt(dataIndex, randIndex + 1)
  /\ i' = (i + 1) % job.m
  /\ j' = IF i + 1 = job.m THEN j + 1 ELSE j
  /\ UNCHANGED <<job, stage, testVars>>

\* The weights are returned.
Ascended ==
  /\ stage = "ascend"
  /\ IF job.routine = "stocGradAscent0" THEN i = job.m ELSE j = job.rounds
  /\ stage' = IF job.routine = "multiTest" THEN "test" ELSE "returned"
  /\ UNCHANGED <<job, ascentVars, testVars>>

-----------------------------------------------------------------------------
\* One line of the test file is classified, rightly or wrongly.
ClassifyVector ==
  /\ stage = "test" /\ numTestVec < job.lines
  /\ numTestVec' = numTestVec + 1
  /\ errorCount' \in {errorCount, errorCount + 1}
  /\ UNCHANGED <<job, stage, ascentVars, errorRates>>

\* colicTest returns its rate, a division by zero without lines, and multiTest
\* goes on to its next test.
EndOfColicTest ==
  /\ stage = "test" /\ numTestVec = job.lines
  /\ IF numTestVec = 0 THEN stage' = "raised" /\ UNCHANGED errorRates
     ELSE /\ errorRates' = Append(errorRates, <<errorCount, numTestVec>>)
          /\ stage' = IF Len(errorRates') = job.tests THEN "returned" ELSE "start"
  /\ UNCHANGED <<job, ascentVars, numTestVec, errorCount>>

AscentNext ==
  \/ Start \/ GradAscent \/ StocGradAscent0 \/ StocGradAscent1 \/ Ascended
  \/ ClassifyVector \/ EndOfColicTest

AscentSpec == AscentInit /\ [][AscentNext]_allVars

-----------------------------------------------------------------------------
\* The weights that are returned, and those a colicTest tests with, were changed
\* exactly as often as its own loops say: no update is left out, and none is
\* carried over from an earlier test.
UpdatesExact ==
  stage \in {"test", "returned"} =>
    Len(weights) = CASE job.routine = "gradAscent" -> job.rounds
                     [] job.routine = "stocGradAscent0" -> job.m
                     [] OTHER -> job.rounds * job.m

IsRandom == job.routine \in {"stocGradAscent1", "multiTest"}

\* Update n of the epoch, the turn of the outer loop, that begins after base.
Epochs == {base \in 0 .. Len(weights) : base % job.m = 0}
OfEpoch(base) == {n \in DOMAIN weights : n > base /\ n <= base + job.m}

\* A turn of the outer loop uses the last row at most once, the last two at most
\* twice, and so on; it may well use the first row every time.
LateRowsRare ==
  IsRandom =>
    \A base \in Epochs, r \in Rows :
      Cardinality({n \in OfEpoch(base) : weights[n].rows \cap (r .. job.m - 1) # {}}) <= job.m - r

Smaller(a, b) == a[1] * b[2] < b[1] * a[2]

\* Steps get smaller within a turn of the outer loop, and from one turn to the
\* next at the same place; they do grow when a turn begins.
StepsFall ==
  IsRandom =>
    \A n, later \in DOMAIN weights :
      (later = n + 1 /\ n % job.m # 0) \/ later = n + job.m
      => Smaller(weights[later].alpha, weights[n].alpha)
=============================================================================
