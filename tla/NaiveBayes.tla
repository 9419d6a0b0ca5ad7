----------------------------- MODULE NaiveBayes -----------------------------
(***************************************************************************)
(* testingNB, spamTest and localWords of examples/mlia/src/bayes/bayes.py: *)
(* documents of the two classes are listed in turn, some are drawn for a   *)
(* test set (none by testingNB), trainNB0 is trained with the others, and  *)
(* those drawn are classified (two other entries by testingNB).            *)
(*                                                                         *)
(* A document is a sequence of words.  Probabilities are kept as the       *)
(* counts that trainNB0 divides, and classifyNB compares products of       *)
(* fractions where the code compares sums of their logarithms; a tie, and  *)
(* only a tie, is left to rounding.                                        *)
(***************************************************************************)
EXTENDS Naturals, FiniteSets, SequencesExt, FiniteSetsExt, Functions, Products

CONSTANTS Words,        \* the words of documents and entries
          Jobs,         \* the programs that may be run, with their documents
          HoldOut,      \* program -> how many documents are drawn
          TopWords      \* how many frequent words localWords removes

\* A job names the program and holds the documents of class 1 and of class 0,
\* mails of two folders or entries of two feeds; testingNB has entries to test.
ASSUME JobsAssumption ==
  \A job \in Jobs :
    /\ job.program \in {"testingNB", "spamTest", "localWords"}
    /\ job.ones \in Seq(Seq(Words)) /\ job.zeros \in Seq(Seq(Words))
    /\ job.program = "testingNB" => job.entries \in Seq(Seq(Words))
    /\ HoldOut[job.program] \in (IF job.program = "testingNB" THEN {0} ELSE Nat \ {0})
ASSUME TopWordsAssumption == TopWords \in Nat

VARIABLES job,          \* what is run
          vocabList,    \* the words that are counted
          pc,           \* what happens next
          trainingSet,  \* numbers of documents
          testSet,      \* numbers of documents
          trained,      \* how many documents of trainingSet trainNB0 has added
          pNum,         \* class -> word -> p0Num, p1Num
          pDenom,       \* class -> p0Denom, p1Denom
          verdicts      \* what classifyNB has answered, in order

countVars == <<trained, pNum, pDenom>>
vars == <<job, vocabList, pc, trainingSet, testSet, countVars, verdicts>>

\* One document of each class in turn, while both have another: testingNB lists
\* class 0 first, the others class 1.
docList ==
  LET n == IF Len(job.ones) < Len(job.zeros) THEN Len(job.ones) ELSE Len(job.zeros)
      odd == IF job.program = "testingNB" THEN job.zeros ELSE job.ones
      even == IF job.program = "testingNB" THEN job.ones ELSE job.zeros
  IN  [d \in 1 .. 2 * n |-> IF d % 2 = 1 THEN odd[(d + 1) \div 2] ELSE even[d \div 2]]

Docs == DOMAIN docList
ClassOf(d) == IF job.program = "testingNB" THEN (d + 1) % 2 ELSE d % 2

WordsOf(docs) == UNION {ToSet(docs[d]) : d \in DOMAIN docs}

Init ==
  /\ job \in Jobs
  /\ vocabList = {}
  /\ pc = "vocabulary"
  /\ trainingSet = [d \in Docs |-> d]
  /\ testSet = <<>>
  /\ trained = 0
  /\ pNum = [c \in {0, 1} |-> [w \in {} |-> 1]]
  /\ pDenom = [c \in {0, 1} |-> 2]
  /\ verdicts = <<>>

-----------------------------------------------------------------------------
Occurrences(w, doc) == Cardinality({i \in DOMAIN doc : doc[i] = w})

\* setOfWords2Vec tells which words of the vocabulary are in a document,
\* bagOfWords2VecMN how often; both ignore the words that are not in it.
WordVector(doc) ==
  [w \in vocabList |-> IF job.program # "testingNB" THEN Occurrences(w, doc)
                       ELSE IF w \in ToSet(doc) THEN 1 ELSE 0]

\* Sets of words that calcMostFreq may put first; ties are in any order.
MostFrequent(vocab) ==
  LET Frequency(w) == SumFunction([d \in Docs |-> Occurrences(w, docList[d])])
      n == IF Cardinality(vocab) < TopWords THEN Cardinality(vocab) ELSE TopWords
  IN  {top \in kSubset(n, vocab) :
         \A w \in top : \A v \in vocab \ top : Frequency(v) <= Frequency(w)}

\* createVocabList, less the top words in localWords; the counts of
\* trainNB0 start from ones.
CreateVocabList ==
  /\ pc = "vocabulary"
  /\ LET words == WordsOf(docList)
     IN  IF job.program = "localWords"
         THEN \E top \in MostFrequent(words) : vocabList' = words \ top
         ELSE vocabList' = words
  /\ pNum' = [c \in {0, 1} |-> [w \in vocabList' |-> 1]]
  /\ pc' = "draw"
  /\ UNCHANGED <<job, trainingSet, testSet, trained, pDenom, verdicts>>

\* Faulty variants: the index that was drawn is taken for the document; it is
\* drawn up to the length, inclusive, and may be out of range.
Drawn_Index(randIndex) == randIndex
OutOfRange_Inclusive == TRUE

Drawn(randIndex) == trainingSet[randIndex]

\* uniform(0, 0) is index 0 of an empty list.
OutOfRange == trainingSet = <<>>

Raise ==
  /\ pc' = "raised"
  /\ UNCHANGED <<job, vocabList, trainingSet, testSet, countVars, verdicts>>

\* One document is moved to the test set.
Draw ==
  /\ pc = "draw" /\ Len(testSet) < HoldOut[job.program]
  /\ \/ OutOfRange /\ Raise
     \/ \E randIndex \in DOMAIN trainingSet :
          /\ testSet' = Append(testSet, Drawn(randIndex))
          /\ trainingSet' = RemoveAt(trainingSet, randIndex)
          /\ UNCHANGED <<job, vocabList, pc, countVars, verdicts>>

\* trainNB0 begins; it reads the length of the first row, which must exist.
BeginTraining ==
  /\ pc = "draw" /\ Len(testSet) >= HoldOut[job.program]
  /\ \/ trainingSet = <<>> /\ Raise
     \/ /\ trainingSet # <<>>
        /\ pc' = "train"
        /\ UNCHANGED <<job, vocabList, trainingSet, testSet, countVars, verdicts>>

\* A faulty variant: the denominator counts each word of the document once.
Total_Distinct(row) == Cardinality({w \in DOMAIN row : row[w] > 0})

Total(row) == SumFunction(row)

\* One round of the loop of trainNB0: a row is added to the counts of its class.
TrainNB0 ==
  /\ pc = "train" /\ trained < Len(trainingSet)
  /\ LET d == trainingSet[trained + 1]
         row == WordVector(docList[d])
     IN  /\ pNum' = [pNum EXCEPT ![ClassOf(d)] = [w \in vocabList |-> @[w] + row[w]]]
         /\ pDenom' = [pDenom EXCEPT ![ClassOf(d)] = @ + Total(row)]
  /\ trained' = trained + 1
  /\ UNCHANGED <<job, vocabList, pc, trainingSet, testSet, verdicts>>

EndTraining ==
  /\ pc = "train" /\ trained = Len(trainingSet)
  /\ pc' = "classify"
  /\ UNCHANGED <<job, vocabList, trainingSet, testSet, countVars, verdicts>>

-----------------------------------------------------------------------------
\* The documents to classify: those drawn, or the entries of testingNB.
Unseen ==
  IF job.program = "testingNB" THEN job.entries
  ELSE [i \in DOMAIN testSet |-> docList[testSet[i]]]

\* A faulty variant: the logarithm of the prior is not added.
Prior_Flat(c) == 1

\* The rows of a class among the training rows: pClass1 is the quotient of
\* Prior(1) by all of them.
Prior(c) == Cardinality({i \in DOMAIN trainingSet : ClassOf(trainingSet[i]) = c})

\* The likelihood of a row in class c, times both denominators to the power of
\* the number of words.
Likelihood(c, row) ==
  Product([w \in DOMAIN row |-> Power(pNum[c][w], row[w])], DOMAIN row)
  * Power(pDenom[1 - c], SumFunction(row)) * Prior(c)

\* p1 > p0, or a tie that rounding decides; with one class only, the logarithm
\* of 0 is minus infinity and the other class wins.
ClassifyNB ==
  /\ pc = "classify" /\ Len(verdicts) < Len(Unseen)
  /\ LET row == WordVector(Unseen[Len(verdicts) + 1])
     IN  \E verdict \in {0, 1} :
           /\ Likelihood(verdict, row) >= Likelihood(1 - verdict, row)
           /\ verdicts' = Append(verdicts, verdict)
  /\ pc' = IF Len(verdicts') = Len(Unseen) THEN "returned" ELSE "classify"
  /\ UNCHANGED <<job, vocabList, trainingSet, testSet, countVars>>

Next ==
  \/ CreateVocabList \/ Draw \/ BeginTraining \/ TrainNB0 \/ EndTraining \/ ClassifyNB

Spec == Init /\ [][Next]_vars

-----------------------------------------------------------------------------
\* However the documents are drawn, each is in the training set or in the test
\* set, once: the classifier is never tested with a document it was trained with.
SplitIsPartition ==
  /\ ToSet(trainingSet) \cup ToSet(testSet) = Docs
  /\ Len(trainingSet) + Len(testSet) = Len(docList)

\* The counts of a class are those of its training documents that were added so
\* far and of the words that were kept, each once per document in testingNB; the
\* denominator agrees with them.
CountsExact ==
  pc \in {"train", "classify", "returned"} =>
    \A c \in {0, 1} :
      LET added == {i \in 1 .. trained : ClassOf(trainingSet[i]) = c}
          With(w) == {i \in added : w \in ToSet(docList[trainingSet[i]])}
          Times(w) == IF job.program = "testingNB" THEN Cardinality(With(w))
                      ELSE SumFunction([i \in added |-> Occurrences(w, docList[trainingSet[i]])])
      IN  /\ \A w \in vocabList : pNum[c][w] = 1 + Times(w)
          /\ pDenom[c] = 2 + SumFunction([w \in vocabList |-> Times(w)])

\* An index is out of range only if the documents do not outnumber the draws:
\* for localWords, if the shorter feed has at most half as many entries.
RaisesOnlyWhenShort ==
  pc = "raised" =>
    \/ 2 * Len(job.ones) <= HoldOut[job.program]
    \/ 2 * Len(job.zeros) <= HoldOut[job.program]

\* A draw may leave no training document of one class, so that its prior is zero
\* and has no logarithm: that class is then never the answer.
UntrainedNeverAnswered ==
  \A c \in {0, 1} :
    (\A d \in ToSet(trainingSet) : ClassOf(d) # c) => c \notin ToSet(verdicts)
=============================================================================
