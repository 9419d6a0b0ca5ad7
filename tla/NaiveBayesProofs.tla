-------------------------- MODULE NaiveBayesProofs --------------------------
(***************************************************************************)
(* Proofs about the hold-out tests of bayes.py, for documents of every     *)
(* number and length and every number of draws.                            *)
(***************************************************************************)
EXTENDS NaiveBayes, DataLemmas

-----------------------------------------------------------------------------
(* The documents. *)

\* Two documents are listed for each that the shorter class has.
LEMMA DocListLength ==
  ASSUME job \in Jobs
  PROVE  \E n \in Nat :
           /\ n = Len(job.ones) \/ n = Len(job.zeros)
           /\ Docs = 1 .. 2 * n
           /\ Len(docList) = 2 * n
<1> DEFINE n == IF Len(job.ones) < Len(job.zeros) THEN Len(job.ones) ELSE Len(job.zeros)
<1>1. n \in Nat /\ 2 * n \in Nat
  BY JobsAssumption, LenProperties
<1>2. DOMAIN docList = 1 .. 2 * n
  BY DEF docList
<1>3. docList = [d \in 1 .. 2 * n |-> docList[d]]
  BY DEF docList
<1> HIDE DEF n
<1>4. Len(docList) = 2 * n
  BY <1>1, <1>2, <1>3
<1> QED
  BY <1>1, <1>2, <1>4 DEF n, Docs

-----------------------------------------------------------------------------
(* The inductive invariant. *)

\* No document is listed twice, in one of the sets or in both.
Disjoint ==
  /\ \A a, b \in DOMAIN trainingSet : trainingSet[a] = trainingSet[b] => a = b
  /\ \A a, b \in DOMAIN testSet : testSet[a] = testSet[b] => a = b
  /\ \A a \in DOMAIN trainingSet, b \in DOMAIN testSet : trainingSet[a] # testSet[b]

\* What is drawn stops at the number asked for, and raises with nothing left.
Draws ==
  /\ Len(testSet) <= HoldOut[job.program]
  /\ pc = "raised" => trainingSet = <<>>

IndInv ==
  /\ job \in Jobs
  /\ trainingSet \in Seq(Docs) /\ testSet \in Seq(Docs)
  /\ SplitIsPartition
  /\ Disjoint
  /\ Draws

\* The number of documents to hold out is a number.
LEMMA HoldOutType == ASSUME job \in Jobs PROVE HoldOut[job.program] \in Nat
BY JobsAssumption

\* At first every document is in the training set.
LEMMA InitIndInv == Init => IndInv
<1> SUFFICES ASSUME Init PROVE IndInv
  OBVIOUS
<1>1. job \in Jobs /\ pc = "vocabulary" /\ trainingSet = [d \in Docs |-> d] /\ testSet = <<>>
  BY DEF Init
<1>2. PICK n \in Nat : Docs = 1 .. 2 * n /\ Len(docList) = 2 * n
  BY <1>1, DocListLength
<1>3. trainingSet \in Seq(Docs) /\ Len(trainingSet) = 2 * n /\ DOMAIN trainingSet = Docs
  <2>1. 2 * n \in Nat
    OBVIOUS
  <2>2. trainingSet \in [1 .. 2 * n -> Docs]
    BY <1>1, <1>2
  <2>3. trainingSet \in Seq(Docs)
    BY <2>1, <2>2, SeqDef
  <2> QED
    BY <1>2, <2>1, <2>2, <2>3, LenProperties
<1>4. testSet \in Seq(Docs) /\ Len(testSet) = 0 /\ DOMAIN testSet = {}
  BY <1>1
<1>5. SplitIsPartition
  <2>1. ToSet(trainingSet) = Docs /\ ToSet(testSet) = {}
    BY <1>1, <1>3, <1>4 DEF ToSet
  <2> QED
    BY <1>2, <1>3, <1>4, <2>1 DEF SplitIsPartition
<1>6. Disjoint
  BY <1>1, <1>3, <1>4 DEF Disjoint
<1>7. Draws
  BY <1>1, <1>4, HoldOutType DEF Draws
<1> QED
  BY <1>1, <1>3, <1>4, <1>5, <1>6, <1>7 DEF IndInv

\* A document that is drawn changes sides.
LEMMA DrawIndInv ==
  ASSUME IndInv, NEW randIndex \in DOMAIN trainingSet,
         testSet' = Append(testSet, Drawn(randIndex)),
         trainingSet' = RemoveAt(trainingSet, randIndex),
         Len(testSet) < HoldOut[job.program],
         job' = job, pc' = pc, pc = "draw"
  PROVE  IndInv'
<1> DEFINE d == trainingSet[randIndex]
           m == Len(trainingSet)
           k == Len(testSet)
<1>1. /\ job \in Jobs /\ trainingSet \in Seq(Docs) /\ testSet \in Seq(Docs)
      /\ m \in Nat /\ k \in Nat /\ DOMAIN trainingSet = 1 .. m /\ DOMAIN testSet = 1 .. k
      /\ randIndex \in 1 .. m
  BY DEF IndInv
<1>2. d \in Docs
  BY <1>1
<1> HIDE DEF m
<1>3. /\ trainingSet' \in Seq(Docs)
      /\ Len(trainingSet') = m - 1
      /\ DOMAIN trainingSet' = 1 .. m - 1
      /\ \A n \in 1 .. m - 1 : trainingSet'[n] = IF n < randIndex THEN trainingSet[n] ELSE trainingSet[n + 1]
  <2> DEFINE rest == RemoveAt(trainingSet, randIndex)
  <2>1. /\ rest \in Seq(Docs)
        /\ Len(rest) = m - 1
        /\ \A n \in 1 .. m - 1 : rest[n] = IF n < randIndex THEN trainingSet[n] ELSE trainingSet[n + 1]
    BY <1>1, RemoveAtProperties, Zenon DEF m
  <2> HIDE DEF rest
  <2>2. DOMAIN rest = 1 .. m - 1
    BY <2>1, LenProperties
  <2>3. trainingSet' = rest
    BY DEF rest
  <2>4. DOMAIN trainingSet' = 1 .. m - 1 /\ trainingSet' \in Seq(Docs) /\ Len(trainingSet') = m - 1
    BY <2>1, <2>2, <2>3, Zenon
  <2>5. \A n \in 1 .. m - 1 : trainingSet'[n] = rest[n]
    BY <2>3
  <2>6. \A n \in 1 .. m - 1 : trainingSet'[n] = IF n < randIndex THEN trainingSet[n] ELSE trainingSet[n + 1]
    BY <2>1, <2>5, Zenon
  <2> QED
    BY <2>4, <2>6, SMT
<1>4. /\ testSet' \in Seq(Docs)
      /\ Len(testSet') = k + 1
      /\ DOMAIN testSet' = 1 .. k + 1
      /\ testSet'[k + 1] = d
      /\ \A n \in 1 .. k : testSet'[n] = testSet[n]
  BY <1>1, <1>2, AppendProperties DEF Drawn
<1>5. Docs' = Docs /\ docList' = docList
  BY DEF Docs, docList
<1> HIDE DEF d, k
<1>6. \A n \in 1 .. m : n = randIndex \/ \E a \in 1 .. m - 1 : trainingSet'[a] = trainingSet[n]
  <2> SUFFICES ASSUME NEW n \in 1 .. m, n # randIndex
               PROVE  \E a \in 1 .. m - 1 : trainingSet'[a] = trainingSet[n]
    OBVIOUS
  <2>1. CASE n < randIndex
    BY <1>1, <1>3, <2>1
  <2>2. CASE n > randIndex
    <3>1. n - 1 \in 1 .. m - 1 /\ ~ (n - 1 < randIndex) /\ (n - 1) + 1 = n
      BY <1>1, <2>2
    <3> QED
      BY <1>3, <3>1
  <2> QED
    BY <1>1, <2>1, <2>2
\* The place a document had before the draw.
<1> DEFINE At(n) == IF n < randIndex THEN n ELSE n + 1
<1>7. \A n \in 1 .. m - 1 :
        /\ At(n) \in 1 .. m /\ At(n) # randIndex
        /\ trainingSet'[n] = trainingSet[At(n)]
  BY <1>1, <1>3
<1>8. \A a, b \in 1 .. m - 1 : At(a) = At(b) => a = b
  BY <1>1
<1> HIDE DEF At
<1>9. SplitIsPartition'
  <2>1. ToSet(trainingSet) \cup ToSet(testSet) = Docs /\ m + k = Len(docList)
    BY DEF IndInv, SplitIsPartition, m, k
  <2>2. Docs \subseteq ToSet(trainingSet') \cup ToSet(testSet')
    <3> SUFFICES ASSUME NEW x \in Docs PROVE x \in ToSet(trainingSet') \cup ToSet(testSet')
      OBVIOUS
    <3>1. CASE x \in ToSet(trainingSet)
      <4>1. PICK n \in 1 .. m : x = trainingSet[n]
        BY <1>1, <3>1 DEF ToSet
      <4>2. CASE n = randIndex
        <5>1. x = testSet'[k + 1] /\ k + 1 \in DOMAIN testSet'
          BY <1>1, <1>4, <4>1, <4>2 DEF d
        <5> QED
          BY <5>1 DEF ToSet
      <4>3. CASE n # randIndex
        BY <1>3, <1>6, <4>1, <4>3 DEF ToSet
      <4> QED
        BY <4>2, <4>3
    <3>2. CASE x \in ToSet(testSet)
      <4>1. PICK n \in 1 .. k : x = testSet[n]
        BY <1>1, <3>2 DEF ToSet
      <4>2. x = testSet'[n] /\ n \in DOMAIN testSet'
        BY <1>1, <1>4, <4>1
      <4> QED
        BY <4>2 DEF ToSet
    <3> QED
      BY <2>1, <3>1, <3>2
  <2>3. ToSet(trainingSet') \cup ToSet(testSet') \subseteq Docs
    BY <1>3, <1>4, ElementOfSeq DEF ToSet
  <2>4. (m - 1) + (k + 1) = m + k
    BY <1>1
  <2> QED
    BY <1>3, <1>4, <1>5, <2>1, <2>2, <2>3, <2>4 DEF SplitIsPartition
<1>10. Disjoint'
  <2>1. /\ \A a, b \in 1 .. m : trainingSet[a] = trainingSet[b] => a = b
        /\ \A a, b \in 1 .. k : testSet[a] = testSet[b] => a = b
        /\ \A a \in 1 .. m, b \in 1 .. k : trainingSet[a] # testSet[b]
    BY <1>1 DEF IndInv, Disjoint
  <2>2. ASSUME NEW a \in 1 .. m - 1, NEW b \in 1 .. m - 1, trainingSet'[a] = trainingSet'[b]
        PROVE  a = b
    BY <1>7, <1>8, <2>1, <2>2
  <2>3. ASSUME NEW b \in 1 .. k PROVE testSet'[b] # testSet'[k + 1]
    BY <1>1, <1>4, <2>1, <2>3 DEF d
  <2>4. ASSUME NEW a \in 1 .. k + 1, NEW b \in 1 .. k + 1, testSet'[a] = testSet'[b]
        PROVE  a = b
    <3>1. (a \in 1 .. k \/ a = k + 1) /\ (b \in 1 .. k \/ b = k + 1)
      BY <1>1
    <3> QED
      BY <3>1, <1>4, <2>1, <2>3, <2>4
  <2>5. ASSUME NEW a \in 1 .. m - 1, NEW b \in 1 .. k + 1 PROVE trainingSet'[a] # testSet'[b]
    <3>1. b \in 1 .. k \/ b = k + 1
      BY <1>1
    <3>2. CASE b \in 1 .. k
      BY <1>4, <1>7, <2>1, <3>2
    <3>3. CASE b = k + 1
      BY <1>1, <1>4, <1>7, <2>1, <3>3 DEF d
    <3> QED
      BY <3>1, <3>2, <3>3
  <2> QED
    BY <1>3, <1>4, <2>2, <2>4, <2>5 DEF Disjoint
<1>11. Draws'
  <2>1. k < HoldOut[job.program] /\ HoldOut[job.program] \in Nat
    BY <1>1, HoldOutType DEF k
  <2> QED
    BY <1>1, <1>4, <2>1 DEF Draws
<1> QED
  BY <1>1, <1>3, <1>4, <1>5, <1>9, <1>10, <1>11 DEF IndInv

\* No other action touches the two sets.
LEMMA SplitUnchanged ==
  ASSUME IndInv, UNCHANGED <<job, trainingSet, testSet>>,
         pc' = "raised" => trainingSet = <<>>
  PROVE  IndInv'
<1>1. Docs' = Docs /\ docList' = docList
  BY DEF Docs, docList
<1> QED
  BY <1>1 DEF IndInv, SplitIsPartition, Disjoint, Draws

\* Each document is in exactly one of the two sets, and each at one place.
LEMMA IndInvHolds == Spec => []IndInv
<1>1. Init => IndInv
  BY InitIndInv
<1>2. IndInv /\ [Next]_vars => IndInv'
  <2> SUFFICES ASSUME IndInv, [Next]_vars PROVE IndInv'
    OBVIOUS
  <2>1. CASE CreateVocabList
    BY <2>1, SplitUnchanged DEF CreateVocabList
  <2>2. CASE Draw
    <3>1. CASE OutOfRange /\ Raise
      BY <3>1, SplitUnchanged DEF OutOfRange, Raise
    <3>2. ASSUME NEW randIndex \in DOMAIN trainingSet,
                 /\ testSet' = Append(testSet, Drawn(randIndex))
                 /\ trainingSet' = RemoveAt(trainingSet, randIndex)
                 /\ UNCHANGED <<job, vocabList, pc, countVars, verdicts>>
          PROVE  IndInv'
      BY <2>2, <3>2, DrawIndInv DEF Draw
    <3> QED
      BY <2>2, <3>1, <3>2 DEF Draw
  <2>3. CASE BeginTraining
    BY <2>3, SplitUnchanged DEF BeginTraining, Raise
  <2>4. CASE TrainNB0
    BY <2>4, SplitUnchanged DEF TrainNB0, IndInv, Draws
  <2>5. CASE EndTraining
    BY <2>5, SplitUnchanged DEF EndTraining
  <2>6. CASE ClassifyNB
    <3>1. pc' # "raised"
      BY <2>6 DEF ClassifyNB
    <3> QED
      BY <2>6, <3>1, SplitUnchanged DEF ClassifyNB
  <2>7. CASE UNCHANGED vars
    BY <2>7, SplitUnchanged DEF vars, IndInv, Draws
  <2> QED
    BY <2>1, <2>2, <2>3, <2>4, <2>5, <2>6, <2>7 DEF Next
<1> QED
  BY <1>1, <1>2, PTL DEF Spec

-----------------------------------------------------------------------------
(* What it implies. *)

\* The documents are split, however they are drawn.
THEOREM SplitsArePartitions == Spec => []SplitIsPartition
<1>1. IndInv => SplitIsPartition
  BY DEF IndInv
<1> QED
  BY <1>1, IndInvHolds, PTL

\* Stronger than what the run checks by counting: no document is in both sets,
\* and none twice in one.
THEOREM NeverTestedOnTraining == Spec => []Disjoint
<1>1. IndInv => Disjoint
  BY DEF IndInv
<1> QED
  BY <1>1, IndInvHolds, PTL

\* An index is out of range only when the draws use up all documents.
THEOREM RaisesOnlyWhenDrawnOut == Spec => []RaisesOnlyWhenShort
<1>1. IndInv => RaisesOnlyWhenShort
  <2> SUFFICES ASSUME IndInv, pc = "raised"
               PROVE  \/ 2 * Len(job.ones) <= HoldOut[job.program]
                      \/ 2 * Len(job.zeros) <= HoldOut[job.program]
    BY DEF RaisesOnlyWhenShort
  <2>1. PICK n \in Nat : (n = Len(job.ones) \/ n = Len(job.zeros)) /\ Len(docList) = 2 * n
    BY DocListLength DEF IndInv
  <2>2. Len(trainingSet) = 0 /\ Len(testSet) \in Nat
    BY DEF IndInv, Draws
  <2>3. 2 * n = Len(testSet)
    BY <2>1, <2>2 DEF IndInv, SplitIsPartition
  <2>4. Len(testSet) <= HoldOut[job.program]
    BY DEF IndInv, Draws
  <2> QED
    BY <2>1, <2>3, <2>4
<1> QED
  BY <1>1, IndInvHolds, PTL

-----------------------------------------------------------------------------
(* The counts.  The operators take what they read as parameters, so that   *)
(* the state before a step and the state after it are arguments of one.    *)

Class(program, d) == IF program = "testingNB" THEN (d + 1) % 2 ELSE d % 2

\* The places below t of the training documents ts that are of class c.
Added(program, ts, t, c) == {a \in 1 .. t : Class(program, ts[a]) = c}

\* What one document adds to the count of a word.
Adds(program, w, doc) ==
  IF program # "testingNB" THEN Occurrences(w, doc) ELSE IF w \in ToSet(doc) THEN 1 ELSE 0

Times(program, docs, ts, t, c, w) ==
  IF program = "testingNB"
  THEN Cardinality({a \in Added(program, ts, t, c) : w \in ToSet(docs[ts[a]])})
  ELSE SumFunction([a \in Added(program, ts, t, c) |-> Occurrences(w, docs[ts[a]])])

\* The counts num and denom of class c are those of the first t documents.
Counts(program, docs, ts, t, c, vocab, num, denom) ==
  /\ \A w \in vocab : num[w] = 1 + Times(program, docs, ts, t, c, w)
  /\ denom = 2 + SumFunction([w \in vocab |-> Times(program, docs, ts, t, c, w)])

\* Finitely many documents have been added to the counts of a class.
LEMMA AddedFinite ==
  ASSUME NEW program, NEW ts, NEW t \in Nat, NEW c
  PROVE  IsFiniteSet(Added(program, ts, t, c))
<1>1. IsFiniteSet(1 .. t)
  BY FS_Interval
<1> QED
  BY <1>1, FS_Subset DEF Added

\* How often a word occurs is a number.
LEMMA OccurrencesType ==
  ASSUME NEW doc \in Seq(Words), NEW w
  PROVE  Occurrences(w, doc) \in Nat
<1>1. IsFiniteSet(DOMAIN doc)
  BY FS_Interval, LenProperties
<1>2. IsFiniteSet({a \in DOMAIN doc : doc[a] = w})
  BY <1>1, FS_Subset
<1> QED
  BY <1>2, FS_CardinalityType DEF Occurrences

\* So is what a document adds to its count.
LEMMA AddsType ==
  ASSUME NEW program, NEW doc \in Seq(Words), NEW w
  PROVE  Adds(program, w, doc) \in Nat
BY OccurrencesType DEF Adds

\* Before the first document.
LEMMA TimesZero ==
  ASSUME NEW program, NEW docs, NEW ts, NEW c, NEW w
  PROVE  Times(program, docs, ts, 0, c, w) = 0
<1>1. Added(program, ts, 0, c) = {}
  BY DEF Added
<1>2. Cardinality({a \in {} : w \in ToSet(docs[ts[a]])}) = 0
  BY FS_EmptySet
<1>3. SumFunction([a \in {} |-> Occurrences(w, docs[ts[a]])]) = 0
  BY SumEmpty DEF SumFunction
<1> QED
  BY <1>1, <1>2, <1>3 DEF Times

\* So is what all the documents so far have added.
LEMMA TimesType ==
  ASSUME NEW program, NEW docs, NEW ts, NEW t \in Nat, NEW c, NEW w,
         \A a \in 1 .. t : docs[ts[a]] \in Seq(Words)
  PROVE  Times(program, docs, ts, t, c, w) \in Nat
<1> DEFINE A == Added(program, ts, t, c)
           f == [a \in A |-> Occurrences(w, docs[ts[a]])]
<1>1. IsFiniteSet(A) /\ A \subseteq 1 .. t
  <2>1. A \subseteq 1 .. t
    BY DEF Added
  <2> QED
    BY <2>1, AddedFinite
<1>2. Cardinality({a \in A : w \in ToSet(docs[ts[a]])}) \in Nat
  BY <1>1, FS_Subset, FS_CardinalityType
<1>3. \A a \in A : f[a] \in Nat
  BY <1>1, OccurrencesType
<1>4. SumFunctionOnSet(f, A) \in Nat
  <2> HIDE DEF f, A
  <2> QED
    BY <1>1, <1>3, SumType
<1>5. SumFunction(f) = SumFunctionOnSet(f, A)
  BY DEF SumFunction
<1> QED
  BY <1>2, <1>4, <1>5 DEF Times

\* One more document adds what it contains to the counts of its class.
LEMMA TimesStep ==
  ASSUME NEW program, NEW docs, NEW ts, NEW t \in Nat, NEW c, NEW w,
         \A a \in 1 .. t + 1 : docs[ts[a]] \in Seq(Words)
  PROVE  Times(program, docs, ts, t + 1, c, w) =
           Times(program, docs, ts, t, c, w)
           + (IF Class(program, ts[t + 1]) = c THEN Adds(program, w, docs[ts[t + 1]]) ELSE 0)
<1> DEFINE A == Added(program, ts, t, c)
           B == Added(program, ts, t + 1, c)
           With(X) == {a \in X : w \in ToSet(docs[ts[a]])}
           Freq(X) == [a \in X |-> Occurrences(w, docs[ts[a]])]
<1>1. IsFiniteSet(A) /\ IsFiniteSet(B) /\ A \subseteq 1 .. t /\ t + 1 \notin A
  <2>1. A \subseteq 1 .. t /\ t + 1 \notin 1 .. t
    BY DEF Added
  <2> QED
    BY <2>1, AddedFinite
<1>2. Times(program, docs, ts, t, c, w) \in Nat
  BY TimesType
<1>3. CASE Class(program, ts[t + 1]) # c
  <2>1. B = A
    BY <1>3 DEF Added
  <2>2. Times(program, docs, ts, t + 1, c, w) = Times(program, docs, ts, t, c, w)
    BY <2>1 DEF Times
  <2> QED
    BY <1>2, <1>3, <2>2
<1>4. CASE Class(program, ts[t + 1]) = c
  <2>1. B = A \cup {t + 1}
    BY <1>4 DEF Added
  <2>2. CASE program = "testingNB"
    <3>1. IsFiniteSet(With(A)) /\ t + 1 \notin With(A)
      BY <1>1, FS_Subset
    <3>2. CASE w \in ToSet(docs[ts[t + 1]])
      <4>1. With(B) = With(A) \cup {t + 1}
        BY <2>1, <3>2
      <4>2. Cardinality(With(B)) = Cardinality(With(A)) + 1
        <5> HIDE DEF With, A, B
        <5> QED
          BY <3>1, <4>1, FS_AddElement
      <4> QED
        BY <1>4, <2>2, <3>2, <4>2 DEF Times, Adds
    <3>3. CASE w \notin ToSet(docs[ts[t + 1]])
      <4>1. With(B) = With(A)
        BY <2>1, <3>3
      <4>2. Times(program, docs, ts, t + 1, c, w) = Times(program, docs, ts, t, c, w)
        BY <2>2, <4>1 DEF Times
      <4> QED
        BY <1>2, <1>4, <2>2, <3>3, <4>2 DEF Adds
    <3> QED
      BY <3>2, <3>3
  <2>3. CASE program # "testingNB"
    <3> DEFINE f == Freq(A)
               g == Freq(B)
    <3>1. \A a \in B : g[a] \in Nat /\ g[a] = Occurrences(w, docs[ts[a]])
      BY <1>1, <2>1, OccurrencesType
    <3>2. \A a \in A : f[a] \in Nat /\ g[a] = f[a]
      BY <2>1, <3>1
    <3>3. t + 1 \in B /\ B \ {t + 1} = A
      BY <1>1, <2>1
    <3>4. Times(program, docs, ts, t + 1, c, w) = SumFunctionOnSet(g, B)
      BY <2>3 DEF Times, SumFunction
    <3>5. Times(program, docs, ts, t, c, w) = SumFunctionOnSet(f, A)
      BY <2>3 DEF Times, SumFunction
    <3>6. Adds(program, w, docs[ts[t + 1]]) = g[t + 1] /\ g[t + 1] \in Nat
      BY <2>3, <3>1, <3>3 DEF Adds
    <3> HIDE DEF f, g, A, B
    <3>7. SumFunctionOnSet(g, B) = g[t + 1] + SumFunctionOnSet(g, A)
      BY <1>1, <3>1, <3>3, SumRemove
    <3>8. SumFunctionOnSet(g, A) = SumFunctionOnSet(f, A)
      BY <1>1, <3>2, SumEqual
    <3> QED
      BY <1>2, <1>4, <3>4, <3>5, <3>6, <3>7, <3>8
  <2> QED
    BY <2>2, <2>3
<1> QED
  BY <1>3, <1>4

\* Before the first document the counts are the ones and the twos of trainNB0.
LEMMA CountsZero ==
  ASSUME NEW program, NEW docs, NEW ts, NEW c, NEW vocab, NEW num, NEW denom, IsFiniteSet(vocab)
  PROVE  Counts(program, docs, ts, 0, c, vocab, num, denom)
           <=> (\A w \in vocab : num[w] = 1) /\ denom = 2
<1> DEFINE f == [w \in vocab |-> Times(program, docs, ts, 0, c, w)]
<1>1. \A w \in vocab : f[w] = 0 /\ 1 + Times(program, docs, ts, 0, c, w) = 1
  BY TimesZero
<1>2. SumFunction(f) = 0
  <2>1. SumFunction(f) = SumFunctionOnSet(f, vocab)
    BY DEF SumFunction
  <2> HIDE DEF f
  <2> QED
    BY <1>1, <2>1, SumZero
<1> QED
  BY <1>1, <1>2 DEF Counts

\* One turn of the loop of trainNB0 counts one document more.
LEMMA CountsStep ==
  ASSUME NEW program, NEW docs, NEW ts, NEW t \in Nat, NEW c, NEW vocab, NEW num, NEW denom,
         IsFiniteSet(vocab),
         \A a \in 1 .. t + 1 : docs[ts[a]] \in Seq(Words),
         Counts(program, docs, ts, t, c, vocab, num, denom),
         NEW row, row = [w \in vocab |-> Adds(program, w, docs[ts[t + 1]])]
  PROVE  Counts(program, docs, ts, t + 1, c, vocab,
                IF Class(program, ts[t + 1]) = c THEN [w \in vocab |-> num[w] + row[w]] ELSE num,
                IF Class(program, ts[t + 1]) = c THEN denom + SumFunction(row) ELSE denom)
<1> DEFINE T(w) == Times(program, docs, ts, t, c, w)
           U(w) == Times(program, docs, ts, t + 1, c, w)
           f == [w \in vocab |-> T(w)]
           h == [w \in vocab |-> U(w)]
<1>1. \A w : T(w) \in Nat
  BY TimesType
<1>2. /\ \A w \in vocab : num[w] = 1 + T(w)
      /\ denom = 2 + SumFunctionOnSet(f, vocab)
  BY DEF Counts, SumFunction
<1>3. SumFunctionOnSet(f, vocab) \in Nat
  <2>1. \A w \in vocab : f[w] \in Nat
    BY <1>1
  <2> HIDE DEF f
  <2> QED
    BY <2>1, SumType
<1>4. SumFunction(h) = SumFunctionOnSet(h, vocab)
  BY DEF SumFunction
<1>5. CASE Class(program, ts[t + 1]) = c
  <2>1. \A w : U(w) = T(w) + Adds(program, w, docs[ts[t + 1]])
    BY <1>5, TimesStep
  <2>2. \A w \in vocab : row[w] \in Nat /\ U(w) = T(w) + row[w]
    <3>1. docs[ts[t + 1]] \in Seq(Words)
      OBVIOUS
    <3> QED
      BY <2>1, <3>1, AddsType
  <2>3. SumFunction(row) = SumFunctionOnSet(row, vocab)
    BY DEF SumFunction
  <2>4. SumFunctionOnSet(h, vocab) = SumFunctionOnSet(f, vocab) + SumFunctionOnSet(row, vocab)
    <3>1. \A w \in vocab : f[w] \in Nat /\ row[w] \in Nat /\ h[w] = f[w] + row[w]
      BY <1>1, <2>2
    <3> HIDE DEF f, h
    <3> QED
      BY <3>1, SumPlus
  <2>5. SumFunctionOnSet(row, vocab) \in Nat
    BY <2>2, SumType
  <2>6. denom + SumFunction(row) = 2 + SumFunction(h)
    <3> HIDE DEF f, h
    <3> QED
      BY <1>2, <1>3, <1>4, <2>3, <2>4, <2>5
  <2>7. \A w \in vocab : num[w] + row[w] = 1 + U(w)
    <3> HIDE DEF T, U
    <3> QED
      BY <1>1, <1>2, <2>2
  <2> QED
    BY <1>5, <2>6, <2>7 DEF Counts
<1>6. CASE Class(program, ts[t + 1]) # c
  <2>1. \A w : U(w) = T(w)
    <3>1. \A w : U(w) = T(w) + 0
      BY <1>6, TimesStep
    <3> HIDE DEF T, U
    <3> QED
      BY <1>1, <3>1
  <2>2. h = f
    BY <2>1
  <2>3. denom = 2 + SumFunction(h)
    BY <1>2, <1>4, <2>2
  <2> QED
    BY <1>2, <1>6, <2>1, <2>3 DEF Counts
<1> QED
  BY <1>5, <1>6

-----------------------------------------------------------------------------
(* CountsExact, with what it needs. *)

CountInv ==
  /\ IsFiniteSet(vocabList)
  /\ trained \in Nat
  /\ pc \in {"vocabulary", "draw"} => trained = 0
  /\ DOMAIN pNum = {0, 1} /\ DOMAIN pDenom = {0, 1}
  /\ \A c \in {0, 1} :
       /\ Counts(job.program, docList, trainingSet, trained, c, vocabList, pNum[c], pDenom[c])
       /\ \A w \in vocabList : w \in DOMAIN pNum[c]

\* A document is a sequence of words.
LEMMA DocType ==
  ASSUME job \in Jobs, NEW d \in Docs
  PROVE  docList[d] \in Seq(Words) /\ d \in Nat
<1> DEFINE n == IF Len(job.ones) < Len(job.zeros) THEN Len(job.ones) ELSE Len(job.zeros)
<1>1. /\ job.ones \in Seq(Seq(Words)) /\ job.zeros \in Seq(Seq(Words))
      /\ Len(job.ones) \in Nat /\ Len(job.zeros) \in Nat
  BY JobsAssumption, LenProperties
<1>2. n \in Nat /\ n <= Len(job.ones) /\ n <= Len(job.zeros)
  BY <1>1
<1>3. d \in 1 .. 2 * n
  BY DEF Docs, docList
<1> HIDE DEF n
<1>4. CASE d % 2 = 1
  <2>1. (d + 1) \div 2 \in 1 .. Len(job.zeros) /\ (d + 1) \div 2 \in 1 .. Len(job.ones)
    BY <1>1, <1>2, <1>3, <1>4
  <2>2. docList[d] = IF job.program = "testingNB" THEN job.zeros[(d + 1) \div 2] ELSE job.ones[(d + 1) \div 2]
    BY <1>3, <1>4 DEF docList, n
  <2>3. job.zeros[(d + 1) \div 2] \in Seq(Words) /\ job.ones[(d + 1) \div 2] \in Seq(Words)
    BY <1>1, <2>1, ElementOfSeq
  <2> QED
    BY <1>3, <2>2, <2>3
<1>5. CASE d % 2 # 1
  <2>1. d \div 2 \in 1 .. Len(job.zeros) /\ d \div 2 \in 1 .. Len(job.ones)
    BY <1>1, <1>2, <1>3, <1>5
  <2>2. docList[d] = IF job.program = "testingNB" THEN job.ones[d \div 2] ELSE job.zeros[d \div 2]
    BY <1>3, <1>5 DEF docList, n
  <2>3. job.zeros[d \div 2] \in Seq(Words) /\ job.ones[d \div 2] \in Seq(Words)
    BY <1>1, <2>1, ElementOfSeq
  <2> QED
    BY <1>3, <2>2, <2>3
<1> QED
  BY <1>4, <1>5

\* The words of all documents are finitely many.
LEMMA WordsFinite ==
  ASSUME job \in Jobs
  PROVE  IsFiniteSet(WordsOf(docList))
<1> DEFINE Sets == {ToSet(docList[d]) : d \in Docs}
<1>1. PICK n \in Nat : Docs = 1 .. 2 * n
  BY DocListLength
<1>2. IsFiniteSet(Docs)
  BY <1>1, FS_Interval
<1>3. IsFiniteSet(Sets)
  <2> DEFINE f == [d \in Docs |-> ToSet(docList[d])]
  <2>1. Sets = {f[d] : d \in Docs}
    OBVIOUS
  <2> HIDE DEF f
  <2> QED
    BY <1>2, <2>1, ImageFinite
<1>4. ASSUME NEW d \in Docs PROVE IsFiniteSet(ToSet(docList[d]))
  <2> DEFINE doc == docList[d]
  <2>1. doc \in Seq(Words)
    BY DocType
  <2> HIDE DEF doc
  <2>2. IsFiniteSet(DOMAIN doc)
    BY <2>1, FS_Interval, LenProperties
  <2>3. IsFiniteSet({doc[a] : a \in DOMAIN doc})
    BY <2>2, ImageFinite
  <2> QED
    BY <2>3 DEF ToSet, doc
<1>5. IsFiniteSet(UNION Sets)
  BY <1>3, <1>4, FS_UNION
<1> QED
  BY <1>5 DEF WordsOf, Docs

\* Training has not begun.
LEMMA InitCountInv == Init => CountInv
<1> SUFFICES ASSUME Init PROVE CountInv
  OBVIOUS
<1>1. /\ vocabList = {} /\ trained = 0
      /\ pNum = [c \in {0, 1} |-> [w \in {} |-> 1]] /\ pDenom = [c \in {0, 1} |-> 2]
  BY DEF Init
<1>2. IsFiniteSet(vocabList)
  BY <1>1, FS_EmptySet
<1>3. ASSUME NEW c \in {0, 1}
      PROVE  Counts(job.program, docList, trainingSet, trained, c, vocabList, pNum[c], pDenom[c])
  <2>1. pDenom[c] = 2
    BY <1>1
  <2> QED
    BY <1>1, <1>2, <2>1, CountsZero
<1> QED
  BY <1>1, <1>2, <1>3 DEF CountInv

\* The counts start from ones, for the words of this vocabulary.
LEMMA CreateVocabListCountInv == IndInv /\ CountInv /\ CreateVocabList => CountInv'
<1> SUFFICES ASSUME IndInv, CountInv, CreateVocabList PROVE CountInv'
  OBVIOUS
<1>1. /\ job' = job /\ trainingSet' = trainingSet /\ trained' = trained /\ pDenom' = pDenom
      /\ pNum' = [c \in {0, 1} |-> [w \in vocabList' |-> 1]]
      /\ vocabList' \subseteq WordsOf(docList)
      /\ trained = 0
  BY DEF CreateVocabList, CountInv
<1>2. IsFiniteSet(vocabList')
  BY <1>1, WordsFinite, FS_Subset DEF IndInv
<1>3. \A c \in {0, 1} : pDenom[c] = 2
  BY <1>1, CountsZero DEF CountInv
<1>4. ASSUME NEW c \in {0, 1}
      PROVE  Counts(job', docList', trainingSet', trained', c, vocabList', pNum'[c], pDenom'[c])
  <2>1. /\ trained' = 0 /\ pDenom'[c] = 2 /\ \A w \in vocabList' : pNum'[c][w] = 1
    BY <1>1, <1>3
  <2> QED
    BY <1>2, <2>1, CountsZero
<1> QED
  BY <1>1, <1>2, <1>4, CountsZero DEF CountInv

\* Nothing is counted while documents are drawn.
LEMMA DrawCountInv ==
  ASSUME IndInv, CountInv, trained = 0, UNCHANGED <<job, vocabList, countVars>>,
         pc' \in {"draw", "raised"}
  PROVE  CountInv'
<1>1. /\ job' = job /\ vocabList' = vocabList
      /\ trained' = trained /\ pNum' = pNum /\ pDenom' = pDenom
  BY DEF countVars
<1>2. IsFiniteSet(vocabList)
  BY DEF CountInv
<1>3. ASSUME NEW c \in {0, 1}
      PROVE  Counts(job', docList', trainingSet', trained', c, vocabList', pNum'[c], pDenom'[c])
  <2>1. Counts(job.program, docList, trainingSet, 0, c, vocabList, pNum[c], pDenom[c])
    BY DEF CountInv
  <2>2. (\A w \in vocabList : pNum[c][w] = 1) /\ pDenom[c] = 2
    BY <1>2, <2>1, CountsZero
  <2> QED
    BY <1>1, <1>2, <2>2, CountsZero
<1> QED
  BY <1>1, <1>2, <1>3, CountsZero DEF CountInv

\* Steps outside training leave the counts alone.
LEMMA CountsUnchanged ==
  ASSUME CountInv, UNCHANGED <<job, vocabList, trainingSet, countVars>>,
         pc' \in {"vocabulary", "draw"} => pc' = pc
  PROVE  CountInv'
<1>1. /\ job' = job /\ vocabList' = vocabList /\ trainingSet' = trainingSet /\ docList' = docList
      /\ trained' = trained /\ pNum' = pNum /\ pDenom' = pDenom
  BY DEF countVars, docList
<1> QED
  BY <1>1 DEF CountInv

\* A row is added to the counts of the class of its document.
LEMMA TrainNB0CountInv == IndInv /\ CountInv /\ TrainNB0 => CountInv'
<1> SUFFICES ASSUME IndInv, CountInv, TrainNB0 PROVE CountInv'
  OBVIOUS
<1> DEFINE d == trainingSet[trained + 1]
           row == WordVector(docList[d])
<1>1. /\ pc = "train" /\ pc' = pc /\ trained < Len(trainingSet) /\ trained' = trained + 1
      /\ job' = job /\ vocabList' = vocabList /\ trainingSet' = trainingSet
      /\ pNum' = [pNum EXCEPT ![ClassOf(d)] = [w \in vocabList |-> @[w] + row[w]]]
      /\ pDenom' = [pDenom EXCEPT ![ClassOf(d)] = @ + Total(row)]
  BY DEF TrainNB0
<1>2. docList' = docList
  BY <1>1 DEF docList
<1>3. job \in Jobs /\ trained \in Nat /\ IsFiniteSet(vocabList) /\ trainingSet \in Seq(Docs)
  BY DEF IndInv, CountInv
<1>4. \A a \in 1 .. trained + 1 : trainingSet[a] \in Docs /\ docList[trainingSet[a]] \in Seq(Words)
  <2>1. \A a \in 1 .. trained + 1 : a \in 1 .. Len(trainingSet)
    BY <1>1, <1>3
  <2> QED
    BY <1>3, <2>1, ElementOfSeq, DocType
<1>5. row = [w \in vocabList |-> Adds(job.program, w, docList[d])]
  BY DEF WordVector, Adds
<1>6. ClassOf(d) \in {0, 1} /\ ClassOf(d) = Class(job.program, d)
  <2>1. d \in Nat
    BY <1>3, <1>4, DocType
  <2> HIDE DEF d
  <2> QED
    BY <2>1 DEF ClassOf, Class
<1>7. DOMAIN pNum = {0, 1} /\ DOMAIN pDenom = {0, 1}
  BY DEF CountInv
<1> HIDE DEF row
<1>8. ASSUME NEW c \in {0, 1}
      PROVE  /\ pNum'[c] = IF Class(job.program, d) = c THEN [w \in vocabList |-> pNum[c][w] + row[w]]
                           ELSE pNum[c]
             /\ pDenom'[c] = IF Class(job.program, d) = c THEN pDenom[c] + SumFunction(row) ELSE pDenom[c]
  BY <1>1, <1>6, <1>7 DEF Total
<1>9. ASSUME NEW c \in {0, 1}
      PROVE  Counts(job.program, docList, trainingSet, trained + 1, c, vocabList, pNum'[c], pDenom'[c])
  <2>1. Counts(job.program, docList, trainingSet, trained, c, vocabList, pNum[c], pDenom[c])
    BY DEF CountInv
  <2>2. Counts(job.program, docList, trainingSet, trained + 1, c, vocabList,
               IF Class(job.program, d) = c THEN [w \in vocabList |-> pNum[c][w] + row[w]] ELSE pNum[c],
               IF Class(job.program, d) = c THEN pDenom[c] + SumFunction(row) ELSE pDenom[c])
    BY <1>3, <1>4, <1>5, <2>1, CountsStep
  <2> QED
    BY <1>8, <2>2
<1>10. ASSUME NEW c \in {0, 1}, NEW w \in vocabList PROVE w \in DOMAIN pNum'[c]
  BY <1>8 DEF CountInv
<1>11. DOMAIN pNum' = {0, 1} /\ DOMAIN pDenom' = {0, 1}
  BY <1>1, <1>7
<1> QED
  BY <1>1, <1>2, <1>3, <1>9, <1>10, <1>11 DEF CountInv

\* At every turn of trainNB0 the counts are those of the documents so far.
LEMMA CountInvHolds == Spec => []CountInv
<1>1. Init => CountInv
  BY InitCountInv
<1>2. IndInv /\ CountInv /\ [Next]_vars => CountInv'
  <2> SUFFICES ASSUME IndInv, CountInv, [Next]_vars PROVE CountInv'
    OBVIOUS
  <2>1. CASE CreateVocabList
    BY <2>1, CreateVocabListCountInv
  <2>2. CASE Draw
    <3>1. trained = 0
      BY <2>2 DEF Draw, CountInv
    <3>2. UNCHANGED <<job, vocabList, countVars>> /\ pc' \in {"draw", "raised"}
      BY <2>2 DEF Draw, Raise
    <3> QED
      BY <3>1, <3>2, DrawCountInv
  <2>3. CASE BeginTraining
    BY <2>3, CountsUnchanged DEF BeginTraining, Raise
  <2>4. CASE TrainNB0
    BY <2>4, TrainNB0CountInv
  <2>5. CASE EndTraining
    BY <2>5, CountsUnchanged DEF EndTraining
  <2>6. CASE ClassifyNB
    <3>1. pc' \notin {"vocabulary", "draw"}
      BY <2>6 DEF ClassifyNB
    <3> QED
      BY <2>6, <3>1, CountsUnchanged DEF ClassifyNB
  <2>7. CASE UNCHANGED vars
    BY <2>7, CountsUnchanged DEF vars
  <2> QED
    BY <2>1, <2>2, <2>3, <2>4, <2>5, <2>6, <2>7 DEF Next
<1> QED
  BY <1>1, <1>2, IndInvHolds, PTL DEF Spec

\* trainNB0 counts the training documents that were added, and nothing else, for
\* every vocabulary and every split.
THEOREM CountsAreExact == Spec => []CountsExact
<1>1. CountInv => CountsExact
  <2> SUFFICES ASSUME CountInv, NEW c \in {0, 1}
               PROVE  LET added == {i \in 1 .. trained : ClassOf(trainingSet[i]) = c}
                          With(w) == {i \in added : w \in ToSet(docList[trainingSet[i]])}
                          TimesIn(w) == IF job.program = "testingNB" THEN Cardinality(With(w))
                                      ELSE SumFunction([i \in added |-> Occurrences(w, docList[trainingSet[i]])])
                      IN  /\ \A w \in vocabList : pNum[c][w] = 1 + TimesIn(w)
                          /\ pDenom[c] = 2 + SumFunction([w \in vocabList |-> TimesIn(w)])
    BY DEF CountsExact
  <2>1. {i \in 1 .. trained : ClassOf(trainingSet[i]) = c} = Added(job.program, trainingSet, trained, c)
    BY DEF Added, ClassOf, Class
  <2>2. Counts(job.program, docList, trainingSet, trained, c, vocabList, pNum[c], pDenom[c])
    BY DEF CountInv
  <2> QED
    BY <2>1, <2>2 DEF Counts, Times
<1> QED
  BY <1>1, CountInvHolds, PTL

-----------------------------------------------------------------------------
(* The answers. *)

\* Nothing is answered before training, which needs a document and adds no more
\* than there are; so far no class without a training document was answered.
VerdictInv ==
  /\ pc \notin {"classify", "returned"} => verdicts = <<>>
  /\ pc \in {"train", "classify"} => trainingSet # <<>>
  /\ trained <= Len(trainingSet)
  /\ verdicts \in Seq({0, 1})
  /\ UntrainedNeverAnswered

\* Every word has been counted once and every denominator twice before the first
\* document, so that no factor of a likelihood but the prior can be zero.
LEMMA CountsPositive ==
  ASSUME IndInv, CountInv, trained <= Len(trainingSet), NEW c \in {0, 1}
  PROVE  pDenom[c] \in Nat \ {0} /\ \A w \in vocabList : pNum[c][w] \in Nat \ {0}
<1> DEFINE T(w) == Times(job.program, docList, trainingSet, trained, c, w)
           f == [w \in vocabList |-> T(w)]
<1>1. job \in Jobs /\ trained \in Nat /\ IsFiniteSet(vocabList) /\ trainingSet \in Seq(Docs)
  BY DEF IndInv, CountInv
<1>2. \A a \in 1 .. trained : docList[trainingSet[a]] \in Seq(Words)
  <2>1. \A a \in 1 .. trained : a \in 1 .. Len(trainingSet)
    BY <1>1, LenProperties
  <2> QED
    BY <1>1, <2>1, ElementOfSeq, DocType
<1>3. \A w : T(w) \in Nat
  BY <1>1, <1>2, TimesType
<1>4. /\ \A w \in vocabList : pNum[c][w] = 1 + T(w)
      /\ pDenom[c] = 2 + SumFunctionOnSet(f, vocabList)
  BY DEF CountInv, Counts, SumFunction
<1>5. \A w \in vocabList : f[w] \in Nat
  BY <1>3
<1> HIDE DEF T, f
<1>6. SumFunctionOnSet(f, vocabList) \in Nat
  BY <1>1, <1>5, SumType
<1> QED
  BY <1>3, <1>4, <1>6

\* The entries to classify are finitely many.
LEMMA UnseenLength == IndInv => Len(Unseen) \in Nat
<1> SUFFICES ASSUME IndInv PROVE Len(Unseen) \in Nat
  OBVIOUS
<1>1. job \in Jobs /\ testSet \in Seq(Docs)
  BY DEF IndInv
<1>2. CASE job.program = "testingNB"
  BY <1>1, <1>2, JobsAssumption, LenProperties DEF Unseen
<1>3. CASE job.program # "testingNB"
  <2>1. PICK m \in Nat : m = Len(testSet) /\ DOMAIN testSet = 1 .. m
    BY <1>1, LenProperties
  <2>2. Unseen = [a \in 1 .. m |-> docList[testSet[a]]]
    BY <1>3, <2>1 DEF Unseen
  <2>3. Len([a \in 1 .. m |-> docList[testSet[a]]]) = m
    BY <2>1
  <2> QED
    BY <2>1, <2>2, <2>3
<1> QED
  BY <1>2, <1>3

\* Whatever is classified, the entries of its row are numbers.
LEMMA RowType ==
  ASSUME IndInv, CountInv, NEW n \in 1 .. Len(Unseen), NEW row, row = WordVector(Unseen[n])
  PROVE  DOMAIN row = vocabList /\ \A w \in vocabList : row[w] \in Nat
<1>1. DOMAIN row = vocabList
  BY DEF WordVector
<1>2. CASE job.program = "testingNB"
  BY <1>1, <1>2 DEF WordVector
<1>3. CASE job.program # "testingNB"
  <2>1. testSet \in Seq(Docs) /\ job \in Jobs
    BY DEF IndInv
  <2>2. PICK m \in Nat : m = Len(testSet) /\ DOMAIN testSet = 1 .. m
    BY <2>1, LenProperties
  <2>3. Unseen = [a \in 1 .. m |-> docList[testSet[a]]]
    BY <1>3, <2>2 DEF Unseen
  <2>4. n \in 1 .. m
    BY <2>2, <2>3
  <2>5. Unseen[n] = docList[testSet[n]] /\ testSet[n] \in Docs
    BY <2>1, <2>2, <2>3, <2>4, ElementOfSeq
  <2>6. Unseen[n] \in Seq(Words)
    BY <2>1, <2>5, DocType
  <2> QED
    BY <1>1, <1>3, <2>6, OccurrencesType DEF WordVector
<1> QED
  BY <1>1, <1>2, <1>3

\* The likelihood of a class is zero if its prior is, and only then.
LEMMA LikelihoodZero ==
  ASSUME IndInv, CountInv, trained <= Len(trainingSet), NEW c \in {0, 1},
         NEW row, DOMAIN row = vocabList, \A w \in vocabList : row[w] \in Nat
  PROVE  Prior(c) \in Nat /\ Likelihood(c, row) \in Nat /\ (Likelihood(c, row) = 0 <=> Prior(c) = 0)
<1> DEFINE f == [w \in vocabList |-> Power(pNum[c][w], row[w])]
<1>1. PICK p : p = Product(f, vocabList)
  OBVIOUS
<1>2. PICK q : q = Power(pDenom[1 - c], SumFunction(row))
  OBVIOUS
<1>3. PICK r : r = Prior(c)
  OBVIOUS
<1>4. IsFiniteSet(vocabList)
  BY DEF CountInv
<1>5. p \in Nat \ {0}
  <2>1. \A w \in vocabList : f[w] \in Nat \ {0}
    BY CountsPositive, PowerPositive
  <2> HIDE DEF f
  <2> QED
    BY <1>1, <1>4, <2>1, ProductPositive
<1>6. q \in Nat \ {0}
  <2>1. 1 - c \in {0, 1}
    OBVIOUS
  <2>2. pDenom[1 - c] \in Nat \ {0}
    BY <2>1, CountsPositive
  <2>3. SumFunction(row) \in Nat
    BY <1>4, SumType DEF SumFunction
  <2> QED
    BY <1>2, <2>2, <2>3, PowerPositive
<1>7. r \in Nat
  <2>1. IsFiniteSet(DOMAIN trainingSet)
    BY FS_Interval, LenProperties DEF IndInv
  <2>2. IsFiniteSet({i \in DOMAIN trainingSet : ClassOf(trainingSet[i]) = c})
    BY <2>1, FS_Subset
  <2> QED
    BY <1>3, <2>2, FS_CardinalityType DEF Prior
<1>8. Likelihood(c, row) = p * q * r
  BY <1>1, <1>2, <1>3 DEF Likelihood
<1>9. \A x, y \in Nat \ {0} : x * y \in Nat \ {0}
  OBVIOUS
<1>10. p * q \in Nat \ {0}
  BY <1>5, <1>6, <1>9
<1>11. \A x \in Nat \ {0}, y \in Nat : x * y \in Nat /\ (x * y = 0 <=> y = 0)
  OBVIOUS
<1> QED
  BY <1>3, <1>7, <1>8, <1>10, <1>11

\* The prior of a class is zero if it has no training document, and only then.
LEMMA PriorZero ==
  ASSUME IndInv, NEW c \in {0, 1}
  PROVE  Prior(c) = 0 <=> \A d \in ToSet(trainingSet) : ClassOf(d) # c
<1> DEFINE Rows == {i \in DOMAIN trainingSet : ClassOf(trainingSet[i]) = c}
<1>1. IsFiniteSet(DOMAIN trainingSet)
  BY FS_Interval, LenProperties DEF IndInv
<1>2. IsFiniteSet(Rows)
  BY <1>1, FS_Subset
<1>3. Prior(c) = 0 <=> Rows = {}
  <2> HIDE DEF Rows
  <2>1. Cardinality(Rows) = 0 <=> Rows = {}
    BY <1>2, FS_EmptySet
  <2> QED
    BY <2>1 DEF Prior, Rows
<1> QED
  BY <1>3 DEF ToSet

\* With a training document one of the classes has a prior.
LEMMA OneClassTrained ==
  ASSUME IndInv, trainingSet # <<>>, NEW c \in {0, 1}, Prior(c) = 0
  PROVE  Prior(1 - c) # 0
<1>1. job \in Jobs /\ trainingSet \in Seq(Docs)
  BY DEF IndInv
<1>2. 1 \in DOMAIN trainingSet
  BY <1>1, EmptySeq, LenProperties
<1>3. PICK d : d = trainingSet[1]
  OBVIOUS
<1>4. d \in ToSet(trainingSet) /\ d \in Docs
  BY <1>1, <1>2, <1>3, ElementOfSeq DEF ToSet
<1>5. d \in Nat
  BY <1>1, <1>4, DocType
<1>6. ClassOf(d) \in {0, 1}
  BY <1>5 DEF ClassOf
<1>7. ClassOf(d) # c
  BY <1>4, PriorZero
<1>8. 1 - c \in {0, 1} /\ ClassOf(d) = 1 - c
  BY <1>6, <1>7
<1> QED
  BY <1>4, <1>8, PriorZero

\* A class with a prior beats one without.
LEMMA ClassifyNBVerdictInv ==
  ASSUME IndInv, CountInv, VerdictInv, ClassifyNB
  PROVE  VerdictInv'
<1> DEFINE row == WordVector(Unseen[Len(verdicts) + 1])
<1>1. /\ pc = "classify" /\ Len(verdicts) < Len(Unseen)
      /\ pc' \in {"classify", "returned"}
      /\ job' = job /\ trainingSet' = trainingSet
  BY DEF ClassifyNB
<1>2. PICK verdict \in {0, 1} :
        /\ Likelihood(verdict, row) >= Likelihood(1 - verdict, row)
        /\ verdicts' = Append(verdicts, verdict)
  BY DEF ClassifyNB
<1>3. verdicts \in Seq({0, 1}) /\ trainingSet # <<>> /\ trained <= Len(trainingSet)
  BY <1>1 DEF VerdictInv
<1>4. PICK n \in Nat : n = Len(verdicts)
  BY <1>3, LenProperties
<1>5. verdicts' \in Seq({0, 1}) /\ ToSet(verdicts') = ToSet(verdicts) \cup {verdict}
  <2>1. /\ verdicts' \in Seq({0, 1}) /\ DOMAIN verdicts' = 1 .. n + 1 /\ DOMAIN verdicts = 1 .. n
        /\ verdicts'[n + 1] = verdict /\ \A a \in 1 .. n : verdicts'[a] = verdicts[a]
    BY <1>2, <1>3, <1>4, AppendProperties, LenProperties
  <2>2. ToSet(verdicts) = {verdicts[a] : a \in 1 .. n}
    BY <2>1 DEF ToSet
  <2>3. ToSet(verdicts') = {verdicts'[a] : a \in 1 .. n + 1}
    BY <2>1 DEF ToSet
  <2>4. 1 .. n + 1 = (1 .. n) \cup {n + 1}
    BY <1>4
  <2> QED
    BY <2>1, <2>2, <2>3, <2>4
<1>6. Prior(verdict) # 0
  <2> SUFFICES ASSUME Prior(verdict) = 0 PROVE FALSE
    OBVIOUS
  <2>1. 1 - verdict \in {0, 1} /\ Prior(1 - verdict) # 0
    BY <1>3, OneClassTrained
  <2>2. DOMAIN row = vocabList /\ \A w \in vocabList : row[w] \in Nat
    <3>1. n + 1 \in 1 .. Len(Unseen)
      BY <1>1, <1>4, UnseenLength
    <3> QED
      BY <1>4, <3>1, RowType
  <2> HIDE DEF row
  <2>3. Likelihood(verdict, row) = 0
    BY <1>3, <2>2, LikelihoodZero
  <2>4. Likelihood(1 - verdict, row) \in Nat /\ Likelihood(1 - verdict, row) # 0
    BY <1>3, <2>1, <2>2, LikelihoodZero
  <2> QED
    BY <1>2, <2>3, <2>4 DEF row
<1>7. UntrainedNeverAnswered'
  <2>1. \A d : ClassOf(d)' = ClassOf(d)
    BY <1>1 DEF ClassOf
  <2>2. ~ \A d \in ToSet(trainingSet) : ClassOf(d) # verdict
    BY <1>6, PriorZero
  <2>3. UntrainedNeverAnswered
    BY DEF VerdictInv
  <2> QED
    BY <1>1, <1>5, <2>1, <2>2, <2>3 DEF UntrainedNeverAnswered
<1>8. trained' <= Len(trainingSet')
  BY <1>1, <1>3 DEF ClassifyNB, countVars
<1> QED
  BY <1>1, <1>3, <1>5, <1>7, <1>8 DEF VerdictInv

\* Until a document is classified there is no answer that could be wrong.
LEMMA NoVerdictYet ==
  ASSUME IndInv', verdicts' = <<>>, pc' \in {"train", "classify"} => trainingSet' # <<>>,
         trained' <= Len(trainingSet')
  PROVE  VerdictInv'
<1>1. verdicts' \in Seq({0, 1}) /\ ToSet(verdicts') = {}
  BY EmptySeq DEF ToSet
<1>2. UntrainedNeverAnswered'
  BY <1>1 DEF UntrainedNeverAnswered
<1> QED
  BY <1>1, <1>2 DEF VerdictInv

\* Answers are for classes with training documents.
LEMMA VerdictInvHolds == Spec => []VerdictInv
<1>1. Init => VerdictInv
  <2> SUFFICES ASSUME Init PROVE VerdictInv
    OBVIOUS
  <2>1. IndInv
    BY InitIndInv
  <2>2. verdicts = <<>> /\ pc = "vocabulary" /\ trained = 0
    BY DEF Init
  <2>3. Len(trainingSet) \in Nat
    BY <2>1, LenProperties DEF IndInv
  <2>4. verdicts \in Seq({0, 1}) /\ ToSet(verdicts) = {}
    BY <2>2, EmptySeq DEF ToSet
  <2> QED
    BY <2>2, <2>3, <2>4 DEF VerdictInv, UntrainedNeverAnswered
<1>2. IndInv /\ CountInv /\ VerdictInv /\ IndInv' /\ [Next]_vars => VerdictInv'
  <2> SUFFICES ASSUME IndInv, CountInv, VerdictInv, IndInv', [Next]_vars PROVE VerdictInv'
    OBVIOUS
  <2>0. Len(trainingSet) \in Nat /\ Len(trainingSet') \in Nat /\ trained \in Nat
    BY LenProperties DEF IndInv, CountInv
  <2>1. CASE CreateVocabList
    BY <2>1, NoVerdictYet DEF CreateVocabList, VerdictInv
  <2>2. CASE Draw
    <3>1. trained = 0 /\ trained' = trained /\ verdicts = <<>> /\ verdicts' = verdicts
      BY <2>2 DEF Draw, Raise, CountInv, VerdictInv, countVars
    <3>2. pc' \in {"draw", "raised"}
      BY <2>2 DEF Draw, Raise
    <3> QED
      BY <2>0, <3>1, <3>2, NoVerdictYet
  <2>3. CASE BeginTraining
    BY <2>3, NoVerdictYet DEF BeginTraining, Raise, VerdictInv, countVars
  <2>4. CASE TrainNB0
    <3>1. /\ pc = "train" /\ pc' = pc /\ verdicts' = verdicts /\ trainingSet' = trainingSet
          /\ trained < Len(trainingSet) /\ trained' = trained + 1
      BY <2>4 DEF TrainNB0
    <3> QED
      BY <2>0, <3>1, NoVerdictYet DEF VerdictInv
  <2>5. CASE EndTraining
    BY <2>5, NoVerdictYet DEF EndTraining, VerdictInv, countVars
  <2>6. CASE ClassifyNB
    BY <2>6, ClassifyNBVerdictInv
  <2>7. CASE UNCHANGED vars
    <3>1. \A d : ClassOf(d)' = ClassOf(d)
      BY <2>7 DEF vars, ClassOf
    <3> QED
      BY <2>7, <3>1 DEF vars, countVars, VerdictInv, UntrainedNeverAnswered
  <2> QED
    BY <2>1, <2>2, <2>3, <2>4, <2>5, <2>6, <2>7 DEF Next
<1> QED
  BY <1>1, <1>2, IndInvHolds, CountInvHolds, PTL DEF Spec

\* A class that the draws have left without training documents is never the
\* answer, whatever is classified.
THEOREM UntrainedIsNeverAnswered == Spec => []UntrainedNeverAnswered
<1>1. VerdictInv => UntrainedNeverAnswered
  BY DEF VerdictInv
<1> QED
  BY <1>1, VerdictInvHolds, PTL
=============================================================================
