# Formal models of the programs in deep-dive-into-spark

The repository collects study notes on Spark and small example programs. The
notes describe systems whose code lives elsewhere; the code is under
`examples/`. These modules model that code: the data-mining algorithms of
`examples/mlia` (Python 2) and the Netty servers of `examples/networking`
(Java). What the notes in `docs/ml/ml-machine-learning-in-action.md` say of
the algorithms is used as the statement of what they should do.

Paths below are relative to the repository. Modules are checked with TLC and
proved with TLAPS.

## 1. Inventory

Component | State it keeps | Operations | Hard behaviour | Status
--- | --- | --- | --- | ---
Apriori, itemsets (`mlia/src/fpm/apriori.py:9-98`) | candidates `C`, level `L`, `L_list`, `supports` | `createC1`, `filterCToFormL`, `mergeLToFormLargerC`, the loop | candidates come from pairs that share "the first k-1 items" of an unordered set; completeness rests on the join | modelled, proved
Apriori, rules (`apriori.py:105-140`) | `HC`, `sizeConsequent`, `rules` | `mineAssociationRules`, `generateRulesForItemset`, `filterHC...` | look-ups in a dict filled levels earlier; a threshold on a doubly rounded quotient; pruning of consequents | modelled, proved
FP-growth (`fpgrowth.py`) | FP-tree, header table with node links, pattern base, recursion | `createTree`, `updateTree`, `findConditionalPatternBase`, `mineTree` | linked lists through a tree, counts along shared paths, dict iteration order, recursion over conditional trees | modelled, proved
Decision tree (`dt/trees.py`) | rows, labels, nested dicts, recursion | `createTree`, `chooseBestFeatureToSplit`, `splitDataSet`, `majorityCnt`, `classify` | two lists (columns, labels) shrinking in step, one of them the caller's; the index -1 | modelled, proved
Echo server and client (`networking/.../echo`) | channels, outbound buffer, main thread | `channelActive`, `channelRead`, `channelReadComplete`, the CLOSE listener, `start` | TCP fragments messages, writes are not flushed, the server closes while bytes are under way, either side is killed | modelled, proved
Time server and client (`.../time`) | one channel | `channelActive`, `channelRead`, the listener, `main` | a time may arrive in pieces; 32-bit seconds; the close waits for the write | modelled, proved
Discard server (`.../discard`) | none | `channelRead` | - | not modelled: it releases what it reads
Logistic regression (`lr/logRegres.py`) | weights, `dataIndex`, loop counters, error counts | `gradAscent`, `stocGradAscent0/1`, `colicTest`, `multiTest` | which row is drawn, step size per update, a training that must begin anew ten times | modelled (weights as their updates), proved
Naive Bayes (`bayes/bayes.py`) | vocabulary, training and test sets, counts per class | `createVocabList`, `calcMostFreq`, `setOfWords2Vec`, `bagOfWords2VecMN`, `trainNB0`, `classifyNB`, `testingNB`, `spamTest`, `localWords` | drawing without replacement from a list that may run out; an index that is not the document; a class that is drawn out | modelled, proved
kNN (`knn/kNN.py`) | matrices, their ranges, error count | `file2matrix`, `autoNorm`, `classify0`, `datingClassTest`, `handwritingClassTest` | ties of two sorts, division by a zero range, rows held out of one matrix, too few rows | modelled, proved
Tree plotter (`dt/treePlotter.py`) | offsets kept in function attributes, the recursion | `createPlot`, `plotTree`, `plotNode`, `getNumLeafs`, `getTreeDepth` | state shared by the recursion | modelled, proved
Spark launchers (`sparkappslauncher`) | a child process and its pipes | `launch`, `waitFor` | a child that fills a pipe nobody reads | not modelled: process and pipes are outside the code
Web UI pages (`webapps`) | `localStorage`, CSS classes | `collapseTable` | toggles in several tabs | not modelled (script copied from Spark)
`LineCounter`, `JVMMXBeans`, `HelloWorld*`, `Main.scala` | none | print or call Spark | - | not modelled
`deploy/`, `docs/` | - | configuration and notes | - | not modelled

Interactions. `generateFrequentItemsets` hands `L_list` and `supports` to
`mineAssociationRules` (`AprioriRules` composes the two). Both uses of
`mergeLToFormLargerC`, on itemsets and on consequents, are one operator in
`Itemsets`. `createTree` and `mineTree` of FP-growth call each other through
trees and header tables. `classify` reads a tree and a list of labels that
`createTree` has changed; `createPlot` draws the same tree (`TreePlotter` extends
`DecisionTree`). An echo client and the server share a connection and
nothing else; inside a client the main thread and the event loop share the
state of the channel through futures.

What makes each component correct:

* Apriori: the levels are exactly the frequent itemsets, with the right
  supports; rules are exactly those that reach `minConf`, each once.
* FP-growth: the same set of itemsets, each once, from a tree whose links and
  counts agree with the dataset.
* Decision tree: every recursive call sees the rows and labels of its path;
  training rows get their class back; recursion ends.
* Tree plotter: leaves side by side, each node above its leaves and joined to its
  parent, whatever the order of the recursion.
* Naive Bayes: each document is in one of the two sets, the counts of a class are
  those of its training documents, only a shortage of documents ends the test
  with an error, and a class without training documents is no answer.
* kNN: answers do not depend on units, nor on the class that is to be found; near
  rows win the vote.
* Logistic regression: as many updates as the loops say, from ones; rows are used
  within the limits of the draw.
* Time: a client prints a current time or nothing; both sides end.
* Echo: what was read is sent back in order before the close; every client that is
  not killed ends, and every channel of the server is closed.

## 2. Modules

Module | Models
--- | ---
`Itemsets` | datasets, counts, the join, dicts; shared by both miners
`FrequentMining` | abstract: reports frequent itemsets only, returns with all of them
`Apriori` | `generateFrequentItemsets`; one action per helper call
`AprioriProofs` | theorems about `Apriori` and `AprioriRules`
`AprioriRules` | `Apriori` composed with `mineAssociationRules`
`FPGrowth` | `createTree` and `mineTree`, called as `test1` does
`FPGrowthProofs` | theorems about `FPGrowth`
`DecisionTree` | `createTree`, then one `classify`
`TreePlotter` | `createPlot` of the tree that `DecisionTree` has built
`NaiveBayes` | `testingNB`, `spamTest` and `localWords`
`NaiveBayesProofs` | theorems about `NaiveBayes`
`NearestNeighbours` | `datingClassTest`, `handwritingClassTest` and `classify0`
`NearestNeighboursProofs` | theorems about `NearestNeighbours`
`GradientAscent` | the three ascents, `colicTest` and `multiTest`
`LearnerProofs` | theorems about `DecisionTree`, `TreePlotter` and `GradientAscent`
`EchoService` | abstract: a client gets a growing prefix of its message, then one end
`Echo` | clients, main threads, server channels, connections
`EchoProofs` | theorems about `Echo`, and that it implements `EchoService`
`Time` | the time client and server, with connections that break
`TimeProofs` | theorems about `Time`
`Selection` | the elements of a sequence that are in a set, for `Echo` and `DecisionTree`
`Products` | products and powers, for `NaiveBayes`, `NearestNeighbours` and `DecisionTree`
`DataLemmas` | lemmas about numbers, sequences, selections, sums, products, minima and maxima, for the proofs
`MC*` | constants for TLC

Definitions named `X_Fault` beside a definition `X` (`IsLarge_Strict` beside
`IsLarge`, `Merge_PairsTwice` beside `MergeLToFormLargerC`) are faulty variants. No specification uses
them: each replaces `X` once to see that a property notices.

### Apriori

`pc` names the next helper. `CreateC1` is line 86, `FilterCToFormL` lines 87-88
and 94-97 with the loop test, `MergeL` line 93. A list of candidates is a bag,
a function from itemset to multiplicity: `filterCToFormL` counts a candidate
once for every place it has in the list, so a candidate that is merged twice is
counted twice. Supports are kept as counts. Dividing by the number of
transactions changes no comparison; which count a float `minSupport` stands for
is outside the model.

`list(frozenset)[:k-1]` depends on the order in which a set is iterated. All
that matters is which item is last, so the order is a function `last` from
itemsets to items, chosen from the constant `Orders` at every merge.
`ConsistentOrder(last)` says that the sets are iterated in one order of the
items. It holds for small non-negative integers (their hash is their value, and
without collisions they are listed modulo the size of the table, which is one
order for tables of one size) and is what the notes assume; it does not hold
for strings, or for numbers that collide.

### AprioriRules

`RulesSpec` runs `Apriori` and then the loops of `mineAssociationRules`;
`FilterHCToFormHL` is one round of the `while` of `generateRulesForItemset`,
with the merge at its end. A confidence is compared as a fraction of counts.
The code divides two rounded quotients: above the threshold a rule passes for
sure, below it fails, and on the threshold either may happen unless the
quotients are exact. The set `HL` is therefore chosen between `MustPass` and
`MayPass`. They are exact where `minConf` is 1 or 1/2 (`TieIsExact`: equal numbers are divided, or a
number and its double), but not at 3/4, say, where `(3/10.)/(4/10.)` is less. Consequents of one itemset are listed in a consistent order here
(`OrdersConsistent`).

### FPGrowth

A node is the path of items from the root to it, so its parent is the path
without its last item and `ascendTree` reads the path. The node links of an
item are the sequence of its nodes. The recursion of `mineTree` is a stack of
frames. `CountItems` is lines 28-46, `InsertPattern` one turn of lines 47-54
with all of `updateTree`, `CallMineTree` the return of `createTree` and the call
of `mineTree`, `MineItem` lines 116-121, `ReturnFromMineTree` the end of the
loop. Dict orders that the result can depend on are parameters: `Listings` for
ties in `sorted`, any order for `patternBase.items()` and any order of ties in
`mineTree`. `ConsistentListing(listing)` says that any two patterns list the items
they share in one order; `MCFPGrowth` assumes it of its listings, and finding 2 is
what happens without it. `createInitPatternBase` stores equal transactions once
(finding 3), so what is found can agree with the dataset only if its transactions differ:
`NoRepeats`, which `MCFPGrowth` assumes of its datasets and the theorems that compare
with the dataset have as a hypothesis. The properties themselves (`ConditionalSupports`,
`NothingMissed`, `ImplementsMining`) count in the dataset as it is. `createTree` answering `None` at the top is the end `"raised"`:
`test1` then calls `display` of `None`.

### DecisionTree

Paths stand for the nested dicts and frames for the recursion. `SplitOnBest`
contains `del(labels[bestFeat])`; for the first call that list is the caller's,
`labels`. Axis 0 is the Python index -1, and `Chop` gives what the two slices
give for it: the row without its class followed by the whole row. Entropies are
compared exactly: 2^(n*entropy) is a fraction of powers of counts. Computed with
floats, `chooseBestFeatureToSplit` gives the same feature for every set of up to
five rows with two or three features. A majority between equal votes is any of
them. `CallClassify` takes every vector of the feature values that occur, with a
copy of the labels (`caller = "copies"`) or the caller's own list.

### TreePlotter

`PlotSpec` runs `createTree`, then either one `classify` or `createPlot`. `xOff`
and `yOff` are the attributes of `plotTree` that all calls share; the stack
`calls` has what is local to a call. A distance across is counted in halves of
`1/totalW` and one down in `1/totalD`, so that all positions are integers.
`PlotKey` is one turn of the loop: a leaf is drawn at once, a subtree begins a
call. `PlotReturn` moves `yOff` back up. The keys of a dict come in any order.

### Echo

A message is the sequence of its byte positions; a connection moves any number
of bytes at a time. From the source come the handlers, `start` and the order of
their calls. External, and modelled as far as the handlers depend on them: the
read loop (it goes on after a read that filled its buffer and then calls
`channelReadComplete`), the outbound buffer (written to the socket only up to the
last flush, and not between two reads of one loop), the close at the completion
of the empty write, the end of the stream, and the reset that answers bytes
unread at the close or arriving after it. `KillClient` and `KillServer` end a
process at any moment: its sockets are closed, and the other side meets the end
of the stream or a reset (`ServerSeesEnd`, `ServerExceptionCaught`,
`ClientSeesEnd`, `ClientExceptionCaught`). `EchoServer.start` waits for the close of
its listening channel, which nothing brings about; it ends by being killed.

### Time

The time is four bytes of `Radix` values, `WriteInt` and `ReadUnsignedInt` convert,
and `Wrap` stands for 2^32, and is the fourth power of the radix. `ServerChannelActive` is `channelActive`: the time is
that of the accept, not of the send. `OperationComplete` is the listener, called
when the write has ended, well or not. `ChannelRead` is the client's handler with
the exception that `readUnsignedInt` raises on fewer than four bytes and the
`exceptionCaught` that follows it. The connection may break, and the server, of
which the repository has the handler only, may be stopped; its sockets then
deliver what they have taken. The release of the buffer in `finally` is not
modelled: it belongs to the same call.

### NaiveBayes

A job names the program and the texts of the two classes, sequences of `Words`; `docList` lists one of
each in turn as far as the shorter list goes, the other order in `testingNB`.
`Draw` is one turn of the loop that moves a document to the test set, with the
`IndexError` of an empty list as the end `"raised"`; `BeginTraining` has that of
`trainMatrix[0]`. `testingNB` draws nothing, counts words once per document and
classifies two entries of its own. `TrainNB0` is one turn of its loop.
Probabilities are kept as the counts that the code divides, and `ClassifyNB`
compares products of powers of fractions where the code compares sums of
logarithms. Equal products are left to rounding. The words that `calcMostFreq`
puts first are any that may be, where frequencies are equal. Left out: `textParse`,
which splits text, and `getTopWords`, which prints.

### NearestNeighbours

`Load` reads the files: a line has three features and its class. `AutoNorm`
subtracts the minima and keeps the ranges beside the rows instead of dividing, and
`SqDistance` is the squared distance times the squares of the ranges, which is the
same for every row and changes no comparison. `classify0` sorts twice, once by
distance and once by votes; `Classify0` is the set of classes that it may answer
when equal keys come in any order. A constant column makes every distance `nan`,
and then any k rows may come first (`IsNan`). `Classify` is one turn of the loop of
a test and `Report` its division by the number of rows. Rounding is left out:
distances that are equal as numbers but not as floats are ties here.

### GradientAscent

The value of the weights is a real number; what can be checked is how it comes
about. `weights` is the sequence of updates since the ones, each with the rows
that it is computed from and its step size as a fraction. `StocGradAscent1` draws a
position in what is left of `dataIndex` and uses it as the number of a row.
`ClassifyVector` may be right or wrong, since the weights are not known.
`EndOfColicTest` returns to `multiTest`, which starts again. The module's
invariant, actions and variables have names of their own (`AscentSpec`, `stage`), because
`LearnerProofs` extends it together with the trees.

## 3. Runs

Run | Instance | Question
--- | --- | ---
`apriori` | all datasets of up to 3 transactions over 5 items, thresholds 1-3, three iteration orders changing at every merge; for the rules 4 datasets of 4 transactions over 4 items, confidences 1/2, 2/3, 1 | are levels, supports and the result exact; is it `FrequentMining`; are the rules sound, complete and single; do look-ups succeed
`fpgrowth` | all datasets of 3 different transactions over 3 items, 2 datasets over 4 items, two listings | does the tree agree with the dataset; is it `FrequentMining`
`tree` | all training sets of 1-5 rows with two binary features, 1-3 rows with three, a parity, a three-valued feature, `createDataSet()`; both callers, every vector, the picture | are rows and labels in step; is training data classified; is the picture right; does it end
`echo` | 1 client, a message of 5 bytes, read buffer of 2; client or server killed | order, completeness, close; everyone leaves; is it `EchoService`
`bayes` | feeds of 0-2 entries for `localWords`, 6 mails for `spamTest`, 2 drawn, 1 frequent word removed; 4 posts and 2 entries for `testingNB` | is the split a partition; are the counts exact; when does it raise; what if a class is drawn out
`time` | 1 client, bytes of 2 values, epoch 13 of 16, the clock up to 5 | is the time current; close, end; is the wrap the only deviation
`neighbours` | files of 0-7 lines with ties, equal rows, three classes and constant columns, 0-5 digits of two pixels to train with, `createDataSet()` with the vector of `test` | units, held-out rows, the vote and its ties, small files
`ascent` | 1-4 rows, 1-4 rounds, 2-3 tests of 0-2 lines | how often and with which rows and steps weights are changed
`layout_letter` | `[["k", "x", "v", "h", "f"]]` | finding 1
`fpgrowth_tied` | `[['w','g'], ['h','g','w']]` | finding 2
`fpgrowth_repeated` | `[[1,2], [1,2], [1,3]]` | finding 3
`tree_gainless` | exclusive or | finding 4

Why the bounds are enough. Apriori: an itemset of five items needs levels up to
5, so prefixes of up to three items are joined, and levels end by exhaustion of
items as well as by rarity; more transactions only scale the counts. Rules:
itemsets of four items have consequents of one to three items, so candidates are
merged twice, and the confidences fall on, above and below the thresholds. The state
constraint `Explored` keeps the two parts of `apriori` apart: of the many small datasets only the
search for itemsets is explored, and the rules of the four larger ones.
FP-growth: with three items trees share and split paths, and a conditional tree
has a conditional tree; four items add a third level. Decision tree: three
features make a recursion of depth three; five rows give uneven majorities,
contradictory rows and rows without gain; pictures have up to eight leaves on three
levels, so that the offsets go down and up again between leaves. Echo: five bytes
with a buffer of two can arrive whole and be read in three reads of one loop, or
arrive in pieces that are read by different loops or not at all; clients share the
server's process and nothing else, and what killing it does to one is what it does
to each, so one is enough. Naive Bayes: the documents run out in the draw, are used
up by it, or leave one class or both; one feed is longer than the other; three
documents of a class against two draws is the first size at which neither class
can be drawn out. kNN: five lines are the least that leave three rows to train
with, four are too few; seven leave four, so that one row is not among the nearest. Ascent: four rows
give every limit of the draw from one to four; three epochs have one that is neither
first nor last. Time: four bytes arrive in every
division; the clock passes the wrap; the clients share the clock and nothing else,
so one is enough.

Deadlock is not checked where the program returns (all mining, tree and Bayes
runs) or where the server is idle after its clients have left (Echo, Time).

Fairness. Safety needs none. `DecisionTree` and `TreePlotter` assume that a
sequential program goes on (weak fairness of the whole step). `Echo` assumes weak fairness for each client channel,
main thread, server channel and the reset of a late arrival: threads are
scheduled, an event loop serves every ready channel, a connection attempt ends,
TCP delivers. No choice inside these is forced: a client may always be refused,
and nothing makes anyone be killed.
`Time` assumes the same; nothing makes its clock, a break or a stop happen.

## 4. Findings

1. `apriori.py:63`: two listings of a frozenset need not share an order. For
   `[["k", "x", "v", "h", "f"]]` no two of the frequent 4-itemsets agree in their
   first three listed items, and the 5-itemset is missed. The notes (line 386)
   prove that the join misses nothing; the proof assumes an order.
2. `fpgrowth.py:53`: ties ordered differently for two patterns split a frequent
   pair over two branches; it is missed, where Apriori finds it. The dict of `['w','g']` lists
   `w` first, that of `['h','g','w']` lists `g` before `w`.
3. `fpgrowth.py:139`: a transaction that occurs again sets its count to 1 again instead
   of adding to it. Of three transactions, two of them `[1, 2]`, the pair is missed at a
   `minSupport` of 2. The notes (line 445) let every transaction appear in the tree, and the
   file says of itself that it is similar to Apriori, which counts them all.
4. `trees.py:39`: without gain the index -1 splits on the class column.

The orders in 1 and 2 are those of CPython 2.7's hash tables on 64-bit builds
without hash randomisation.

`apriori` and `fpgrowth` show the complement of the first three: with consistent orders and
different transactions both miners are exact.

Smaller disagreements, which the models contain and no run is spent on:

* `trees.py:71` deletes the root's label from the caller's list, where the comment at
  line 75 means to keep labels intact; `classify` with that list raises
  `ValueError` (`caller = "shares"`).
* `kNN.py:58` holds out half of the file where its comment says 10%.
* `logRegres.py:71` says that alpha decreases with iteration; it does within an
  epoch, and jumps up when the next one begins (`StepsFall` states what holds).
  `logRegres.py:72` draws positions of `dataIndex` and uses them as rows, so the
  rows at the end are rarely used (`LateRowsRare`).

## 5. Proofs

Seven modules hold the proofs of all ten modelled components, and `DataLemmas` what they
share. `LearnerProofs` holds those of two programs that have nothing in common, trees and ascents. Every theorem holds for all values of the constants that satisfy the
named assumptions of its component, which TLC evaluates in every run of it.
An `IndInv` is an inductive invariant. No theorem has a hypothesis other than those assumptions,
but for those marked, about the order in which Python lists items and about repeated transactions.

Module | Theorem | Property | Assumes
--- | --- | --- | ---
`AprioriProofs` | `TypeCorrect`, `SupportsAreExact`, `LevelsAreExact`, `NothingIsMissed`, `AntecedentsAreSupported`, `LevelsAreBounded`, `AprioriImplementsMining` | `TypeOK`, `SupportsExact`, `LevelsExact`, `NothingMissed`, `AntecedentsSupported`, `LevelsBounded`, `ImplementsMining` | finitely many items; a threshold of one or more; every order in `Orders` consistent (a hypothesis)
`AprioriProofs` | `LookupsAreDefined`, `RulesAreSound`, `RulesAreListedOnce`, `RulesAreComplete` | `LookupsDefined`, `RulesSound`, `RulesOnce`, `RulesComplete` | the same, `OrdersConsistent` as the assumption of `AprioriRules`
`FPGrowthProofs` | `TypeCorrect`, `LinksLeadEverywhere`, `HeadersAreAccounted` | `TypeOK`, `LinksCoverTree`, `HeaderAccounted` | finitely many items; listings that give the items of a pattern different positions
`FPGrowthProofs` | `EachIsMinedOnce` | `MinedOnce` | also every listing consistent (a hypothesis)
`FPGrowthProofs` | `SupportsAreConditional`, `NothingIsMissed`, `FPGrowthImplementsMining` | `ConditionalSupports`, `NothingMissed` (no passing run names it), `ImplementsMining` | also every listing consistent and no transaction repeated, `NoRepeats` (hypotheses; `fpgrowth_tied` and `fpgrowth_repeated` refute `NothingMissed` without either)
`EchoProofs` | `NoBytesAreLost`, `ClosesWaitForTheEcho`, `WholeMessagesAreEchoed`, `EchoImplementsService` | `NoByteLost`, `CloseAfterEcho`, `WholeMessageEchoed`, `ImplementsEchoService` | a message and a buffer of one byte or more; any set of clients
`TimeProofs` | `TimesAreCurrent`, `ClosesWaitForTheTime` | `TimeIsCurrent`, `CloseAfterTime` | bytes of two values or more; any epoch and any number of wraps
`NaiveBayesProofs` | `SplitsArePartitions`, `RaisesOnlyWhenDrawnOut`, `CountsAreExact`, `UntrainedIsNeverAnswered` | `SplitIsPartition`, `RaisesOnlyWhenShort`, `CountsExact`, `UntrainedNeverAnswered` | jobs of the three programs
`LearnerProofs` | `CallHasItsRows`, `TrainingIsClassified`, of `Spec` and of `PlotSpec` | `CallRows`, `TrainingClassified` | the names of the features differ; a training set has a row, and all its rows have the same features and a class; the properties speak of paths of splits on features, and the second of trees without any other split and of a caller that keeps its labels
`LearnerProofs` | `LeavesAreSpread`, `NodesAreAboveLeaves` | `LeavesSpread`, `NodesAboveLeaves` | the same
`LearnerProofs` | `UpdatesAreExact`, `LateRowsAreRare`, `StepsAlwaysFall` | `UpdatesExact`, `LateRowsRare`, `StepsFall` | jobs with a row, a round and a test
`NearestNeighboursProofs` | `RaisesOnlyOnSmallFiles`, `AnswersAreUnitFree`, `OwnClassesAreUnused`, `NearRowsAlwaysWin` | `RaisesOnlyWhenSmall`, `UnitFree`, `OwnClassUnused`, `NearRowsWin` | lines of four integers; images of one size; factors of one or more

Proved and checked by no run: `LevelsBounded` (at most |Items| + 1 levels) and
`Disjoint` of `NaiveBayesProofs` (`NeverTestedOnTraining`: no document is in both
sets or twice in one, which is more than `SplitIsPartition` says by counting).

### The arguments

*Apriori.* None of the properties is inductive: that level k+1 is exact
depends on what the candidates are between two filters. `IndInv` adds that. At
`"filter"` the candidates are itemsets of one size, each has multiplicity 1, and
every frequent itemset of that size is among them; at `"merge"` the last level is
`L`, not empty; at `"returned"` it is empty. Two facts about the join carry the
step: `MergeOnce`, a set is the union of at most one pair that shares a prefix
(the two parts are the set less its last and less its next-to-last item), and
`MergeComplete`, if all parts of size k of a set of size k+1 are in the level, the
join forms it. Both need `ConsistentOrder`; finding 1 is a counterexample
without it. `CountMonotone` (a part of an itemset occurs at least
as often) makes the parts of frequent itemsets frequent, and closes
`NothingMissed` after the first empty level.

*Rules.* `RulesIndInv` puts on top of it where the loops are (`PositionOK`), that
the candidates of an itemset are consequents of one size, each once, with every
consequent of that size whose rule is above the threshold among them
(`ConsequentsOK`), and that the listed rules are those of the consequents that have
had their turn (`ListedOK`). The look-ups succeed because the levels are closed under
parts. A consequent that is pruned takes its supersets with it: the confidence of a
larger consequent is no larger, whichever way ties at the threshold went; and where ties are
exact, none is pruned, so that `RulesComplete` includes the rules on the threshold.

*FP-growth.* Two invariants. `IndInv` needs nothing of the listings. A tree is
well-formed (`TreeOK`: a node's parent is in the tree, paths repeat no item, the
links of an item are its nodes, each once), a header table tells what the nodes of its
items weigh, and during `createTree` the nodes and what is left of the pattern base do so
together; `updateTree` moves a weight from one to the other.
`Exact`, which TLC has checked on the instance of `fpgrowth` too, is about what is found. It
counts in `Different`, the transactions without repetitions, so that it holds of every dataset, and
`DifferentIsDataset` makes of that the dataset itself where `NoRepeats` holds. The itemsets that mining one item can still lead to are
its territory (`Region`: the suffix, the item, any of the items above its nodes), and
those that a pattern base can lead to are its `Extensions`. Territories are
disjoint from each other and from what has been found, together they cover every frequent
itemset, and in a tree the nodes of an item with all of T above them weigh what the
dataset counts for suffix, item and T. A consistent listing comes in at one place: all
paths of a tree have their items in one order, so a pattern with x and T has T above its node
of x, and two nodes of an item have different items above them, so that
`findConditionalPatternBase`, a dict keyed by those items, overwrites nothing.

*Echo.* For each client: received, under way, in the outbound buffer, under way to the
server and unsent, one behind the other, are the message (`Conserved`); `read` counts the
bytes ahead of the first empty buffer (`ReadSoFar`), which is where the server will close;
hence what is on the connection when it closes is at least what was read (`ClosedOK`). The
end of the stream comes once and last; resets are explained by who closed first. The
refinement maps a client to `"pending"` until it has closed; steps of the server, of the
wires and of the main threads are stutters, reads extend the prefix, and each of the
ways to close is a `Finish` of the service.

*Time.* `OnTheWay`: the bytes on the wire and in the buffer are in order the digits of
a time between the client's start and now, modulo the wrap; `ReadUnsignedInt` undoes
`WriteInt` on four digits of any radix, which is a lemma of its own.

*Naive Bayes.* `IndInv`: the elements of both lists are the documents, each at one place,
and they number what they should. `CountInv`: after t turns of the loop of `trainNB0` the
counts are those of the first t training documents, sums over a set that grows by one
document. `VerdictInv`: training had a document, so one class has a prior
(`OneClassTrained`). As counts start from one and denominators from two, no other factor of a
likelihood is zero (`CountsPositive`): it is zero exactly if the prior is
(`LikelihoodZero`), and such a class loses to the other.

*Decision tree.* A tree under construction is the nodes that are there (`DOMAIN myTree`) and the
calls of `createTree` that are still to come (`Todo`): the current one, and one for each
value that a loop on the stack has not yet taken. `BuildInv` says that the paths of both are
exactly the places of a tree (`Shape`: each path comes from a node above it, no call from a
place where there is a node), that each call has the rows and the columns of its path
(`CallOK`, with `Fits`), and that each node has what its kind promises (`NodeOK`): a leaf is the
class of all rows that come to it, or the majority when no feature is left; a node has a
branch, or a call to come, for each training row that reaches it. The loops on the stack are
one for each node on the way down (`Chained`). `CallRows` alone is not inductive: the next call
takes its arguments from the innermost frame, and `del(labels[bestFeat])` must have removed
from the labels of that frame what `splitDataSet` removes from the rows (`FitsChild`). Once a
split has been made on the class column (finding 4), a path leaves the features and all claims
about its rows lapse (`OnFeatures`); the shape of the tree does not. That a best
feature exists rests on the order of the entropies, compared as fractions of
products of `Power`, which are positive (`BestFeature`). `Descends` says that `classify` has gone down
by keys of its vector; so the rows like the vector are among those of the node it has
reached (`Agreeing`), whose leaf is then their class or their majority.

*Tree plotter.* `plotTree` never has the tree's shape in hand: it has two shared numbers and the counts
of `getNumLeafs`. `PlotInv` is about the half-finished picture. The stack is the path from the
root to the node in hand, each call with the keys it has not taken (`PlotChain`); the nodes
that are not drawn yet are those below such keys (`Pending`). Then (`Picture`) the shared x
is 2 n - 1 after n leaves are drawn and the shared y is the depth left below the node in hand; every
node drawn has its level and its arrow (`Placed`); and the leaves drawn below it fill, one
in each odd column, the first columns of the stretch that its position was computed for
(`Across`): the stretch begins where x was when the node was drawn, and it is as wide as the node has
leaves. The leaves of a node are the disjoint union of those of its keys (`NumLeafs`, by
induction from the leaves up, is the sum over them), hence a loop that has taken all keys has filled
the stretch. At the end nothing is pending. That the tree is one (`IsTree`: finite,
rooted, no empty dict) comes from `BuildInv`, which is why the proofs share a module. TLC has checked `BuildInv`,
`Descends` and `PlotInv` on small training sets too, the exclusive or among them.

*Ascents.* An update has the number a * m + b, for turn a of the outer and b of the inner
loop (`Counted`); it drew from the m - b first rows with the step size of its place (`DrawnAt`).
The rows r and later can then be used by the first m - r turns of an epoch only.

*kNN.* `IndInv`: the data are what the file became (`Loaded`), and the last answer is one that
`classify0` may give for the last row. The rest is about the operators, for rows of any
values. In a unit c times as small one column less its minimum and its range are both c times as large
(`MeasuredProperties`), hence every distance is c * c times as large (`DistanceScaled`), the
order of the distances is the same and so are the answers (`AnswersSame`). The class that a row has
in the file is in none of the three things that an answer is computed from
(`AnswersRelabelled`): the row is not among those it is compared with. A row that is nearer in
the sense of `Nearer` has the smaller distance, every summand being no larger
(`NearerIsLess`); so if a neighbour has another class all rows of `near` are neighbours too, and two
votes of three decide (`MajorityWins`).

### Lemmas about data

The library's induction theorems take an operator as a parameter and cannot be
used with these provers. `SetInduction` states induction on the numbers as a fact about
a set, T = Nat, and follows from the well-foundedness of `<`; the facts below apply it to the
set of the numbers of which they hold. `IterationExists` and `SumRecursion` give
`SumFunctionOnSet` its recursion from the definition of the folds, and `SumType`, `SumRemove`,
`SumPlus` and others what sums do. `SelectedConcat` and those beside it say the same of
`Selected`, the recursive function that `Echo` uses for the bytes of a buffer, and
`ProductRecursion`, `ProductScaled` and `ProductPositive` of products.

### What stays with TLC

* `TestReturns` and both `EveryoneLeaves`: liveness under fairness, and `ENABLED`. All invariants
  and action properties of the passing runs are theorems.
* The findings: a counterexample is a run.

## 6. Not modelled

* Discard server: it releases what it reads, keeps no state and never answers.
* Spark launchers: they start a process and wait for its end. What can go wrong is in
  the pipe between the processes and in what the child writes, neither of which is
  in this repository.
* Web UI pages: scripts saved from Spark's own web UI, with vendored libraries.
* `LineCounter`, `JVMMXBeans`, `HelloWorld*`, `Main.scala`: single statements.
* `deploy/`, `docs/`: configuration and notes.
* Of the modelled programs: printing, drawing styles, pickling, parsing of text, and
  floating-point rounding except where a tie depends on it.

## 7. Plan

Done: all components above that keep state, and proofs of every safety property that a
passing run checks. What could follow:

1. The arithmetic of floats where it decides: which count a decimal `minSupport` means,
   gains that are equal but for the last bit. Both need rounding in the model.
2. That each recursion ends, as a measure that falls with every step: the finiteness of
   `createTree`, `mineTree` and `plotTree` is now a liveness property for small trees.
