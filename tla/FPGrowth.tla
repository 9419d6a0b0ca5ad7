------------------------------ MODULE FPGrowth ------------------------------
(***************************************************************************)
(* createTree and mineTree of examples/mlia/src/fpm/fpgrowth.py, called    *)
(* the way test1 calls them: the pattern base of the dataset is turned     *)
(* into an FP-tree, and for every item of its header table the conditional *)
(* pattern base is turned into a tree that is mined recursively.           *)
(*                                                                         *)
(* A node of a tree is the path of items that leads to it from the root;   *)
(* its parent is the path without its last item.  The node links of an     *)
(* item are the sequence of its nodes.  The recursion of mineTree is a     *)
(* stack of frames.  One step counts the items of a pattern base, inserts  *)
(* one pattern, or mines one item of a header table.                       *)
(***************************************************************************)
EXTENDS Itemsets, SequencesExt

CONSTANTS Datasets,     \* the datasets that may be mined
          MinSupports,  \* the support thresholds, which are counts here
          Listings      \* the orders in which effectiveItems.items() may list

ASSUME DatasetsAssumption == Datasets \subseteq Seq(Itemset)
ASSUME MinSupportsAssumption == MinSupports \subseteq Nat \ {0}

\* A listing gives the items of each pattern different positions.
ASSUME ListingsAssumption ==
  \A listing \in Listings : \A p \in Itemset :
    \A x, y \in p : listing[p][x] \in Nat /\ (listing[p][x] = listing[p][y] => x = y)

\* Two patterns list the items that they share in the same order.
ConsistentListing(list) ==
  \A p, q \in Itemset : \A x, y \in p \cap q :
    list[p][x] < list[p][y] <=> list[q][x] < list[q][y]

VARIABLES dataset,           \* the transactions
          minSupport,        \* argument: the least support count
          pc,                \* what happens next
          patternBase,       \* pattern -> count, the patterns not inserted yet
          listing,           \* the order of the dicts of this createTree
          headerTable,       \* item -> support count
          nodeLinks,         \* item -> its nodes, in the order of the list
          fpTree,            \* node -> count
          suffixPattern,     \* the pattern that the tree under construction is for
          stack,             \* the calls of mineTree, the innermost one last
          frequentItemsets   \* itemset -> how often it was appended

treeVars == <<headerTable, nodeLinks, fpTree>>
vars == <<dataset, minSupport, pc, patternBase, listing, treeVars,
          suffixPattern, stack, frequentItemsets>>

Init ==
  /\ dataset \in Datasets
  /\ minSupport \in MinSupports
  /\ pc = "createTree"
  \* createInitPatternBase: a transaction that occurs again is overwritten.
  /\ patternBase = [p \in ToSet(dataset) |-> 1]
  /\ listing = EmptyDict
  /\ headerTable = EmptyDict /\ nodeLinks = EmptyDict /\ fpTree = EmptyDict
  /\ suffixPattern = {}
  /\ stack = <<>>
  /\ frequentItemsets = EmptyDict

-----------------------------------------------------------------------------
\* How often an item occurs in a pattern base.
Occurrences(x, base) == SumFunctionOnSet(base, {p \in DOMAIN base : x \in p})

\* A faulty variant: items that just reach minSupport are removed too.
MeetsSupport_Strict(count) == count > minSupport

MeetsSupport(count) == count >= minSupport

\* The first pass of createTree.  Without a frequent item it returns None, and
\* the caller goes on with its next item; test1 has no tree to display.
CountItems ==
  /\ pc = "createTree"
  /\ LET items == UNION DOMAIN patternBase
         frequent == {x \in items : MeetsSupport(Occurrences(x, patternBase))}
     IN  IF frequent = {}
         THEN /\ pc' = IF stack = <<>> THEN "raised" ELSE "mine"
              /\ UNCHANGED <<listing, treeVars>>
         ELSE /\ headerTable' = [x \in frequent |-> Occurrences(x, patternBase)]
              /\ nodeLinks' = [x \in frequent |-> <<>>]
              /\ fpTree' = EmptyDict
              /\ listing' \in Listings
              /\ pc' = "insert"
  /\ UNCHANGED <<dataset, minSupport, patternBase, suffixPattern, stack, frequentItemsets>>

\* sorted(..., reverse=True) is stable: items of the same support stay in the
\* order in which the dict lists them.
ListedBefore(x, y, p) ==
  \/ headerTable[x] > headerTable[y]
  \/ headerTable[x] = headerTable[y] /\ listing[p][x] < listing[p][y]

OrderedItems(p) ==
  LET effective == p \cap DOMAIN headerTable
  IN  [i \in 1 .. Cardinality(effective) |->
         CHOOSE x \in effective :
           Cardinality({y \in effective : ListedBefore(y, x, p)}) = i - 1]

\* Faulty variants: a node that exists takes the new count; a new node is linked
\* only while its item has no other.
Increment_Overwrites(count, by) == by
UpdateLinkedList_HeadOnly(list, new) == IF list = <<>> THEN new ELSE list

Increment(count, by) == count + by

UpdateLinkedList(list, new) == list \o new

\* updateTree: add the count to the nodes along the path, and link the nodes
\* that are new at the end of the lists of their items.
UpdateTree(path, count) ==
  LET nodes == {SubSeq(path, 1, i) : i \in DOMAIN path}
      NewOf(x) == SetToSeq({n \in nodes \ DOMAIN fpTree : Last(n) = x})
  IN  /\ fpTree' = UpdateDict(fpTree, [n \in nodes |-> IF n \in DOMAIN fpTree
                                                       THEN Increment(fpTree[n], count)
                                                       ELSE count])
      /\ nodeLinks' = [x \in DOMAIN nodeLinks |-> UpdateLinkedList(nodeLinks[x], NewOf(x))]

\* The second pass of createTree handles the patterns in the order of a dict.
InsertPattern ==
  /\ pc = "insert"
  /\ \E p \in DOMAIN patternBase :
       /\ UpdateTree(OrderedItems(p), patternBase[p])
       /\ patternBase' = [q \in DOMAIN patternBase \ {p} |-> patternBase[q]]
  /\ UNCHANGED <<dataset, minSupport, pc, listing, headerTable, suffixPattern, stack,
                 frequentItemsets>>

\* createTree returns and mineTree is called with the tree.
CallMineTree ==
  /\ pc = "insert" /\ patternBase = EmptyDict
  /\ stack' = Append(stack, [header |-> headerTable, links |-> nodeLinks, tree |-> fpTree,
                             suffix |-> suffixPattern, items |-> DOMAIN headerTable])
  /\ pc' = "mine"
  /\ UNCHANGED <<dataset, minSupport, patternBase, listing, treeVars, suffixPattern,
                 frequentItemsets>>

\* A faulty variant: the item itself is left in its prefix path.
Prefix_WithItem(n) == ToSet(n)

\* ascendTree collects the names from the parent up to the root; the entry of a
\* prefix path that is met again is overwritten by the later node.
Prefix(n) == ToSet(Front(n))

\* A faulty variant: every conditional pattern is counted once.
FindConditionalPatternBase_Once(links, tree) ==
  [P \in {Prefix(links[i]) : i \in {j \in DOMAIN links : Len(links[j]) > 1}} |-> 1]

FindConditionalPatternBase(links, tree) ==
  LET withPrefix == {i \in DOMAIN links : Len(links[i]) > 1}
      LastWith(P) == CHOOSE i \in withPrefix :
                       Prefix(links[i]) = P
                       /\ \A j \in withPrefix : Prefix(links[j]) = P => j <= i
  IN  [P \in {Prefix(links[i]) : i \in withPrefix} |-> tree[links[LastWith(P)]]]

\* A faulty variant: the item mined stays in the list of items to mine.
LoopOn_Again(x) == UNCHANGED stack

LoopOn(x) == stack' = [stack EXCEPT ![Len(stack)].items = @ \ {x}]

\* One round of the loop of mineTree, for an item with the least count left.
MineItem ==
  /\ pc = "mine" /\ stack # <<>>
  /\ LET frame == Last(stack)
     IN  \E x \in frame.items :
           /\ \A y \in frame.items : frame.header[x] <= frame.header[y]
           /\ suffixPattern' = frame.suffix \cup {x}
           /\ frequentItemsets' = frequentItemsets (+) SetToBag({suffixPattern'})
           /\ patternBase' = FindConditionalPatternBase(frame.links[x], frame.tree)
           /\ LoopOn(x)
  /\ pc' = "createTree"
  /\ UNCHANGED <<dataset, minSupport, listing, treeVars>>

\* The loop is over: mineTree returns to the call below, or to its caller.
ReturnFromMineTree ==
  /\ pc = "mine" /\ stack # <<>> /\ Last(stack).items = {}
  /\ stack' = Front(stack)
  /\ pc' = IF stack' = <<>> THEN "returned" ELSE "mine"
  /\ UNCHANGED <<dataset, minSupport, patternBase, listing, treeVars, suffixPattern,
                 frequentItemsets>>

Next ==
  \/ CountItems \/ InsertPattern \/ CallMineTree
  \/ MineItem \/ ReturnFromMineTree

Spec == Init /\ [][Next]_vars

-----------------------------------------------------------------------------
Frames == {stack[i] : i \in DOMAIN stack}

\* The trees in memory: those being mined, and the one that is being built.
Trees ==
  Frames \cup
    (IF pc = "insert"
     THEN {[header |-> headerTable, links |-> nodeLinks, tree |-> fpTree,
            suffix |-> suffixPattern, items |-> DOMAIN headerTable]}
     ELSE {})

IsTree(t) ==
  /\ DOMAIN t.header \subseteq Items /\ \A x \in DOMAIN t.header : t.header[x] \in Nat
  /\ DOMAIN t.links = DOMAIN t.header
  /\ \A x \in DOMAIN t.links : t.links[x] \in Seq(DOMAIN t.tree)
  /\ DOMAIN t.tree \subseteq Seq(DOMAIN t.header) \ {<<>>}
  /\ \A n \in DOMAIN t.tree : t.tree[n] \in Nat
  /\ t.suffix \subseteq Items \ DOMAIN t.header /\ t.items \subseteq DOMAIN t.header

\* The types of the variables.
TypeOK ==
  /\ dataset \in Datasets /\ minSupport \in MinSupports
  /\ pc \in {"createTree", "insert", "mine", "returned", "raised"}
  /\ DOMAIN patternBase \subseteq Itemset
  /\ \A p \in DOMAIN patternBase : patternBase[p] \in Nat
  /\ \A t \in Trees : IsTree(t)
  /\ suffixPattern \in Itemset
  /\ DOMAIN frequentItemsets \subseteq Itemset

\* The node links of an item lead to each of its nodes once, and to no other,
\* and every node hangs below a node or below the root.
LinksCoverTree ==
  \A t \in Trees :
    /\ \A x \in DOMAIN t.header :
         /\ IsInjective(t.links[x])
         /\ ToSet(t.links[x]) = {n \in DOMAIN t.tree : Last(n) = x}
    /\ \A n \in DOMAIN t.tree : Len(n) > 1 => Front(n) \in DOMAIN t.tree

\* What an item weighs in the header table is on its nodes or in the patterns
\* that are still to be inserted: no pattern is lost on the way into the tree.
HeaderAccounted ==
  /\ \A t \in Frames : \A x \in DOMAIN t.header :
       t.header[x] = SumFunctionOnSet(t.tree, ToSet(t.links[x]))
  /\ pc = "insert" =>
       \A x \in DOMAIN headerTable :
         headerTable[x] = SumFunctionOnSet(fpTree, ToSet(nodeLinks[x]))
                          + Occurrences(x, patternBase)

\* No dataset has a transaction twice.  The dict of createInitPatternBase would
\* keep one of the two, with a count of 1.
NoRepeats == \A D \in Datasets : IsInjective(D)

\* A header table below the suffix S holds the supports that the itemsets
\* S + {x} have in the dataset, although it was computed from a compressed tree.
ConditionalSupports ==
  \A t \in Trees : \A x \in DOMAIN t.header :
    t.header[x] = Count(t.suffix \cup {x}, dataset)

\* No itemset is found twice, although every item of every header table is mined.
MinedOnce ==
  \A S \in DOMAIN frequentItemsets : frequentItemsets[S] = 1

Returned == pc \in {"returned", "raised"}

\* The itemsets that are found in the end include every itemset that is frequent
\* in the dataset.  (test1 raises when there is none.)
NothingMissed ==
  Returned => FrequentItemsets(dataset, minSupport) \subseteq DOMAIN frequentItemsets

\* The itemsets found so far implement the miner that FrequentMining specifies.
Mining == INSTANCE FrequentMining
            WITH frequent <- FrequentItemsets(dataset, minSupport),
                 found <- DOMAIN frequentItemsets,
                 returned <- Returned
ImplementsMining == Mining!Spec
=============================================================================
