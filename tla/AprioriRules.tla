---------------------------- MODULE AprioriRules ----------------------------
(***************************************************************************)
(* mineAssociationRules of examples/mlia/src/fpm/apriori.py, composed with *)
(* the generateFrequentItemsets that feeds it.                             *)
(*                                                                         *)
(* The rules of an itemset grow by their consequents: the consequents that *)
(* reach minConf at one size are merged into the candidates of the next.   *)
(* A confidence is compared as the fraction of two counts.  The code       *)
(* divides two rounded quotients, so that a confidence equal to a minConf  *)
(* other than 1 and 1/2 may come out on either side of it:                 *)
(* (4/6.)/(5/6.) is less than 0.8 while (4/5.)/(5/5.) is not.              *)
(***************************************************************************)
EXTENDS Apriori

CONSTANT MinConfs       \* the thresholds minConf, as <<numerator, denominator>>

ASSUME MinConfsAssumption == MinConfs \subseteq Nat \X (Nat \ {0})

\* mineAssociationRules builds every itemset in one order of its items.
ASSUME OrdersConsistent == \A last \in Orders : ConsistentOrder(last)

VARIABLES minConf,      \* argument: the confidence threshold
          rpc,          \* where mineAssociationRules is
          level,        \* the level of L_list being mined
          pending,      \* its itemsets that are not mined yet
          itemset,      \* the itemset being mined
          HC,           \* candidate consequent -> how often it is in the list HC
          sizeConsequent,
          rules         \* <<antecedent, consequent>> -> how often it is listed

ruleVars == <<minConf, rpc, level, pending, itemset, HC, sizeConsequent, rules>>
allVars == <<vars, ruleVars>>

RulesInit ==
  /\ Init
  /\ minConf \in MinConfs
  /\ rpc = "nextLevel"
  /\ level = 1
  /\ pending = {}
  /\ itemset = {}
  /\ HC = EmptyDict
  /\ sizeConsequent = 0
  /\ rules = EmptyDict

Generate == Next /\ UNCHANGED ruleVars

\* for i in range(1, len(L_list)): the first level has no rules.
NextLevel ==
  /\ pc = "returned" /\ rpc = "nextLevel"
  /\ IF level < Len(L_list)
     THEN /\ level' = level + 1
          /\ pending' = L_list[level + 1]
          /\ rpc' = "nextItemset"
     ELSE /\ rpc' = "returned"
          /\ UNCHANGED <<level, pending>>
  /\ UNCHANGED <<vars, minConf, itemset, HC, sizeConsequent, rules>>

\* Faulty variants: the size of the consequents is not tested, or against one
\* item less.
GoesOn_AnySize(cand, size, S) == cand # EmptyDict
GoesOn_OneLess(cand, size, S) == cand # EmptyDict /\ size < Cardinality(S) - 1

\* The condition of the loop of generateRulesForItemset.
GoesOn(cand, size, S) == cand # EmptyDict /\ size < Cardinality(S)

\* Start the loop of generateRulesForItemset for an itemset of the level.
NextItemset ==
  /\ rpc = "nextItemset"
  /\ \/ \E S \in pending :
          /\ itemset' = S
          /\ pending' = pending \ {S}
          /\ HC' = [H \in {{x} : x \in S} |-> 1]
          /\ sizeConsequent' = 1
          /\ rpc' = IF GoesOn(HC', 1, S) THEN "filter" ELSE "nextItemset"
     \/ /\ pending = {}
        /\ rpc' = "nextLevel"
        /\ UNCHANGED <<pending, itemset, HC, sizeConsequent>>
  /\ UNCHANGED <<vars, minConf, level, rules>>

-----------------------------------------------------------------------------
\* The sign of confidence - minConf, for counts of the itemset and antecedent.
Above(whole, part) == whole * minConf[2] > minConf[1] * part
Equal(whole, part) == whole * minConf[2] = minConf[1] * part

\* Quotients of equal numbers and halves are exact.  Other ties are rounded: with
\* a minConf of 3/4, (3/10.)/(4/10.) is less.
TieIsExact == minConf[1] = minConf[2] \/ minConf[2] \in {1, 2}

Whole == supports[itemset]

\* A faulty variant: the support of the consequent for that of the antecedent.
Part_Consequent(H) == supports[H]

Part(H) == supports[itemset \ H]

\* The consequents whose confidence may test as large, and those that must.
MayPass == {H \in DOMAIN HC : Above(Whole, Part(H)) \/ Equal(Whole, Part(H))}
MustPass == {H \in MayPass : Above(Whole, Part(H)) \/ TieIsExact}

\* rules.append for every element of the list HC that is in HL.
WithRules(HL) ==
  LET new == [r \in {<<itemset \ H, H>> : H \in HL} |-> HC[r[2]]]
  IN  [r \in DOMAIN rules \cup DOMAIN new |->
         (IF r \in DOMAIN rules THEN rules[r] ELSE 0)
         + (IF r \in DOMAIN new THEN new[r] ELSE 0)]

\* One round of the loop: filterHCToFormHLAndGenerateRules, then the merge of
\* the consequents it kept.
FilterHCToFormHL ==
  /\ rpc = "filter"
  /\ \E HL \in {MustPass \cup ties : ties \in SUBSET (MayPass \ MustPass)} :
       /\ rules' = WithRules(HL)
       /\ \E last \in Orders : HC' = MergeLToFormLargerC(HL, last)
  /\ sizeConsequent' = sizeConsequent + 1
  /\ rpc' = IF GoesOn(HC', sizeConsequent', itemset) THEN "filter" ELSE "nextItemset"
  /\ UNCHANGED <<vars, minConf, level, pending, itemset>>

RulesNext == Generate \/ NextLevel \/ NextItemset \/ FilterHCToFormHL

RulesSpec == RulesInit /\ [][RulesNext]_allVars

-----------------------------------------------------------------------------
\* Both look-ups of the confidence find a support, that of the antecedent
\* among them: no candidate consequent exhausts its itemset.
LookupsDefined ==
  rpc = "filter" =>
    /\ itemset \in DOMAIN supports
    /\ \A H \in DOMAIN HC : H # itemset /\ itemset \ H \in DOMAIN supports

\* What the dataset says of the rule A -> H, whatever the code recorded.
TrueWhole(r) == Count(r[1] \cup r[2], dataset)
TruePart(r) == Count(r[1], dataset)

PossibleRules ==
  {<<q[1] \ q[2], q[2]>> :
     q \in {p \in Listed \X (Itemset \ {{}}) : p[2] \subseteq p[1] /\ p[2] # p[1]}}

\* A rule that is listed is one of a frequent itemset and reaches minConf.
RulesSound ==
  \A r \in DOMAIN rules :
    /\ r \in PossibleRules
    /\ Above(TrueWhole(r), TruePart(r)) \/ Equal(TrueWhole(r), TruePart(r))

\* Every rule above minConf is listed in the end, and every rule on a minConf of
\* which quotients are exact, whatever became of the smaller consequents that
\* rounding may have dropped on the way.
RulesComplete ==
  rpc = "returned" =>
    \A r \in PossibleRules :
      \/ Above(TrueWhole(r), TruePart(r))
      \/ TieIsExact /\ Equal(TrueWhole(r), TruePart(r))
      => r \in DOMAIN rules

\* No rule is listed twice.
RulesOnce == \A r \in DOMAIN rules : rules[r] = 1
=============================================================================
