--------------------------- MODULE FrequentMining ---------------------------
(***************************************************************************)
(* What a frequent-itemset miner promises, whatever its algorithm: it      *)
(* reports frequent itemsets only, it never takes one back, and when it    *)
(* returns it has reported every one of them.  Both miners of              *)
(* examples/mlia/src/fpm are compared with this specification.             *)
(***************************************************************************)

VARIABLES frequent,     \* the frequent itemsets of the dataset being mined
          found,        \* the itemsets reported so far
          returned      \* the miner has returned

vars == <<frequent, found, returned>>

Init == found = {} /\ returned = FALSE

\* Report some more frequent itemsets, and return only once all are reported.
Report ==
  /\ ~returned
  /\ found \subseteq found'
  /\ found' \subseteq frequent
  /\ returned' \in BOOLEAN
  /\ returned' => found' = frequent
  /\ UNCHANGED frequent

Spec == Init /\ [][Report]_vars
=============================================================================
