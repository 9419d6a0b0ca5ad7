---- MODULE MCTreePlotter ----
(***************************************************************************)
(* The training sets of MCDecisionTree, whose trees are drawn too.         *)
(***************************************************************************)
EXTENDS MCDecisionTree, TreePlotter
====
