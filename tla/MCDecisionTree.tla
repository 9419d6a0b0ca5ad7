--------------------------- MODULE MCDecisionTree ---------------------------
(***************************************************************************)
(* Every training set of one to five rows with two binary features, or of  *)
(* one to three rows with three, in one order of the rows; a parity of     *)
(* three features; a feature with three values; and the set of             *)
(* createDataSet.                                                          *)
(***************************************************************************)
EXTENDS DecisionTree

CONSTANTS no, yes

MCLabels == <<"no surfacing", "flippers", "head">>
MCClasses == {no, yes}

Rows(n) == {f \o <<c>> : f \in [1 .. n -> {0, 1}], c \in MCClasses}

\* A number for every row, to sort them by.
Code(row) ==
  LET Digit(k) == IF row[k] \in {1, yes} THEN 2 ^ k ELSE 0
  IN  FoldFunction(+, 0, [k \in DOMAIN row |-> Digit(k)])

\* Each multiset of m rows once.
RowsTaken(n, m) ==
  {data \in [1 .. m -> Rows(n)] : \A i \in 1 .. m - 1 : Code(data[i]) <= Code(data[i + 1])}

CreateDataSet ==
  <<<<1, 1, yes>>, <<1, 1, yes>>, <<1, 0, no>>, <<0, 1, no>>, <<0, 1, no>>>>

Parity == <<<<0, 0, 1, yes>>, <<0, 1, 0, yes>>, <<1, 0, 0, yes>>, <<1, 1, 1, yes>>, <<1, 1, 0, no>>>>

ThreeValues == <<<<0, 0, no>>, <<1, 0, yes>>, <<1, 1, no>>, <<2, 1, yes>>, <<2, 0, yes>>>>

MCDatasets ==
  UNION {RowsTaken(2, m) : m \in 1 .. 5} \cup UNION {RowsTaken(3, m) : m \in 1 .. 3}
  \cup {CreateDataSet, Parity, ThreeValues}

ExclusiveOr == {<<<<0, 0, no>>, <<0, 1, yes>>, <<1, 0, yes>>, <<1, 1, no>>>>}

Everyone == {"copies", "shares"}
=============================================================================
