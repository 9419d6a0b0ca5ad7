------------------------- MODULE MCNearestNeighbours -------------------------
(***************************************************************************)
(* Dating files of up to seven lines: one or two lines of every kind to    *)
(* test, the others from a pool with ties, equal rows and three classes.   *)
(* Digits of two pixels, and the set of createDataSet with the vector of   *)
(* test, multiplied by ten.                                                *)
(***************************************************************************)
EXTENDS NearestNeighbours

Pool == <<<<0, 0, 0, 1>>, <<0, 0, 0, 1>>, <<4, 1, 0, 1>>, <<4, 2, 2, 2>>,
          <<0, 2, 2, 2>>, <<2, 1, 1, 2>>, <<2, 0, 2, 3>>>>

\* The lines of the pool with these indices, in their order.
Picked(indices) == [n \in 1 .. Cardinality(indices) |->
                      Pool[CHOOSE x \in indices : Cardinality({y \in indices : y <= x}) = n]]

Tested == [1 .. 3 -> {0, 2}] \cup {<<4, 1, 0>>, <<1, 1, 1>>}

Selections(size) == {Picked(indices) : indices \in {x \in SUBSET (1 .. 7) : Cardinality(x) = size}}

DatingFiles ==
  {<<Append(x, c), <<0, 1, 2, 1>>>> \o rest :
      x \in Tested, c \in 1 .. 2, rest \in Selections(3)}
  \cup {<<Append(x, 1), <<3, 1, 2, 2>>, <<1, 1, 1, 2>>>> \o rest : x \in Tested, rest \in Selections(4)}
  \cup {SubSeq(Pool, 1, n) : n \in 0 .. 7}

Digit(x, c) == [x |-> x, label |-> c]

Pixels == <<Digit(<<0, 0>>, 0), Digit(<<0, 1>>, 0), Digit(<<1, 1>>, 1), Digit(<<1, 0>>, 7),
            Digit(<<1, 1>>, 7)>>

CreateDataSet == <<Digit(<<10, 11>>, 1), Digit(<<10, 10>>, 1), Digit(<<0, 0>>, 2), Digit(<<0, 1>>, 2)>>

MCPrograms ==
  [file : DatingFiles]
  \cup [train : {SubSeq(Pixels, 1, n) : n \in 0 .. 5}, test : {<<>>, SubSeq(Pixels, 2, 4)}]
  \cup [train : {CreateDataSet}, test : {<<Digit(<<1, 1>>, 2)>>}]

MCScales == {1, 3}
=============================================================================
