--------------------------- MODULE MCAprioriLayout ---------------------------
(***************************************************************************)
(* The orders in which CPython 2.7 lists the frozensets that the code      *)
(* builds for the dataset of one transaction [["k", "x", "v", "h", "f"]],  *)
(* whose items collide in the hash table.                                  *)
(***************************************************************************)
EXTENDS Apriori

Members(s) == {s[i] : i \in DOMAIN s}

\* The item that comes last where S is listed.
LastListed(listing, items) ==
  [S \in (SUBSET items) \ {{}} |->
     LET s == CHOOSE s \in listing : Members(s) = S IN s[Len(s)]]

LetterItems == {"f", "h", "k", "v", "x"}

LetterListing ==
  {<<x>> : x \in LetterItems}
  \cup {<<"x", "k">>, <<"h", "f">>, <<"x", "f">>, <<"h", "k">>, <<"k", "v">>,
        <<"f", "v">>, <<"h", "x">>, <<"h", "v">>, <<"x", "v">>, <<"k", "f">>}
  \cup {<<"x", "v", "f">>, <<"h", "v", "x">>, <<"k", "f", "v">>, <<"x", "k", "f">>,
        <<"h", "v", "f">>, <<"h", "x", "f">>, <<"h", "k", "v">>, <<"h", "k", "x">>,
        <<"h", "k", "f">>, <<"x", "k", "v">>}
  \cup {<<"x", "h", "k", "f">>, <<"x", "v", "h", "k">>, <<"f", "x", "k", "v">>,
        <<"v", "h", "k", "f">>, <<"f", "x", "h", "v">>}
  \cup {<<"f", "h", "k", "v", "x">>}    \* never merged with another set

LetterDatasets == {<<LetterItems>>}
LetterOrders == {LastListed(LetterListing, LetterItems)}

One == {1}
=============================================================================
