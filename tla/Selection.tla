------------------------------ MODULE Selection ------------------------------
(***************************************************************************)
(* The selection of a sequence by a set: what SelectSeq does by a test, as *)
(* a recursive function, which the lemmas of DataLemmas are about.         *)
(***************************************************************************)
EXTENDS Naturals, Sequences

\* The elements of s that are in S, in the order of s.
Selected(s, S) ==
  LET among[n \in 0 .. Len(s)] ==    \* the first n elements of s
        IF n = 0 THEN <<>>
        ELSE IF s[n] \in S THEN Append(among[n - 1], s[n]) ELSE among[n - 1]
  IN  among[Len(s)]
=============================================================================
