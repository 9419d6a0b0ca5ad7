--------------------------- MODULE MCFPGrowthLost ---------------------------
(***************************************************************************)
(* A dataset of which something is lost: g and w have the same support,    *)
(* and the two dicts that order them list w first for the pattern {g, w}   *)
(* and g first for {g, h, w}, as CPython 2.7 does for ["w", "g"] and       *)
(* ["h", "g", "w"].  (g and w have one slot: the frozenset of a pattern    *)
(* lists first the one that was added last, and the dict effectiveItems,   *)
(* which is filled from it, turns the two around again.)                   *)
(***************************************************************************)
EXTENDS FPGrowth

MCItems == {"g", "h", "w"}

Tied == {<<{"g", "w"}, {"g", "h", "w"}>>}

Two == {2}

Listed(s) == [x \in MCItems |-> CHOOSE i \in DOMAIN s : s[i] = x]

BySlot == {[p \in SUBSET MCItems |-> IF "h" \in p THEN Listed(<<"h", "g", "w">>)
                                     ELSE Listed(<<"w", "g", "h">>)]}
=============================================================================
