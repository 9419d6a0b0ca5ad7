CONSTANTS
  Items <- MCItems
  Datasets <- Tied
  MinSupports <- Two
  Listings <- BySlot
SPECIFICATION Spec
\* mineTree returns: the last state has no successor.
CHECK_DEADLOCK FALSE
INVARIANT NothingMissed
