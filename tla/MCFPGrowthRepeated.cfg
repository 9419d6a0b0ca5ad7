CONSTANTS
  Items <- MCItems
  Datasets <- Repeated
  MinSupports <- Two
  Listings <- Sorted
SPECIFICATION Spec
\* mineTree returns: the last state has no successor.
CHECK_DEADLOCK FALSE
INVARIANT NothingMissed
