CONSTANTS
  Items <- LetterItems
  Datasets <- LetterDatasets
  MinCounts <- One
  Orders <- LetterOrders
SPECIFICATION Spec
\* generateFrequentItemsets returns: the last state has no successor.
CHECK_DEADLOCK FALSE
INVARIANT NothingMissed
