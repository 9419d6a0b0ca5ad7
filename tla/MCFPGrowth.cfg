CONSTANTS
  Items <- MCItems
  Datasets <- MCDatasets
  MinSupports <- MCMinSupports
  Listings <- MCListings
SPECIFICATION Spec
\* mineTree returns: the last state has no successor.
CHECK_DEADLOCK FALSE
INVARIANTS
  TypeOK
  LinksCoverTree
  HeaderAccounted
  ConditionalSupports
  MinedOnce
PROPERTIES
  ImplementsMining
