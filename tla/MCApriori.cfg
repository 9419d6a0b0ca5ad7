CONSTANTS
  Items <- MCItems
  Datasets <- MCDatasets
  MinCounts <- MCMinCounts
  Orders <- MCOrders
  MinConfs <- MCMinConfs
SPECIFICATION RulesSpec
CONSTRAINT Explored
\* mineAssociationRules returns: the last state has no successor.
CHECK_DEADLOCK FALSE
INVARIANTS
  TypeOK
  SupportsExact
  LevelsExact
  NothingMissed
  AntecedentsSupported
  LookupsDefined
  RulesSound
  RulesComplete
  RulesOnce
PROPERTIES
  ImplementsMining
