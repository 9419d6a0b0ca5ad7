CONSTANTS
  Programs <- MCPrograms
  Scales <- MCScales
SPECIFICATION Spec
\* A test returns or raises: the last state has no successor.
CHECK_DEADLOCK FALSE
INVARIANTS
  UnitFree
  OwnClassUnused
  NearRowsWin
  RaisesOnlyWhenSmall
