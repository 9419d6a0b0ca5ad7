CONSTANTS
  no = no
  yes = yes
  Datasets <- MCDatasets
  Labels <- MCLabels
  Classes <- MCClasses
  Callers <- Everyone
SPECIFICATION PlotSpec
\* createPlot or classify returns: the last state has no successor.
CHECK_DEADLOCK FALSE
INVARIANTS
  CallRows
  TrainingClassified
  LeavesSpread
  NodesAboveLeaves
PROPERTY TestReturns
