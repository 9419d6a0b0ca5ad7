CONSTANTS
  no = no
  yes = yes
  Datasets <- ExclusiveOr
  Labels <- MCLabels
  Classes <- MCClasses
  Callers <- Everyone
SPECIFICATION Spec
\* classify returns: the last state has no successor.
CHECK_DEADLOCK FALSE
INVARIANT BranchesAreValues
