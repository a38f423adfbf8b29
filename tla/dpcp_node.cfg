CONSTANTS
  N = 4
  Infinity = 5
  Inputs <- MCInputs
  Callers <- MCAllCallers
  Preprocessing <- MCBoth
SPECIFICATION Spec
INVARIANTS
  Consistent
  NodeIsExact
  BranchingSplits
  ColouringLifts
  GcpGraphIsExact
  CliquesLast
CHECK_DEADLOCK FALSE
