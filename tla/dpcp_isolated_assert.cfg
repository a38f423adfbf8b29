CONSTANTS
  N = 3
  Infinity = 4
  Inputs <- MCInputs
  Callers <- MCHeuristicOnly
  Preprocessing <- MCBoth
SPECIFICATION Spec
INVARIANT IsolatedIsAlone
CHECK_DEADLOCK FALSE
