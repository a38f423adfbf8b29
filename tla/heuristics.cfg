CONSTANTS
  N = 4
  Infinity = 5
  Inputs <- MCInputs
  Callers <- MCAllCallers
  Preprocessing <- MCBoth
  Algorithms <- MCAll
  Checks <- MCChecks
  MaxPasses = 2
  IlpMayTimeOut = TRUE
SPECIFICATION HSpec
INVARIANTS
  HeuristicIsColouring
  DecisionIsExact
CHECK_DEADLOCK FALSE
