CONSTANTS
  N = 3
  Infinity = 5
  Inputs <- MCInputs
  Callers <- MCByp
  Preprocessing <- MCOn
  Algorithms <- MCNone
  Checks <- MCEnum
  MaxPasses = 1
  IlpMayTimeOut = FALSE
SPECIFICATION HSpec
INVARIANTS
  HeurSolutionIsColouring
CHECK_DEADLOCK FALSE
