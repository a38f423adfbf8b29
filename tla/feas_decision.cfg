CONSTANTS
  N = 3
  Infinity = 5
  Inputs <- MCInputs
  Callers <- MCFeas
  Preprocessing <- MCOn
  Algorithms <- MCNone
  Checks <- MCEnum
  MaxPasses = 1
  IlpMayTimeOut = FALSE
SPECIFICATION HSpec
INVARIANTS
  DriverDecisionIsExact
CHECK_DEADLOCK FALSE
