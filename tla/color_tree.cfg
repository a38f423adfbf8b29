CONSTANTS
  MaxDepth = 2
  MaxOpt = 4
  DsaturExcess = 1
  MaxSlack = 1
  Parms <- MCParms
  MaxCrashes = 1
SPECIFICATION Spec
INVARIANTS
  AnswerIsExact
  LowerBoundsAreValid
  OptimumIsKept
PROPERTIES
  Terminates
CHECK_DEADLOCK FALSE
