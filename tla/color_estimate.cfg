CONSTANTS
  MaxDepth = 1
  MaxOpt = 5
  DsaturExcess = 1
  MaxSlack = 1
  Parms <- MCDefaults
  MaxCrashes = 0
SPECIFICATION Spec
INVARIANTS
  OptColorsIsOptimal
CHECK_DEADLOCK FALSE
