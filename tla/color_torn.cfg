CONSTANTS
  MaxDepth = 1
  MaxOpt = 5
  DsaturExcess = 1
  MaxSlack = 0
  Parms <- MCBackups
  MaxCrashes = 1
SPECIFICATION Spec
INVARIANTS
  OptColorsIsOptimal
CHECK_DEADLOCK FALSE
