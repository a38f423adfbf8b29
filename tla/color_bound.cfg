CONSTANTS
  MaxDepth = 1
  MaxOpt = 5
  DsaturExcess = 1
  MaxSlack = 0
  Parms <- MCLowBound
  MaxCrashes = 0
SPECIFICATION Spec
INVARIANTS
  TimeWasExceeded
CHECK_DEADLOCK FALSE
