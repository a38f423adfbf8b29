CONSTANTS
  DBLMAX = 4
  MaxFree = 3
  LowerBounds <- MCLowerBounds
  LimitStates <- MCOneLimit
  SearchModes <- MCOnlyFalse
  RelaxModes <- MCOnlyFalse
  InitialBounds <- MCNoInitialBound
  PricingMayFail = FALSE
  FeasibilityMayTimeOut = FALSE
SPECIFICATION Spec
INVARIANT DualBoundIsValid
CHECK_DEADLOCK FALSE
