CONSTANTS
  DBLMAX = 4
  MaxFree = 3
  LowerBounds <- MCLowerBounds
  LimitStates <- MCOneLimit
  SearchModes <- MCTwoModes
  RelaxModes <- MCOnlyFalse
  InitialBounds <- MCAllInitialBounds
  PricingMayFail = FALSE
  FeasibilityMayTimeOut = FALSE
SPECIFICATION Spec
INVARIANT OptimalityProven
CHECK_DEADLOCK FALSE
