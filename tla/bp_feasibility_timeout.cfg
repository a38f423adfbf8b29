CONSTANTS
  DBLMAX = 4
  MaxFree = 3
  LowerBounds <- MCLowerBounds
  LimitStates <- MCOneLimit
  SearchModes <- MCTwoModes
  RelaxModes <- MCOnlyFalse
  InitialBounds <- MCNoInitialBound
  PricingMayFail = FALSE
  FeasibilityMayTimeOut = TRUE
SPECIFICATION Spec
INVARIANT InfeasibilityProven
CHECK_DEADLOCK FALSE
