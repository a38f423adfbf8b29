CONSTANTS
  DBLMAX = 4
  MaxFree = 3
  LowerBounds <- MCLowerBounds
  LimitStates <- MCTwoLimits
  SearchModes <- MCTwoModes
  RelaxModes <- MCOnlyFalse
  InitialBounds <- MCNoInitialBound
  PricingMayFail = FALSE
  FeasibilityMayTimeOut = FALSE
SPECIFICATION Spec
INVARIANTS
  ListBelowPrimal
  OptimumCovered
  DfsDualBoundIsValid
PROPERTIES
  Refinement
  Terminates
CHECK_DEADLOCK FALSE
