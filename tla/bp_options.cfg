CONSTANTS
  DBLMAX = 4
  MaxFree = 2
  LowerBounds <- MCLowerBounds
  LimitStates <- MCOneLimit
  SearchModes <- MCTwoModes
  RelaxModes <- MCTwoModes
  InitialBounds <- MCAllInitialBounds
  PricingMayFail = TRUE
  FeasibilityMayTimeOut = TRUE
SPECIFICATION Spec
INVARIANTS
  OptimalIsOptimal
  InfeasibleIsInfeasible
CHECK_DEADLOCK FALSE
