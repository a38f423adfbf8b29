CONSTANTS
  NCount = 6
  Cutoff = 9
  PathNodes = 6
  SparseDensity = 20
  DenseDensity = 80
  NodeLimit = 10000
  SwitchOff = 2
  Instances <- MCInstances
SPECIFICATION Spec
INVARIANTS
  SolutionIsConsistent
  SearchLosesNothing
  PricingIsExact
  CliquesAreHeaviest
PROPERTIES
  BoundIsKept
  Terminates
