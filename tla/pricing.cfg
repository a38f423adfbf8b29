CONSTANTS
  One = 10
  Threshold = 11
  DenseDensity = 80
  NodeLimit = 10000
  MaxSets = 2
  Instances <- MCInstances
  Options <- MCOptions
SPECIFICATION Spec
INVARIANTS
  AddedColumnsFit
  KeepsTheBest
PROPERTIES
  NothingMissed
CHECK_DEADLOCK FALSE
