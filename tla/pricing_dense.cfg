CONSTANTS
  One = 10
  Threshold = 11
  DenseDensity = 80
  NodeLimit = 10000
  MaxSets = 2
  Instances <- MCDenseInstances
  Options <- MCDefaultOptions
SPECIFICATION Spec
INVARIANTS
  ZeroIsProof
CHECK_DEADLOCK FALSE
