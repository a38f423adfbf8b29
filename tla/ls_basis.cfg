CONSTANTS
  NCount = 10
  Cutoff = 40
  PathNodes = 10
  SparseDensity = 20
  DenseDensity = 80
  NodeLimit = 10000
  SwitchOff = 1
  Instances <- MCPath
SPECIFICATION Spec
INVARIANT
  RemovedAreInBasis
