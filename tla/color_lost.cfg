CONSTANTS
  w1 = w1
  w2 = w2
  Workers <- MCWorkers
  Strategies <- MCStrategies
  MaxDepth = 2
  MaxOpt = 4
  DsaturExcess = 1
  MaxFaults = 1
SPECIFICATION Spec
INVARIANT OptColorsIsOptimal
CHECK_DEADLOCK FALSE
