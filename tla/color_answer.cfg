CONSTANTS
  Workers = {w1, w2, w3}
  Strategies = {"COLOR_dfs_strategy"}
  MaxDepth = 3
  MaxOpt = 3
  DsaturExcess = 2
  MaxFaults = 0
SPECIFICATION Spec
INVARIANT OptColorsIsOptimal
CHECK_DEADLOCK FALSE
