CONSTANTS
  Vertices <- MCVertices
  Columns <- MCColumns
  DBLMAX = 3
  MaxFree = 1
  Objectives <- MCObjectives
  Pipelines <- MCPipelines
  Inheritance <- MCInheritance
  ColsPerIter <- MCColsPerIter
  MaxAttractive = 1
  MaxSets = 2
  MaxPositive = 2
  FeasibilityMayTimeOut = TRUE
SPECIFICATION Spec
INVARIANTS
  AnswerIsRight
PROPERTIES
  PricedColumnsAreNew
  Terminates
CHECK_DEADLOCK FALSE
