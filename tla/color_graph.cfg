CONSTANTS
  NCount = 4
  ExtraClasses = 1
SPECIFICATION Spec
INVARIANTS
  InheritedSetsFit
  RecoveredIsOriginal
  CollectedIsColouring
  BranchingIsExact
CHECK_DEADLOCK FALSE
