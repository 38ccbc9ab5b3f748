CONSTANTS
  W = 8
  MostBelow = 260
  MostAbove = 260
  Diffs <- MCDiffs
  Group = 4
  StageSizes = {2, 4, 7}
SPECIFICATION Spec
INVARIANTS
  ErrorBounded
CHECK_DEADLOCK FALSE
