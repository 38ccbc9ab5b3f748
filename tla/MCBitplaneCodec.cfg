CONSTANTS
  W = 8
  MostBelow = 169
  MostAbove = 253
  Diffs <- MCDiffs
  Group = 4
  StageSizes = {2, 4, 7}
SPECIFICATION Spec
INVARIANTS
  TypeOK
  PlanesRecovered
  SplitsAddUp
  ErrorBounded
  StageAgrees
CHECK_DEADLOCK FALSE
