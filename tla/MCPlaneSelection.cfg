CONSTANTS
  NumLids = 2
  Planes = 4
  Cubic = TRUE
  DpBits = 4
  Sizes = {1, 9}
  MaxUnits = 40
  HeaderSize = 1
  UnpredSize = 2
  WordBits = 8
  MaxBytes = 76
SPECIFICATION Spec
INVARIANTS
  OptimalWithinLimit
  WithinTarget
  LeastUncertainty
  WithinBudget
PROPERTY TighterReadsMore
CHECK_DEADLOCK FALSE
