CONSTANTS
  NumLids = 2
  Planes = 4
  Cubic = TRUE
  DpBits = 4
  Sizes = {1, 3}
  MaxUnits = 1
  HeaderSize = 5
  UnpredSize = 2
  WordBits = 8
  MaxBytes = 76
SPECIFICATION Spec
INVARIANT BitrateBounded
CHECK_DEADLOCK FALSE
