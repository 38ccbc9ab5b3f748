CONSTANTS
  NumLids = 2
  Planes = 4
  MaxCalls = 4
  MaxUnits = 20
  Targets <- MCTargets
  Selected <- MCSelected
SPECIFICATION TighterSpec
INVARIANT AnchorKeepsUp
CHECK_DEADLOCK FALSE
