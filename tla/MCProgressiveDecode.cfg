CONSTANTS
  NumLids = 2
  Planes = 3
  MaxCalls = 4
  Targets <- MCTargets
  Selected <- MCSelected
SPECIFICATION Spec
INVARIANTS
  TypeOK
  DecodeInv
  ExactSelection
  RetrievedIsAccessed
  NothingBeyondTarget
PROPERTIES
  FreshIsClean
  ImplementsStore
CHECK_DEADLOCK FALSE
