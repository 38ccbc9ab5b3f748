SPECIFICATION Spec
CONSTANTS
  Data <- MCData
  NumElements = 2
  Units <- MCUnits
  FirstBound <- MCFirstBound
  Tolerance <- MCTolerance
  Finest <- MCFinest
  Errors <- MCErrors
  Strays <- MCStrays
  Shrinks = 3
  max_iter = 3
INVARIANTS ToleranceIsReal ReportIsHonest
PROPERTIES EveryIterationCounts
CHECK_DEADLOCK FALSE
