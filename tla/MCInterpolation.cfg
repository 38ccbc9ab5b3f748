SPECIFICATION WalkSpec
CONSTANTS
  Shapes <- MCShapes
  Interpolators = {"linear", "cubic"}
INVARIANTS EachElementOnce PaddingFits CostCoversLoss
PROPERTIES PredictorsAreFinal
CHECK_DEADLOCK FALSE
