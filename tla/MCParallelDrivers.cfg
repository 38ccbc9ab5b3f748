SPECIFICATION FairSpec
CONSTANTS
  NumRanks = 3
  Drivers = {"refactor", "retrieve", "reconstruct", "reconstruct_retrieved",
             "array_refactor", "array_reconstruct", "qoi_refactor", "PT", "Vtot"}
  Frames = 2
  Tolerances = 2
  Variables = 1
  Values = {0, 1}
  PartSizes = {1, 2}
  MayFail = TRUE
INVARIANTS CollectivesMatch RangesAgree ReportsAreComplete PartsTile
PROPERTIES AllRanksExit
CHECK_DEADLOCK FALSE
