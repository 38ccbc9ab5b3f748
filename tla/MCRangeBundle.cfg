SPECIFICATION Spec
CONSTANTS
  StreamSize = 5
  MaxLog = 3
  NumLids = 2
  Planes = 3
  HeaderSize = 2
  UnpredSize = 1
  Sizes = {1, 2}
INVARIANTS NoSilentZeros NoFalseAlarm FetchedFillsItsBuffer
PROPERTIES ShipsWhatWasRead BundleRebuilds LandsOnTheSameBlocks AccountsAgree
CHECK_DEADLOCK FALSE
