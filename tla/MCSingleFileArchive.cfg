SPECIFICATION Spec
CONSTANTS
  Base = 6
  Width = 2
  HeaderCells = 1
  NumBlocks = 2
  Metadata <- MCMetadata
  Payloads <- MCPayloads
  MaxCommits = 2
INVARIANTS ReaderNeverLies CloseCompletes UnclosedIsEmpty SizesExact
