CONSTANTS
  Pieces = {1, 2}
  RepeatedPieces = TRUE
  MaxSubblocks = 3
  MaxPerSubblock = 2
SPECIFICATION RequestSpec
INVARIANT MergedIsBlockRequests
CHECK_DEADLOCK FALSE
