CONSTANTS
  AggregationInputs <- MCAggregationInputs
  PublicValues <- MCPublicValues
  ParentStateRoot <- NoSteps
  MaxPublicValues = 3
SPECIFICATION AggSpec
INVARIANTS
  AggTypeOK
  AcceptedIsExecution
  AcceptedReceipts
  AcceptedBlockHashes
CHECK_DEADLOCK FALSE
