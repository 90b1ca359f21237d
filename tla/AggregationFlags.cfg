CONSTANTS
  AggregationInputs <- MCAggregationInputs
  PublicValues <- MCPublicValues
  ParentStateRoot <- NoSteps
  MaxPublicValues = 3
SPECIFICATION AggSpec
INVARIANT AcceptedFlags
CHECK_DEADLOCK FALSE
