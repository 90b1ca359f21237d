CONSTANTS
  Blocks <- MCBlocks
  MaxSubblockCount = 3
  DefaultGasLimit = 10
  MaxTxs = 5
  TxGas = {1, 2, 3, 7, 20}
  Depositors = {1, 2, 5}
  Queue <- MCQueue
  Rest = "rest"
  AncestorHeaders <- MCAncestors
  AggregationInputs = {}
  PublicValues = {}
  ParentStateRoot <- NoSteps
  MaxPublicValues = 0
SPECIFICATION FairPipeSpec
INVARIANTS
  SplitTypeOK
  NoSplitPanic
  PartitionsBlock
  Balanced
  HostTypeOK
  NoHostPanic
  ClientReplaysHost
  RootsReachHeader
  SubblockCountBounded
  HostOutputsValid
  ValidBlockAccepted
PROPERTIES
  ImplementsExecution
  HeaderReturned
CHECK_DEADLOCK FALSE
