CONSTANTS
  a1 = a1
  a2 = a2
  a3 = a3
  Accounts <- MCAccounts
  SharedSets <- MCShared
  Number = 3
  OldestAncestor = 1
  MaxFaults = 3
  MaxProofRetries = 2
  ChunkSize = 2
  NoProof = NoProof
  Missing = Missing
  Damaged = Damaged
  MaxSubblocks = 2
  Diff <- MCDiff
SPECIFICATION FairBinarySpec
INVARIANTS
  
  AggregatorOfOneFork
  DumpConsistent
  ProofsComplete
PROPERTY
  DumpFinishes
CHECK_DEADLOCK FALSE
