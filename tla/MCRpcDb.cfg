SPECIFICATION RpcSpec
CONSTANTS
  Accounts = {a1}
  Slots = {s1, s2}
  Infos = {Empty, i1}
  Empty = Empty
  Values = {0, 1}
  Zero = 0
  Parent = 1
  Lookback = 1
  MaxSubblocks = 3
  MaxRuns = 2
  EIP6780 = TRUE
SYMMETRY SlotSymmetry
CHECK_DEADLOCK FALSE
INVARIANTS RpcTypeOK ReadsAreCurrent CacheIsParent RequestsCoverReads ReplayNeedsNoProvider AncestorsCoverHashes
