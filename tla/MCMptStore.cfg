CONSTANTS
  v1 = v1
  v2 = v2
  Nibbles = {0, 1, 2}
  Keys <- MCKeys
  Values = {v1, v2}
SPECIFICATION StoreSpec
INVARIANTS
  TrieWellFormed
  RootIsContents
  ResultsTruthful
  GetTruthful
PROPERTIES
  OnlyUpdatesChangeRoot
