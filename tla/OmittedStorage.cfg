CONSTANTS
  Keys <- MCKeys
  NoAddress = NoAddress
  NoWitness = NoWitness
  EmptyInfo = EmptyInfo
  Info1 = Info1
  Info2 = Info2
  Old = Old
  New = New
  Newer = Newer
  Nibbles = {0, 1}
  Blocks <- WithOmissions
SPECIFICATION StateSpec
INVARIANT
  UntouchedStorageKept
CHECK_DEADLOCK FALSE
