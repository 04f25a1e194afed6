SPECIFICATION FairSpec
CONSTANTS
  v1 = v1
  v2 = v2
  blank = blank
  BufferSize = 2
  MaxPuts = 3
  Fields <- MCFields
  KeySets <- MCKeySets
  Values <- MCValues
  Blank = blank
INVARIANTS TypeOK SlotExclusion UnreadIntact CopiedIntact
PROPERTIES FifoSpec Drained
