SPECIFICATION Spec
CONSTANTS
  Workers = {w1, w2}
  Files <- MCFiles
  HeaderSize = 3
  BlockTag = 2
  BlockData = 2
  Chunk = 4
  MaxFaults = 2
INVARIANTS RangeExact NeverShort OneHolder
PROPERTIES Ends WorkersEnd
CHECK_DEADLOCK FALSE
