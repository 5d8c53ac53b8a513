SPECIFICATION Spec
CONSTANTS
  Workers = {w1, w2}
  Files <- MCFiles
  HeaderSize = 3
  BlockTag = 2
  BlockData = 2
  Chunk = 4
  MaxFaults = 0
INVARIANT Seamless
CHECK_DEADLOCK FALSE
