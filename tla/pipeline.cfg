SPECIFICATION Spec
CONSTANTS
  Workers = {w1, w2, w3}
  Total = 8
  QueueCap = 3
  MaxFail = 3
INVARIANTS Delivered NoPartTwice
PROPERTIES Implements Returns
CHECK_DEADLOCK FALSE
