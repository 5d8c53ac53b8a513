SPECIFICATION Spec
CONSTANTS
  r1 = r1
  r2 = r2
  Reqs = {r1, r2}
  Declared = 2
  MaxChunk = 2
  MaxSpill = 1
  Splits = {1}
  PartRetries = 0
  MaxGens = 2
  MaxParts = 2
  DocCap = 4
  Faults = {"disconnect", "disk", "rpc", "crash"}
SYMMETRY Symmetry
INVARIANT SingleCompletion
INVARIANT RowSound
CHECK_DEADLOCK FALSE
