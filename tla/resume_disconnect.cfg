SPECIFICATION Spec
CONSTANTS
  r1 = r1
  r2 = r2
  Reqs = {r1, r2}
  Declared = 2
  MaxChunk = 2
  MaxSpill = 2
  Splits = {0, 1}
  PartRetries = 1
  MaxGens = 2
  MaxParts = 2
  DocCap = 4
  Faults = {"disconnect"}
SYMMETRY Symmetry
INVARIANT RowFaithful
CHECK_DEADLOCK FALSE
