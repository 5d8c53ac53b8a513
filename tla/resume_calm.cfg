SPECIFICATION FairSpec
CONSTANTS
  r1 = r1
  r2 = r2
  Reqs = {r1, r2}
  Declared = 3
  MaxChunk = 2
  MaxSpill = 3
  Splits = {0, 2}
  PartRetries = 1
  MaxGens = 2
  MaxParts = 2
  DocCap = 4
  Faults = {}
INVARIANT TypeOK
INVARIANT SpillMatches
INVARIANT OneFanOutRunning
PROPERTY CompletionAnswered
PROPERTY UploadersEnd
PROPERTY Implements
CHECK_DEADLOCK FALSE
