SPECIFICATION Spec
CONSTANTS
    DocCap = 6
    MaxParts = 2
    Sizes = {0, 4}
    Bodies = {3, 4, 5}
    Splits = {0, 2}
    Limit = 5
    Block = 2
    MaxChunk = 2
    QueueCap = 1
    HeaderSize = 1
    BlockTag = 1
    BlockData = 2
    MaxFaults = 2
INVARIANT StoredUnlessStale
PROPERTIES Answered TasksEnd
PROPERTY Implements
CHECK_DEADLOCK FALSE
