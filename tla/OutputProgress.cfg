CONSTANTS
    Buffers = {b1, b2, b3}
    DropBuffers = {b1}
    HistoryBuffers = {}
    AbortBuffers = {b1, b3}
    FlushBuffers = {b1}
    FailingBuffers = {b1}
    CapacityBytes = 1
    MaxBytes = 1
    ChunkBytes = 2
    ChunkSizes = {1}
    MaxSeq = 2
SPECIFICATION ProgressSpec
PROPERTIES FlushReturns CloseDrains WriteReturns
CHECK_DEADLOCK FALSE
