CONSTANTS
    Buffers = {b1}
    DropBuffers = {b1}
    HistoryBuffers = {b1}
    AbortBuffers = {b1}
    FlushBuffers = {b1}
    FailingBuffers = {b1}
    CapacityBytes = 2
    MaxBytes = 3
    ChunkBytes = 2
    ChunkSizes = {1, 2}
    MaxSeq = 3
SPECIFICATION BufferSpec
INVARIANTS TypeOK StreamContiguous GapBytesExact CapacityHeld SleepersHaveReason
PROPERTY ImplementsStream
CHECK_DEADLOCK FALSE
