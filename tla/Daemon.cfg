CONSTANTS
    Buffers = {b1, b2}
    DropBuffers = {b1}
    HistoryBuffers = {}
    AbortBuffers = {b2}
    FlushBuffers = {}
    FailingBuffers = {}
    CapacityBytes = 1
    MaxBytes = 1
    ChunkBytes = 2
    ChunkSizes = {1}
    MaxSeq = 2
    MaxProcess = 2
    MaxOutput = 3
    MaxResize = 1
    MaxName = 1
    Renaming = {1}
    MaxPolls = 1
    EventBuffer = 5
    LineSizes = {1, 2}
    BlockTarget = 2
    FileLimit = 5
    MayAge = TRUE
    FailingSteps = {"write", "truncate", "fsync", "temp", "close", "rename", "reopen", "syncdir"}
    MaxCalls = 4
    MaxHistoryCrashes = 2
    Terminals = {"t1", "t2"}
    Requests = {"q1", "q2"}
    BaselineSizes = {1, 2}
    SessionLimit = 3
    ServerLimit = 4
    EntryLimit = 1
    MaxScreen = 2
    Kinds = {"file", "attachment"}
    FileChunks = 5
    Window = 2
    AckWhen = "window"
    RawChunks = 2
    SubscriberQueue = 1
    StreamQueue = 2
    MaxOpens = 2
SPECIFICATION DaemonSpec
INVARIANTS BudgetExact BlockLosesNothing
    PollNotForgotten RawFollowsTerminal
     IndexMatchesFile LinesInPlace SyncedLinesSurvive WithinLimit
    FrozenUnlessShifted
    BytesExact PinsMatchRequests TimerIsSet
    WindowHeld RetainedExact SyncLostExact
PROPERTY OldOutputFenced
CHECK_DEADLOCK FALSE
