CONSTANTS
    LineSizes = {1, 2}
    BlockTarget = 2
    FileLimit = 5
    MayAge = FALSE
    FailingSteps = {"syncdir"}
    MaxCalls = 5
    MaxHistoryCrashes = 0
SPECIFICATION HistorySpec
INVARIANT FrozenReadsSameLines
CHECK_DEADLOCK FALSE
