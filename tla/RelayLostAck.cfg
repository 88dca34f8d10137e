CONSTANTS
    Reservations = {1}
    Hold = 1
    Quota = 1
    MaxConcurrency = 1
    ObservedTimes = {1}
    NanosPerMicro = 2
    Expiring = {}
    MaxLapses = 0
    MaxRenew = 0
    MaxErrors = 0
    MaxBreaks = 1
    MaxCrashes = 0
    MaxPasses = 2
SPECIFICATION Spec
INVARIANT LostAckIsReplayed
CHECK_DEADLOCK FALSE
