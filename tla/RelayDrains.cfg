CONSTANTS
    Reservations = {1,2}
    Hold = 1
    Quota = 2
    MaxConcurrency = 2
    ObservedTimes = {0}
    NanosPerMicro = 1
    Expiring = {}
    MaxLapses = 0
    MaxRenew = 0
    MaxErrors = 0
    MaxBreaks = 1
    MaxCrashes = 1
    MaxPasses = 2
SPECIFICATION FairSpec
PROPERTY JournalDrains
CHECK_DEADLOCK FALSE
