CONSTANTS
    Reservations = {1,2}
    Hold = 1
    Quota = 2
    MaxConcurrency = 1
    ObservedTimes = {0}
    NanosPerMicro = 1
    Expiring = {}
    MaxLapses = 0
    MaxRenew = 0
    MaxErrors = 4
    MaxBreaks = 0
    MaxCrashes = 0
    MaxPasses = 2
SPECIFICATION Spec
INVARIANT HoldIsJournaled
CHECK_DEADLOCK FALSE
