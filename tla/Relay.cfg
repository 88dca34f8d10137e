CONSTANTS
    Reservations = {1,2}
    Hold = 2
    Quota = 3
    MaxConcurrency = 2
    ObservedTimes = {1}
    NanosPerMicro = 2
    Expiring = {1,2}
    MaxLapses = 1
    MaxRenew = 2
    MaxErrors = 2
    MaxBreaks = 1
    MaxCrashes = 1
    MaxPasses = 2
SPECIFICATION RelaySpec
INVARIANTS TypeOK ChargedExactly TrafficIsJournaled HoldIsJournaled RenewalInStep UsageBalanced
CHECK_DEADLOCK FALSE
