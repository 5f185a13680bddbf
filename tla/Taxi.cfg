SPECIFICATION FairSpec
CONSTANTS
    Drivers = {d1, d2}
    None = none
    MaxDrivers = 2
    MaxSeconds = 1
    MaxRequests = 2
    MaxSignals = 2
CHECK_DEADLOCK FALSE
INVARIANTS ReportedIsTaken AvailableIsFinal
PROPERTIES ShutdownEnds
