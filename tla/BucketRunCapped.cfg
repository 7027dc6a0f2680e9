SPECIFICATION FairSpec
CONSTANTS
    Op <- Four
    Time <- Shared
    Matching <- Four
    Lookback = 1
    JournalDelay = 1
    RowCap = 3
    FailureThreshold = 3
    MaxConcurrent = 1
    RecordHeadroom = 1
    TrackingOn = TRUE
    MaxJobs = 9
    Faults <- Transient
    MaxFaults = 3
INVARIANTS
    NothingSkipped
    ConcurrencyBound
    CounterCountsFailures
    BreakerNotLost
PROPERTIES
    ImplementsIntake
    BreakerTrips
