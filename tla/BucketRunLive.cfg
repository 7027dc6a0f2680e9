SPECIFICATION FairSpec
CONSTANTS
    Op <- Three
    Time <- Steady
    Matching <- TwoAndThree
    Lookback = 2
    JournalDelay = 2
    RowCap = 20
    FailureThreshold = 9
    MaxConcurrent = 2
    RecordHeadroom = 1
    TrackingOn = TRUE
    MaxJobs = 12
    Faults <- Transient
    MaxFaults = 3
INVARIANTS
    TakenOnce
    FailedWorkIsRetried
    LeaseOnlyDuringRun
PROPERTIES
    UnreadReportsKept
    EventuallySubmitted
    FailedEventuallyRetried
