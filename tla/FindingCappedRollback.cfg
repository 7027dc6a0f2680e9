SPECIFICATION Spec
CONSTANTS
    Op <- Four
    Time <- Steady
    Matching <- Four
    Lookback = 2
    JournalDelay = 0
    RowCap = 2
    FailureThreshold = 9
    MaxConcurrent = 2
    RecordHeadroom = 1
    TrackingOn = TRUE
    MaxJobs = 9
    Faults = {"jobFails"}
    MaxFaults = 2
INVARIANTS
    FailedWorkIsRetried
