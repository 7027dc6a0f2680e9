SPECIFICATION Spec
CONSTANTS
    Op <- Four
    Time <- Steady
    Matching <- Four
    Lookback = 1
    JournalDelay = 0
    RowCap = 20
    FailureThreshold = 9
    MaxConcurrent = 1
    RecordHeadroom = 1
    TrackingOn = TRUE
    MaxJobs = 6
    Faults = {"crash"}
    MaxFaults = 1
INVARIANTS
    NothingSkipped
