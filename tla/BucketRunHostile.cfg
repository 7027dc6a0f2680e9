SPECIFICATION Spec
CONSTANTS
    Op <- Three
    Time <- Steady
    Matching <- Three
    Lookback = 2
    JournalDelay = 2
    RowCap = 2
    FailureThreshold = 2
    MaxConcurrent = 1
    RecordHeadroom = 1
    TrackingOn = TRUE
    MaxJobs = 7
    Faults <- FaultKinds
    MaxFaults = 3
INVARIANTS
    TypeOK
    ReadFitsCap
    CounterBelowThreshold
PROPERTIES
    WatermarkNeverRegresses
