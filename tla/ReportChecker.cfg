SPECIFICATION FairSpec
CONSTANTS
    MaxConcurrent = 1
    RecordHeadroom = 1
    TrackingOn = TRUE
    MaxJobs = 3
    Undescribable <- FirstJob
    MissingAfter = 1
    UnreadAfter = 2
    Faults <- FaultKinds
    MaxFaults = 1
INVARIANTS
    TypeOK
    TimelyNeverAlerted
    AlertedWasPublished
    AlertOnce
PROPERTIES
    OverdueIsAlerted
