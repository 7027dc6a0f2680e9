SPECIFICATION FairSpec
CONSTANTS
    a = a
    b = b
    Op <- Three
    Time <- Steady
    Lookback = 2
    Object <- TwoObjects
    ObjectOf <- Again
    Matching <- Three
    MaxConcurrent = 2
    ItemCeiling = 1
    MaxJobs = 3
    Faults <- StoredScans
    MaxFaults = 2
INVARIANTS
    TypeOK
    WholeWave
PROPERTIES
    OutcomesKept
    PublishedOnce
    AllClearIsTrue
    ImplementsReport
    EventuallyReported
