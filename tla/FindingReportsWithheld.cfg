SPECIFICATION FairSpec
CONSTANTS
    a = a
    b = b
    Op <- Two
    Time <- Steady
    Lookback = 2
    Object <- TwoObjects
    ObjectOf <- Again
    Matching <- First
    MaxConcurrent = 2
    ItemCeiling = 9
    MaxJobs = 3
    Faults = {}
    MaxFaults = 0
PROPERTIES
    EventuallyReported
