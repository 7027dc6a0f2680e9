SPECIFICATION Spec
CONSTANTS
    a = a
    b = b
    Op <- Three
    Time <- Steady
    Lookback = 2
    Object <- TwoObjects
    ObjectOf <- Again
    Matching <- Three
    MaxConcurrent = 2
    ItemCeiling = 1
    MaxJobs = 3
    Faults = {}
    MaxFaults = 0
PROPERTIES
    MergeLands
