SPECIFICATION FairSpec
CONSTANTS
    k = k
    l = l
    m = m
    red = red
    blue = blue
    Op <- Rows
    Time <- RowTimes
    Version <- Versions
    Key <- Keys
    Tag <- TagNames
    VersionOf <- RowVersion
    KeyOf <- VersionKey
    TagsOf <- RowTags
    SeqNo <- RowNumbers
    Archived <- ArchivedRow
    Rules <- ThreeRules
    Deletable <- OldVersion
    Lookback = 4
    JournalDelay = 1
    RowCap = 40
    Faults <- QueryFaults
    MaxFaults = 1
PROPERTIES
    NoVersionStarves
