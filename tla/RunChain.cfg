SPECIFICATION ChainSpec
CONSTANTS
    red = red
    Op <- Five
    Time <- Each
    Version <- Five
    Key <- Five
    Tag <- TagNames
    VersionOf <- Each
    KeyOf <- Each
    TagsOf <- AllRed
    SeqNo <- Each
    Archived <- None
    Rules <- RedRule
    Deletable <- None
    Lookback = 1
    JournalDelay = 0
    RowCap = 2
    ChainLimit = 2
    MaxTicks = 3
    Faults <- ChainFaults
    MaxFaults = 2
INVARIANTS
    ChainTypeOK
    ChainBounded
    DrainedUnlessStopped
PROPERTIES
    ChainEarned
CHECK_DEADLOCK FALSE
