SPECIFICATION FairSpec
CONSTANTS
    NumSeeds = 2
    MaxQueue = 3
    NumBits = 2
    Factors = {1, 2}
    TimeoutGiven = 1
    SkipCrashes = FALSE
INVARIANTS
    TypeOK
    RefCounts
    HoldersKeepTrace
    FavoredCover
    FavoredCountedIfQuiet
    PendingCounted
PROPERTIES
    EntriesAreFuzzed
