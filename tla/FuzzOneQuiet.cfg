SPECIFICATION FairSpec
CONSTANTS
    StageMax = 3
    TmoutLimit = 8
    SystemEffects = FALSE
    SkipSignals = FALSE
INVARIANTS
    TypeOK
    SessionIsReplay
    LibraryIsReplayed
    TimeoutsNeverAbandon
PROPERTIES
    EntryEnds
    ImplementsReplayLog
