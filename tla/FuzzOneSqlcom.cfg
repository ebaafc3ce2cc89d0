SPECIFICATION Spec
CONSTANTS
    StageMax = 1
    TmoutLimit = 4
    SystemEffects = FALSE
    SkipSignals = FALSE
INVARIANTS
    SqlcomIsOwn
