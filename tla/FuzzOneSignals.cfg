SPECIFICATION Spec
CONSTANTS
    StageMax = 2
    TmoutLimit = 6
    SystemEffects = TRUE
    SkipSignals = TRUE
INVARIANTS
    ValidInEffect
    CreditedOnce
