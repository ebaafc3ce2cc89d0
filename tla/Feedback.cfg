SPECIFICATION Spec
CONSTANTS
    NumBytes = 3
    WordSize = 2
    Coms = {"insert"}
    KeepCrashes = 1
    MaxWrites = 1
INVARIANTS
    TypeOK
    CoverageKept
    CommandsKept
