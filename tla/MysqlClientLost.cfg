SPECIFICATION Spec
CONSTANTS
    MaxExec = 2
    MaxBoot = 2
    LongTimeout = FALSE
INVARIANTS
    LostConnectionIsReported
