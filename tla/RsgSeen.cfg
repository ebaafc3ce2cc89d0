SPECIFICATION ChosenSpec
CONSTANTS
    Productions <- MCPlain
    CompNames <- MCCompNames
    CutNames <- MCCutNames
    Tokens <- MCTokens
    Forbidden <- MCForbidden
    Roots <- MCRoots
    HashBits = 3
    Depth = 0
    MaxNodes = 24
    MaxSaved = 1
    MaxSeed = 3
    MaxTries = 2
INVARIANT
    SeenWasChosen
