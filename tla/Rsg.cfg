SPECIFICATION FairSpec
CONSTANTS
    Productions <- MCProductions
    CompNames <- MCCompNames
    CutNames <- MCCutNames
    Tokens <- MCTokens
    Forbidden <- MCForbidden
    Roots <- MCRoots
    HashBits = 1
    Depth = 0
    MaxNodes = 24
    MaxSaved = 1
    MaxSeed = 3
    MaxTries = 2
INVARIANTS
    TypeOK
    SeedsReplay
    TreesAreTrees
    FavPathsHaveFav
PROPERTIES
    SeedsAreKept
    GenerationEnds
