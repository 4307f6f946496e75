SPECIFICATION PagingSpec
CONSTANTS
    PageSets <- MCPageSets
    Limits = {0, 1, 2, 3, 9}
    MaxCollections = 4
INVARIANTS
    FirstMatches
    FlagIsHonest
PROPERTY PagingEnds
