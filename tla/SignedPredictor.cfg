SPECIFICATION CallsSpec
CONSTANTS
    MaxRecords = 3
    PageLimit <- MCPageLimit
    DayLength = 2
    CdoLimit = 2
    Bytes = 3
    Symbols = 2
    FirstWidth = 3
    LastWidth = 4
    MortonBits = 2
    CopcStep = 2
    MaxDepth = 2
    MaxOctreeTiles = 3
    MaxTiles = 9
    MaxUris = 2
    Batch = 2
    MaxPolls = 3
    MaxFeatures = 3
    MaxPage = 2
    Tools = {"row"}
    Images <- MCImages
    Boxes <- MCBoxes
    LzwData <- MCLzwData
    Rows <- MCSignedRows
    FloatRows <- MCFloatRows
    Splits <- MCSplits
    Grids <- MCGrids
    Grain = 2
    CandidateMultiplier = 1
    Histories <- MCHistories
    Searches <- MCSearches
    Planes <- MCPlanes
    Mosaics <- MCMosaics
    Areas <- MCAreas
    Spans <- MCSpans
    Layouts <- MCLayouts
INVARIANT IntegersComeBack
