SPECIFICATION Spec
CONSTANTS
    base = base
    stac = stac
    vector = vector
    opsServer = opsServer
    other = other
    GeoCommon = base
    Servers = {stac, vector, opsServer}
    Unknown = {other}
    Requests <- MCRequests
    MaxOps = 2
    MaxCrashes = 1
INVARIANTS
    OthersUntouched
    AllOrNothing
PROPERTY OperationsEnd
