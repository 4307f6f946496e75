SPECIFICATION SteeringSpec
CONSTANTS
    Files <- MCFiles
    Names <- MCNames
    Directories <- MCDirectories
INVARIANT Mirrored
PROPERTIES
    ReportsSuffice
    ImplementsTriggers
