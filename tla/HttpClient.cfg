SPECIFICATION Spec
CONSTANTS
    MaxAttempts = 4
    InitialDelay = 1
    Multiplier = 3
    MaxDelay = 5
    LongestRequest = 2
    RetryAfterCap = 7
    RetryAfters <- MCRetryAfters
    Latencies <- MCLatencies
INVARIANTS
    EndIsHonest
    WaitsAreKept
PROPERTY Terminates
