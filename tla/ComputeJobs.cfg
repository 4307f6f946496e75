SPECIFICATION Spec
CONSTANTS
    s1 = s1
    s2 = s2
    q1 = q1
    q2 = q2
    Submits = {s1, s2}
    Queries = {q1, q2}
    TaskTypes <- MCTaskTypes
    Workers = 1
    Configured = TRUE
    OutputPrefix = TRUE
    MaxRestarts = 1
SYMMETRY MCSymmetry
INVARIANTS
    RegisteredIffReceipted
    LaunchesAccountedFor
PROPERTIES
    FinalUnlessOvertaken
    ImplementsLedger
