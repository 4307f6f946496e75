SPECIFICATION Spec
CONSTANTS
    a = a
    b = b
    c = c
    Sources = {a, b, c}
    Capabilities <- MCCapabilities
    KindOf <- MCKindOf
    Position <- MCPosition
    Candidates <- MCCandidates
INVARIANT AnswerIsHonest
PROPERTIES
    RequestEnds
    ImplementsPlanRun
