SPECIFICATION Spec
CONSTANTS
    a1 = a1
    a2 = a2
    b = b
    n1 = n1
    n2 = n2
    bad = bad
    NSources = 3
    Items <- MCItems
    IdOf <- MCIdOf
    SceneOf <- MCSceneOf
    NoScene = NoScene
    BadScene = BadScene
    Answers <- MCAnswers
    Requests <- MCRequests
    MaxItems = 5
INVARIANTS
    NoDuplicates
    NothingLeftOut
    FairShares
PROPERTY SearchEnds
