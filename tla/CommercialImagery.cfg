SPECIFICATION Spec
CONSTANTS
    MaxAttempts = 3
    PageSets <- MCPageSets
    Limits = {1, 2, 5}
    MaxItems = 3
    MaxPages = 2
INVARIANTS
    SpentOnlyOnConfirm
    ConfirmationIsTrue
    OrdersAccountedFor
    FirstScenes
PROPERTY CallEnds
