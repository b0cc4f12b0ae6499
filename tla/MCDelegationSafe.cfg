CONSTANTS
    A = A
    B = B
    C = C
    H = H
    a = a
    c = c
    h = h
    Task = {A, B, C, H}
    Root = Root
    Nobody = Nobody
    Parent <- MCParent
    BatchOf <- MCBatchOf
    Scopes <- MCScopes
SPECIFICATION Spec
CONSTRAINT Followed
INVARIANTS
    EventTellsOutcome
    CancelledIsDead
    NoDetachedWork
    CollectedWasGiven
    LaunchedOnce
CHECK_DEADLOCK FALSE
