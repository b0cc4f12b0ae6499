CONSTANTS
    A = A
    B = B
    C = C
    H = H
    a = a
    c = c
    h = h
    Task = {C}
    Root = Root
    Nobody = Nobody
    Parent <- MCParent
    BatchOf <- MCBatchOf
    Scopes <- MCDying
SPECIFICATION FairSpec
PROPERTIES
    OutcomeReachesRoot
CHECK_DEADLOCK FALSE
