CONSTANTS
    A = A
    B = B
    C = C
    H = H
    a = a
    c = c
    h = h
    Task = {A, B, C, H}
    Root = Root
    Nobody = Nobody
    Parent <- MCParent
    BatchOf <- MCBatchOf
    Scopes <- MCScopes
SPECIFICATION Spec
CONSTRAINT Launching
INVARIANTS
    TypeOK
    CapsHold
    CollectedIsQuiet
    HelpersEndWithTask
PROPERTIES
    OneOutcome
CHECK_DEADLOCK FALSE
