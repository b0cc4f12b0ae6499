CONSTANTS
    c1 = c1
    c2 = c2
    k1 = k1
    k2 = k2
    b1 = b1
    b2 = b2
    Conversation = {c1}
    Key = {k1, k2}
    Body = {b1, b2}
    Kind <- FeedbackPlain
    Size <- TwoSizes
    MaxEvents = 2
    MaxBytes = 2
    MaxStalled = 1
    MaxAttempts = 2
    MaxGenerations = 1
    Progress = {"o1", "o2"}
    MaxTurns = 2
    MaxMessages = 4
    MaxCooldown = 1
SPECIFICATION Spec
INVARIANTS
    TypeOK
    OnePayload
    BatchBounded
    AttemptsBounded
    PositionsContiguous
    ReadyCoversWork
    RecoveryChain
PROPERTIES
    QuarantineHolds
CHECK_DEADLOCK FALSE
