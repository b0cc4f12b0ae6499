CONSTANTS
    k1 = k1
    k2 = k2
    c1 = c1
    b1 = b1
    conversation = c1
    body = b1
    Conversation = {c1}
    Key = {k1, k2}
    Body = {b1}
    Kind <- HumanPlain
    Size <- UnitSize
    MaxEvents = 2
    MaxBytes = 2
    MaxStalled = 1
    MaxAttempts = 2
    MaxGenerations = 1
    Progress = {"o1"}
    MaxTurns = 3
    MaxMessages = 4
    MaxCooldown = 1
    MaxFailures = 1
    MaxCrashes = 1
SPECIFICATION DeliverySpec
INVARIANTS
    ReceiptsBacked
    RecoveryContextFresh
    ReceiptCovered
CHECK_DEADLOCK FALSE
