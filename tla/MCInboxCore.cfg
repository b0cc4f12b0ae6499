CONSTANTS
    c1 = c1
    c2 = c2
    k1 = k1
    k2 = k2
    b1 = b1
    b2 = b2
    Conversation = {c1, c2}
    Key = {k1, k2}
    Body = {b1}
    Kind <- HumanPlain
    Size <- UnitSize
    MaxEvents = 1
    MaxBytes = 1
    MaxStalled = 1
    MaxAttempts = 1
    MaxGenerations = 1
    Progress = {}
    MaxTurns = 3
    MaxMessages = 3
    MaxCooldown = 1
SPECIFICATION Spec
SYMMETRY ConversationSymmetry
INVARIANTS
    OneOpenTurn
    OneLiveMessage
    OnceNeverRepeats
    ProcessedTurnComplete
PROPERTIES
    NoEventLost
CHECK_DEADLOCK FALSE
