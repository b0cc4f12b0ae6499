CONSTANTS
    Scopes <- AllScopes
    Typed = {2}
    FeedbackBatch = 1
SPECIFICATION FairSpec
INVARIANTS
    ToldOnce
    FeedbackKeepsRevision
PROPERTIES
    CycleEnds
    EveryInputIsTold
