CONSTANTS
    Scopes <- EdgeScopes
    Typed = {2}
    FeedbackBatch = 1
SPECIFICATION Spec
INVARIANTS
    EdgeOnce
