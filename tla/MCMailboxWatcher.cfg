CONSTANTS
    Scopes <- ThreadScopes
    Typed = {2}
    FeedbackBatch = 1
SPECIFICATION Spec
INVARIANTS
    WatcherLives
