CONSTANTS
    h1 = h1
    f1 = f1
    f2 = f2
    p1 = p1
    Mode <- Modes
    MaxTimeouts = 1
    Key = {h1, f1, p1}
SPECIFICATION FairThreads
INVARIANTS
    ClosedRunHasNothingPending
    SteeringNeverEndsRun
PROPERTIES
    HumanReachesModel
    FeedbackReachesModel
CHECK_DEADLOCK FALSE
