CONSTANTS
    Pid = {1}
    Requests = {1, 2}
    TurnLease = 2
    OperationLease = 1
    StartupTimeout = 1
    InitialBackoff = 1
    MaxBackoff = 2
    MaxErrors = 1
    MaxQueue = 1
    MaxSteers = 1
SPECIFICATION Spec
INVARIANTS
    JudgedByOwnLease
    BackoffIsEarned
    LeaseShowsRequests
PROPERTIES
    HungIsReplaced
CHECK_DEADLOCK FALSE
