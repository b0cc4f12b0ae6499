SPECIFICATION Spec
CONSTANTS
    Training = {t1}
    Policies <- MCPolicies
    MaxCrashes = 1
    MaxChanges = 1
    MaxSamples = 1
    MaxFailures = 1
CONSTRAINT SamplesOrFaults
INVARIANTS
    QuietWhenTerminal
    StrayWasUnrecorded
    UnwatchedKeepsTurnOpen
    InterruptedIsCancelled
    CompletedWasTold
