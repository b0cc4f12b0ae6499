SPECIFICATION Spec
CONSTANTS
    Training = {t1}
    Policies <- MCPolicies
    MaxCrashes = 0
    MaxChanges = 2
    MaxSamples = 0
    MaxFailures = 0
PROPERTIES
    SignalIsHandled
