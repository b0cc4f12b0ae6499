SPECIFICATION Spec
CONSTANTS
    Training = {t1}
    Policies <- MCPolicies
    MaxCrashes = 0
    MaxChanges = 0
    MaxSamples = 0
    MaxFailures = 1
INVARIANTS
    DeniedIsRepairable
