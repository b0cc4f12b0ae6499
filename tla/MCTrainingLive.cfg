SPECIFICATION Spec
CONSTANTS
    Training = {t1}
    Policies = {"above"}
    MaxCrashes = 0
    MaxChanges = 1
    MaxSamples = 1
    MaxFailures = 0
PROPERTIES
    SignalIsHandled
