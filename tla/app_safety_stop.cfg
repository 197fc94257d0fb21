SPECIFICATION Spec
CONSTANTS
    MaxScripts = 1
    MaxRuns = 1
    None = None
PROPERTIES
    SafetyStopNeverPasses
CHECK_DEADLOCK FALSE
