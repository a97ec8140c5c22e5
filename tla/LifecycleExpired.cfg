SPECIFICATION Spec
CONSTANTS
    Pipelines <- BothSignals
    Enabled <- BothSignals
    MaxGenerations = 1
    MaxItems = 2
INVARIANT ShutdownDropsNothing
