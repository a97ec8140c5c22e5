SPECIFICATION Spec
CONSTANTS
    Pipelines <- BothSignals
    Enabled <- BothSignals
    MaxGenerations = 2
    MaxItems = 2
INVARIANT StartedReceiversRun
