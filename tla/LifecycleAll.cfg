SPECIFICATION Spec
CONSTANTS
    Pipelines <- BothSignals
    Enabled <- BothSignals
    MaxGenerations = 2
    MaxItems = 4
INVARIANTS TypeOK FirstStartRuns OneConnection NothingIsLeftBehind FramesAreFlushed
PROPERTIES SilentAfterShutdown ShutdownReturns
