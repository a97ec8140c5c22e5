SPECIFICATION Spec
CONSTANTS
    n1 = n1
    n2 = n2
    a1 = a1
    a2 = a2
    NoAddr = NoAddr
    Addr <- MCAddr
    Word <- MCWord
    Unlimited <- MCUnlimited
    DefaultBackoff = 1
    DefaultMaxBackoff = 3
    Node = {n1}
    Objects <- OneObject
    Mode = "once"
    Retry = TRUE
    RetryLimits = {1}
    Backoff = 5
    MaxBackoff = 0
    SegmentCount = 1
    Lossy = FALSE
    MaxSamples = 2
    MaxRounds = 1
    MaxBus = 2
INVARIANT DelaysAreBounded
