SPECIFICATION Spec
CONSTANTS
    n1 = n1
    n2 = n2
    a1 = a1
    a2 = a2
    NoAddr = NoAddr
    Addr <- MCAddr
    Word <- MCWord
    Unlimited <- MCUnlimited
    DefaultBackoff = 1
    DefaultMaxBackoff = 3
    Node = {n1}
    Objects <- SharedNode
    Mode = "interval"
    Retry = TRUE
    RetryLimits <- BothLimits
    Backoff = 5
    MaxBackoff = 0
    SegmentCount = 1
    Lossy = FALSE
    MaxSamples = 2
    MaxRounds = 2
    MaxBus = 1
INVARIANTS SegmentRequestsAreOwned AttemptsAreBounded LaterDelaysAreBounded
PROPERTIES OneValuePerRequest RoundsEnd ShutdownEnds
