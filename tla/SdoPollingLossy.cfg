SPECIFICATION Spec
CONSTANTS
    n1 = n1
    n2 = n2
    a1 = a1
    a2 = a2
    NoAddr = NoAddr
    Addr <- MCAddr
    Word <- MCWord
    Unlimited <- MCUnlimited
    DefaultBackoff = 1
    DefaultMaxBackoff = 3
    Node = {n1, n2}
    Objects <- TwoNodes
    Mode = "once"
    Retry = FALSE
    RetryLimits = {0}
    Backoff = 1
    MaxBackoff = 3
    SegmentCount = 3
    Lossy = TRUE
    MaxSamples = 6
    MaxRounds = 1
    MaxBus = 9
INVARIANTS TypeOK ValuesAreWhole  SolePollsAreEmitted
