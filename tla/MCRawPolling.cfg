SPECIFICATION Spec
CONSTANTS
    Transactions <- MCTransactions
    Traffic <- MCTraffic
    Unlimited <- MCUnlimited
    DefaultBackoff = 1
    DefaultMaxBackoff = 3
    MaxRx = 2
INVARIANTS TypeOK ResponsesAreNotMixed SuccessWasEmitted FramesAreReportedOnce AttemptsAreBounded DelaysAreBounded
PROPERTIES OnceIsOnce TurnsCome ShutdownEnds
