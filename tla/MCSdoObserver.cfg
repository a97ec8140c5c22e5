SPECIFICATION Spec
CONSTANTS
    a1 = a1
    a2 = a2
    w1 = w1
    NoAddr = NoAddr
    Addr <- MCAddr
    Word <- MCWord
    Channels = {c1}
    Frames <- MCFrames
    MaxFrames = 5
INVARIANTS TypeOK EventsAreGenuine TransfersAreTracked NoTransferIsMissed
CHECK_DEADLOCK FALSE
