SPECIFICATION Spec
CONSTANTS
    NoAddr = NoAddr
    Addr <- MCAddr
    Word <- MCWord
    Configs <- Captured
    Frames <- CapturedFrames
    Nodes = {5, 6}
    ClientIDs = {768, 770}
    MaxFrames = 3
INVARIANT ResourcesAreKept
CHECK_DEADLOCK FALSE
