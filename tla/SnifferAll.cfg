SPECIFICATION Spec
CONSTANTS
    NoAddr = NoAddr
    Addr <- MCAddr
    Word <- MCWord
    Configs <- MCConfigs
    Frames <- MCFrames
    Nodes = {5, 6, 7}
    ClientIDs = {7, 768, 770}
    MaxFrames = 3
INVARIANTS TypeOK NmtStateIsCurrent MetricsAreDelivered LogsAreDelivered KindsAgree ResourcesAreKept
PROPERTY ObserverIsImplemented
CHECK_DEADLOCK FALSE
