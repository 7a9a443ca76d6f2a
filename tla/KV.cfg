SPECIFICATION FairSpec
CONSTANTS
    F = 2
    W = 3
    R = 2
    Writes = {w1, w2}
    Reads = {atLeader, atFollower}
    atLeader = atLeader
    atFollower = atFollower
    At <- MCAt
    Lossy = TRUE
    Restarts = {0, 1}
    None = None
INVARIANTS TypeOK SameVersionSameValue AckedOnQuorum ReadAfterAck
PROPERTIES Answered ImplementsLog
CHECK_DEADLOCK FALSE
