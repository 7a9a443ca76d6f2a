SPECIFICATION FairTestSpec
CONSTANTS
    F = 2
    W = 1
    R = 3
    Writes = {w1, w2}
    Reads = {atLeader, atFollower}
    atLeader = atLeader
    atFollower = atFollower
    At <- MCAt
    Lossy = FALSE
    Restarts = {0}
    None = None
    Concurrency = 2
INVARIANTS TesterTypeOK FlaggedOverlaps MissesExplained
PROPERTIES Converges
CHECK_DEADLOCK FALSE
