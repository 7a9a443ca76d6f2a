SPECIFICATION Spec
CONSTANTS
    N = 3
    Writes = {w1, w2}
    w1 = w1
    At <- TwoCoordinators
    Lossy = TRUE
    Restarts = {1, 2, 3}
    None = None
INVARIANTS TypeOK AckedEverywhere CoordinatorConsistent
CHECK_DEADLOCK FALSE
