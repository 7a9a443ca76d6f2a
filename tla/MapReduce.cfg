SPECIFICATION Spec
CONSTANTS
    j1 = j1
    j2 = j2
    x = x
    y = y
    Jobs = {j1, j2}
    Words = {x, y}
    Text <- MCText
    Faults = {"error", "lost"}
    None = None
INVARIANTS TypeOK FinalExact FinalOfWholeParts
CHECK_DEADLOCK FALSE
