SPECIFICATION Spec
CONSTANTS
    Adds = {a1, a2, a3}
    Reads = {g1}
    Seed = Seed
    Seeds = 1
    Zero = Zero
    Garbage = Garbage
    None = None
SYMMETRY AddSymmetry
INVARIANTS TypeOK ListsAnswered ListsExactly
CHECK_DEADLOCK FALSE
