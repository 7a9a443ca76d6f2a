SPECIFICATION Spec
CONSTANTS
    DbTypes = {"mysql", "dynamodb"}
    Creates = {c1, c2}
    Adds = {a1, a2, a3, a4}
    Products = {p1, p2}
    CartOf <- MCCartOf
    ProductOf <- MCProductOf
    Serial = {"dynamodb"}
    FaultsOf <- Withstood
    SeedModulus = 3
    MaxTime = 3
    None = None
    c1 = c1
    c2 = c2
    a1 = a1
    a2 = a2
    a3 = a3
    a4 = a4
    p1 = p1
    p2 = p2
INVARIANTS TypeOK AddsKept
PROPERTIES ImplementsCartStore
CHECK_DEADLOCK FALSE
