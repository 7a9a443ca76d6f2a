SPECIFICATION BusySpec
CONSTANTS
    Clients = {c1, c2, c3}
    FailThreshold = 2
    HalfOpenMax = 2
    Cooldown = 2
    Timeout = 1
    MaxConcurrent = 2
INVARIANTS TypeOK SlotsHeld GateReopens OnlyProbesDecide
PROPERTIES Recovers
