SPECIFICATION Spec
CONSTANTS
    Orders = {o1, o2}
    Topologies = {{"queue"}}
    PaymentSlots = 1
    Workers = 1
    Batch = 2
    Work = 1
    Visibility = 2
    Faults = {}
    MaxFailures = 0
    LambdaRetries = 2
    None = None
INVARIANTS PaidOnce
CHECK_DEADLOCK FALSE
