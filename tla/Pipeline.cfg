SPECIFICATION FairSpec
CONSTANTS
    None = None
    Orders = {o1, o2}
    Topologies = {{"queue"}, {"lambda"}}
    PaymentSlots = 1
    Workers = 1
    Batch = 2
    Work = 1
    Visibility = 4
    Faults = {"error", "lost", "crash"}
    MaxFailures = 2
    LambdaRetries = 1
INVARIANTS TypeOK AcceptedNotLost PaidOnce
PROPERTIES AcceptedPaid Drained
CHECK_DEADLOCK FALSE
