SPECIFICATION FairSpec
CONSTANTS
    h1 = h1
    h2 = h2
    None = None
    Handlers = {h1, h2}
    MaxOrders = 2
    HasEventId = TRUE
    MaxFaults = 0
CHECK_DEADLOCK FALSE
PROPERTIES
    PaidIsServed
