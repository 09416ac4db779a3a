SPECIFICATION FairSpec
CONSTANTS
    b1 = b1
    d1 = d1
    s1 = s1
    h1 = h1
    h2 = h2
    None = None
    Bookings = {b1}
    Drivers = {d1}
    Stores = {s1}
    Handlers = {h1, h2}
    Capacity <- TwoSlots
    LateCancel = TRUE
    MaxCrash = 1
CHECK_DEADLOCK FALSE
PROPERTIES
    StatusMovesFollowTable
    PendingResolved
INVARIANTS
    StoreHandoverUnreachable
