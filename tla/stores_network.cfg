SPECIFICATION FairSpec
CONSTANTS
    o1 = o1
    s1 = s1
    s2 = s2
    b1 = b1
    h1 = h1
    h2 = h2
    None = None
    Owners = {o1}
    Stores = {s1}
    Bookings = {b1}
    Handlers = {h1, h2}
    MaxCount = 2
    MaxCrash = 1
CHECK_DEADLOCK FALSE
INVARIANTS
    OwnerDownStoresDown
PROPERTIES
    StrandsOnlyLateArrivals
    DeactivationCompletes
