SPECIFICATION AdminSpec
CONSTANTS
    b1 = b1
    b2 = b2
    d1 = d1
    s1 = s1
    s2 = s2
    h1 = h1
    h2 = h2
    a1 = a1
    None = None
    Bookings = {b1, b2}
    Drivers = {d1}
    Stores = {s1, s2}
    Handlers = {h1, h2}
    Admins = {a1}
    Capacity <- OneSlotEach
    LateCancel = FALSE
    MaxActs = 1
    MaxCrash = 0
SYMMETRY Symmetry
VIEW SeenBySteps
CONSTRAINT TwoAtWork
CHECK_DEADLOCK FALSE
INVARIANTS
    OneTripPerDriver
    OfferedDriverIsFree
    HoldsCounted
    NeverOverbooked
