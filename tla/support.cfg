SPECIFICATION FairSpec
CONSTANTS
    u1 = u1
    d1 = d1
    a1 = a1
    t1 = t1
    t2 = t2
    bk = bk
    h1 = h1
    h2 = h2
    None = None
    Users = {u1}
    Drivers = {d1}
    Admins = {a1}
    Tickets = {t1, t2}
    Booking = bk
    Handlers = {h1, h2}
    MaxOpen = 1
    MaxMessages = 3
    Answers = {"awaiting_user", "resolved"}
    MaxActs = 3
    MaxCrash = 1
CHECK_DEADLOCK FALSE
INVARIANTS
    OpenLimitHolds
    ReadsOwnMessages
PROPERTIES
    ClosedStaysClosed
    CancelIsFlagged
