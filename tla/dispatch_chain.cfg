SPECIFICATION FairSpec
CONSTANTS
    b1 = b1
    d1 = d1
    d2 = d2
    None = None
    Bookings = {b1}
    Drivers = {d1, d2}
    MaxSearch = 1
    MaxMishap = 1
CHECK_DEADLOCK FALSE
INVARIANTS
    OneChain
    NeverForgotten
PROPERTIES
    AskedOnce
    GivenUpOnlyExhausted
    SearchEnds
