SPECIFICATION Spec
CONSTANTS
    a1 = a1
    a2 = a2
    r1 = r1
    r2 = r2
    b1 = b1
    m1 = m1
    m2 = m2
    None = None
    Areas = {a1, a2}
    Rules = {r1, r2}
    Bookings = {b1}
    Admins = {m1, m2}
    HourlyRates = {0, 2501}
    DailyCaps = {20000}
    Multipliers = {15}
    KmRate = 1200
    Distances = {33, 333}
    StoredAt = {10, 21}
    Lengths = {1, 46, 48, 49}
    Coupons = {"WELCOME50", "WELCOME20", "none"}
    Tips = {2000}
    MaxActs = 2
CHECK_DEADLOCK FALSE
INVARIANTS
    ReturnNotRefused
    BookedTermsHold
PROPERTIES
    LongerNeverCheaper
