SPECIFICATION AddressSpec
CONSTANTS
    a1 = a1
    a2 = a2
    a3 = a3
    p1 = p1
    p2 = p2
    z1 = z1
    h1 = h1
    h2 = h2
    None = None
    Ids = {a1, a2, a3}
    Spots = {p1, p2}
    Areas = {z1}
    MaxAddresses = 2
    Editors = {h1, h2}
    MaxRequests = 4
CHECK_DEADLOCK FALSE
INVARIANTS
    OneDefault
    NothingLost
    LocationFollows
SYMMETRY Alike
