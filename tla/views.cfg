SPECIFICATION ViewsSpec
CONSTANTS
    d1 = d1
    d2 = d2
    s1 = s1
    s2 = s2
    h1 = h1
    h2 = h2
    None = None
    Drivers = {d1, d2}
    Stores = {s1, s2}
    Handlers = {h1, h2}
    MaxReads = 1
    MaxAsks = 1
    MaxLoss = 1
CHECK_DEADLOCK FALSE
INVARIANTS
    CustomerSeesPresent
    StoresSeePresent
    DriversSeePresent
SYMMETRY Alike
