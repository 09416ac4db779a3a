SPECIFICATION Spec
CONSTANTS
    d1 = d1
    d2 = d2
    h1 = h1
    h2 = h2
    None = None
    Drivers = {d1}
    Handlers = {h1, h2}
    MaxActs = 5
    MaxRestart = 1
CHECK_DEADLOCK FALSE
INVARIANTS
    ListedAreFree
    FreeAreListed
PROPERTIES
    OfferedAreFree
