SPECIFICATION Spec
CONSTANTS
    h1 = h1
    h2 = h2
    None = None
    Handlers = {h1, h2}
    MaxOrders = 2
    HasEventId = FALSE
    MaxFaults = 1
SYMMETRY Symmetry
CHECK_DEADLOCK FALSE
INVARIANTS
    TypeOK
    DocumentsAreBacked
PROPERTIES
    PromiseKept
