SPECIFICATION FairSpec
CONSTANTS
    h1 = h1
    h2 = h2
    t1 = t1
    t2 = t2
    Handlers = {h1, h2}
    Tokens = {t1, t2}
    MaxAttempts = 1
CHECK_DEADLOCK FALSE
INVARIANTS
    AttemptsLimited
PROPERTIES
    SuspendedGetsNoSession
    SuspensionHolds
    SuspensionTakesHold
