SPECIFICATION PromptSpec
CONSTANTS
    Subs = {s1, s2}
    Conns = {c1, c2}
    i1 = i1
    i2 = i2
    Identities = {i1, i2}
    None = None
    MaxEvents = 2
    MaxTotalBytes = 2
    MaxSubscriptions = 1
    MaxConnections = 1
    Events <- OwnEvents
INVARIANTS
    RoutesMatchHandles
PROPERTIES
    ImplementsInbox
    RejectionEndsWait
    EverythingEnds
CHECK_DEADLOCK FALSE
