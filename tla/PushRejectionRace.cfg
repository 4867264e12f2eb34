SPECIFICATION Spec
CONSTANTS
    Subs = {s1}
    Conns = {c1, c2}
    i1 = i1
    i2 = i2
    Identities = {i1, i2}
    None = None
    MaxEvents = 2
    MaxTotalBytes = 2
    MaxSubscriptions = 1
    MaxConnections = 2
    Events <- MCEvents
PROPERTIES
    RejectionFailsTrial
CHECK_DEADLOCK FALSE
