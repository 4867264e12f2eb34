SPECIFICATION Spec
CONSTANTS
    Subs = {s1}
    Conns = {c1, c2, c3, c4}
    i1 = i1
    i2 = i2
    Identities = {i1, i2}
    None = None
    MaxEvents = 2
    MaxTotalBytes = 3
    MaxSubscriptions = 1
    MaxConnections = 2
    Events <- MCEvents
SYMMETRY Symmetry
INVARIANTS
    TypeOK
    ExactlyOnce
    RejectionWakes
    OutcomeIsFirstTerminal
    NoHandlerOutlivesReceiver
CHECK_DEADLOCK FALSE
