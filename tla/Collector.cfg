SPECIFICATION Spec
CONSTANTS
    t1 = t1
    t2 = t2
    x1 = x1
    m1 = m1
    a1 = a1
    a2 = a2
    None = None
    Identity <- MCIdentity
    Events <- MCEvents
    MaxEvents = 4
    MaxText = 5
INVARIANTS
    OutcomeFitsOperation
    TrailIsHistory
    ArtifactsMatchLog
CHECK_DEADLOCK FALSE
