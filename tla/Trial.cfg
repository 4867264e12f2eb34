SPECIFICATION FairSpec
CONSTANTS
    t1 = t1
    t2 = t2
    x1 = x1
    x2 = x2
    MaxTurns = 4
    Tasks = {t1, t2}
    Contexts = {x1}
    Fresh = x1
    None = None
    Scripts <- AllScripts
    Deliveries <- MCDeliveries
    MaxDeliveries = 3
INVARIANTS
    TypeOK
    NoRouteLeaks
    WaitsOnBoundRoute
    AwaitedOutcomeIsOwn
    ResumesOnlyOpenTasks
PROPERTIES
    TrialEnds
CHECK_DEADLOCK FALSE
