SPECIFICATION Spec
CONSTANTS
    t1 = t1
    t2 = t2
    x1 = x1
    x2 = x2
    MaxTurns = 3
    Tasks = {t1, t2}
    Contexts = {x1, x2}
    Fresh = x1
    None = None
    Scripts <- AllScripts
    Deliveries <- MCDeliveries
    MaxDeliveries = 1
PROPERTIES
    ActionNeedsPrecedingTask
CHECK_DEADLOCK FALSE
