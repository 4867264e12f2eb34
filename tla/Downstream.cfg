SPECIFICATION Spec
CONSTANTS
    Requests = {r1, r2, r3}
    Turns = 2
    MaxCalls = 2
SYMMETRY Symmetry
INVARIANTS
    CallsAreRecordedOnce
    CallsCountOnce
    SettledCallsCount
CHECK_DEADLOCK FALSE
