SPECIFICATION Spec
CONSTANTS
    Scenarios = 2
    Trials = 2
    Turns = 2
    Tolerated = 0
INVARIANTS
    TapeIsTheRun
    UndisturbedReplay
    ServedInStep
CHECK_DEADLOCK FALSE
