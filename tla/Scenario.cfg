SPECIFICATION FairSpec
CONSTANTS
    MaxTrials = 4
    MaxParallel = 3
INVARIANTS
    VerdictIsFull
PROPERTIES
    ScenarioEnds
CHECK_DEADLOCK FALSE
