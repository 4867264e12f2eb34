SPECIFICATION Spec
CONSTANTS
    MaxJobs = 2
    MaxEvidenceTrials = 2
    Contract = 2
    Outcomes <- MCOutcomes
INVARIANTS
    NothingLeaks
    ScenariosFindWhatTheyNeed
    SuccessIsComplete
    ReportsAgree
CHECK_DEADLOCK FALSE
