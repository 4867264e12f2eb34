SPECIFICATION Spec
CONSTANTS
    MaxStates = 4
    MaxParts = 2
    MaxText = 5
    MaxEvidenceText = 12
    MaxPreview = 3
    Null = Null
    Empty = Empty
    Documents <- MCDocuments
    Responses <- MCResponses
    Cases <- MCCases
    Pointers <- MCPointers
INVARIANTS
    SchemaAgrees
    LoadedContractsRun
    VerdictsAsDocumented
    ReceiptsFollowMandates
    RedactionIsExact
    EvidenceHidesSecrets
    
CHECK_DEADLOCK FALSE
