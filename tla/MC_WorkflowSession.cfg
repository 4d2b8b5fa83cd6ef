SPECIFICATION MCSpec
CONSTANTS
    question = question
    viewer = viewer
    dialog = dialog
    Nobody = Nobody
    Requests <- ThreeRequests
    Questions <- OneQuestion
    Faults <- FaultKinds
    MaxMounts = 2
    MaxRuns = 3
    MaxGenerations = 2
INVARIANTS
    OneCommandRun
    ShutdownWaits
    ContinuationRuns
    StrandsNobody
PROPERTIES
    AnswerStaysInSession
CHECK_DEADLOCK FALSE
