SPECIFICATION Spec
CONSTANTS
    c1 = c1
    c2 = c2
    c3 = c3
    c4 = c4
    r1 = r1
    r2 = r2
    r3 = r3
    v1 = v1
    None = None
    Invalid = Invalid
    CallIds <- MCCallIds
    Responses <- MCResponses
    Values <- MCValues
    MaxSubmissions = 2
    MaxTurns = 3
    MaxToolCalls = 3
    MaxItems = 2
SYMMETRY MCSymmetry
INVARIANTS
    ReceiptsVerify
    SiblingsNeverRun
    GenerationsBounded
CHECK_DEADLOCK FALSE
