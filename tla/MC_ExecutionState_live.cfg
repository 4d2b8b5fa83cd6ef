SPECIFICATION FairSpec
CONSTANTS
    i1 = i1
    i2 = i2
    i3 = i3
    s1 = s1
    s2 = s2
    r1 = r1
    Root = Root
    NoScope = NoScope
    NoReservation = NoReservation
    Invocations <- MCPair
    Clients <- MCPair
    Scopes <- OneScope
    Reservations <- OneReservation
    Concurrency = 1
    TotalAgents = 2
    MaxCount = 2
    MaxSequence = 3
INVARIANT
    LaunchCap
PROPERTIES
    PromisedSlotsStay
    EveryRunSettles
CHECK_DEADLOCK FALSE
