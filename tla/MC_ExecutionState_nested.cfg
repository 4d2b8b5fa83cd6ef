SPECIFICATION Spec
CONSTANTS
    i1 = i1
    i2 = i2
    i3 = i3
    s1 = s1
    s2 = s2
    r1 = r1
    Root = Root
    NoScope = NoScope
    NoReservation = NoReservation
    Invocations <- MCInvocations
    Clients <- MCInvocations
    Scopes <- TwoScopes
    Reservations <- NoReservations
    Concurrency = 1
    TotalAgents = 2
    MaxCount = 1
    MaxSequence = 3
SYMMETRY TwoScopeSymmetry
INVARIANTS
    WorkConserving
    SlotDiscipline
    JoinBeforeResume
    DescendantFailureFatal
PROPERTIES
    NoLaunchAfterFailure
    ImplementsAgentLaunches
CHECK_DEADLOCK FALSE
