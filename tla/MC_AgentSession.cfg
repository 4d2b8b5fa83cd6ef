SPECIFICATION LiveAgentSpec
CONSTANTS
    w1 = w1
    w2 = w2
    t = t
    slot = slot
    own = own
    None = None
    Calls <- MCCalls
    Rows <- MCRows
    RowOf <- MCRowOf
    Tasks = {t}
    Timed = {w1}
    Structured = {w1}
    Asking = {w2}
    MaxTurns = 2
    MaxCalls = 2
PROPERTIES
    VerdictStands
    SteeringHitsTarget
    StopEndsCall
CHECK_DEADLOCK FALSE
