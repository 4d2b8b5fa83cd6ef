SPECIFICATION HandoffSpec
CONSTANTS
    o1 = o1
    o2 = o2
    o3 = o3
    NoOne = NoOne
    Operators <- TwoOperators
INVARIANT
    LiveRunKeepsClaim
CHECK_DEADLOCK FALSE
