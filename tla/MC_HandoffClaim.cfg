SPECIFICATION HandoffSpec
CONSTANTS
    o1 = o1
    o2 = o2
    o3 = o3
    NoOne = NoOne
    Operators <- ThreeOperators
SYMMETRY OperatorSymmetry
INVARIANTS
    AnsweredOnce
    NeverWaits
CHECK_DEADLOCK FALSE
