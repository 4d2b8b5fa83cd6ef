SPECIFICATION Spec
CONSTANTS
    None = None
    plain = plain
    strict = strict
    stricter = stricter
    text = text
    value = value
    valued = valued
    Roots <- MCRoots
    Units = {unit}
    Scripts <- MCScripts
    Sources <- MCSources
    Typed <- MCTyped
    MaxUpsets = 1
SYMMETRY VersionSymmetry
INVARIANT
    ChildrenEarned
PROPERTIES
    StaleOwnerStops
    TypedOnce
CHECK_DEADLOCK FALSE
