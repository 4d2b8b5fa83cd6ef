SPECIFICATION LeaseSpec
CONSTANTS
    r1 = r1
    r2 = r2
    r3 = r3
    NoFile = NoFile
    Runs <- MCRuns
    Processes <- MCRuns
    HostOf <- Apart
    MaxAttempts = 2
SYMMETRY ApartSymmetry
INVARIANTS
    HolderFenced
    NeverWaits
CHECK_DEADLOCK FALSE
