SPECIFICATION Spec
CONSTANTS
    first = first
    second = second
    NoRun = NoRun
    Runs <- MCRuns
    Continuations <- MCContinuations
INVARIANTS
    HoldingsAccounted
    SuccessEarned
    ScriptsExclude
CHECK_DEADLOCK FALSE
