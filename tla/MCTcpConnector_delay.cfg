CONSTANTS
    Callers = {c1, c2}
    Run = run
    Users = {}
    MaxTries = 5
    MaxAgain = 0
    KnownEndpoints = TRUE
    TickLimit = 128
    TimeoutFuncs <- MCOverflowing
    ResolveMayFail = FALSE
    Overlap = FALSE
SPECIFICATION Spec
CHECK_DEADLOCK FALSE
INVARIANT DelayInRange
