CONSTANTS
    Callers = {c1, c2}
    Run = run
    Users = {}
    MaxTries = 2
    MaxAgain = 0
    KnownEndpoints = FALSE
    TickLimit = 128
    TimeoutFuncs <- MCTimeoutFuncs
    ResolveMayFail = TRUE
    Overlap = FALSE
SPECIFICATION Spec
CHECK_DEADLOCK FALSE
INVARIANT StartedIsActive
