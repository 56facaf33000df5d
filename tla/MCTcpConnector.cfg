CONSTANTS
    Callers = {c1, c2}
    Run = run
    Users = {u1}
    MaxTries = 4
    MaxAgain = 0
    KnownEndpoints = FALSE
    TickLimit = 128
    TimeoutFuncs <- MCTimeoutFuncs
    ResolveMayFail = FALSE
    Overlap = FALSE
SPECIFICATION FairSpec
CHECK_DEADLOCK FALSE
INVARIANTS TypeOK StateHasItsOperation ConnectionsInTurn DelayInRange GivesUp
PROPERTIES ClosedIsLast StopCloses KeepsConnecting
