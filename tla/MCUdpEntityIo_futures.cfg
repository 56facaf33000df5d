CONSTANTS
    Callers = {c1, c2}
    MaxSends = 1
    BufSize <- MCBufSize
    ByteModulus = 4
    Run = run
    Users = {}
    HasLocal = TRUE
    StartMayFail = TRUE
    AnyStartIo = FALSE
    MaxStarts = 1
    MaxStops = 0
    MaxMsgs = 1
SPECIFICATION Spec
CHECK_DEADLOCK FALSE
INVARIANT NothingThrown
