CONSTANTS
    Callers = {c1, c2}
    MaxSends = 2
    BufSize <- MCBufSize
    ByteModulus = 2
    Run = run
    Users = {u1}
    HasLocal = TRUE
    StartMayFail = TRUE
    AnyStartIo = FALSE
    MaxStarts = 1
    MaxStops = 2
    MaxMsgs = 2
SPECIFICATION FairSpec
CHECK_DEADLOCK FALSE
INVARIANTS TypeOK
PROPERTIES ClosedDrains StopLeadsToClosed Delivered
