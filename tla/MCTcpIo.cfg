CONSTANTS
    MaxSends = 3
    BufSize <- MCBufSize
    ByteModulus = 4
    AppThreads = {a1}
    Run = run
    MaxStarts = 1
    MaxStops = 2
    MaxMsgs = 2
SPECIFICATION FairSpec
CHECK_DEADLOCK FALSE
INVARIANTS TypeOK OneWriteAtATime OneReadAtATime AtMostOneLateMessage
PROPERTIES SendOrder StopLeadsToNotify ClosedDrains
