CONSTANTS
    MaxSends = 1
    BufSize <- MCBufSize
    ByteModulus = 4
    AppThreads = {a1}
    Run = run
    MaxStarts = 1
    MaxStops = 1
    MaxMsgs = 1
SPECIFICATION StartedSpec
CHECK_DEADLOCK FALSE
INVARIANT NotifiedOnce
