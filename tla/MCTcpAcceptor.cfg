CONSTANTS
    Callers = {c1, c2}
    Senders = {s1, s2}
    MaxCalls = 3
    MaxSends = 2
    MaxConns = 2
    MaxTold = 2
    StartMayFail = TRUE
    AcceptMayFail = TRUE
    OverlapStop = FALSE
SPECIFICATION FairSpec
CHECK_DEADLOCK FALSE
INVARIANTS TypeOK HandlersAreLive ToldBeforeNextAccept OutputsAreLive SameForAll ZeroLeavesOne
PROPERTIES EveryConnectionTold
