CONSTANTS
    Streams <- MCStreams
    StateChanges <- MCStateChanges
    HeaderValue <- MCHeaderValue
SPECIFICATION FairSpec
CHECK_DEADLOCK FALSE
INVARIANT CutsStream
PROPERTY AllDelivered
