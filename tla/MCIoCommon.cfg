CONSTANTS
    MaxSends = 5
    BufSize <- MCBufSize
    ByteModulus = 4
SPECIFICATION Spec
INVARIANTS TypeOK QueueWaitsForWrite QueueIsBacklog BytesMatchQueue
PROPERTY SendOrder
