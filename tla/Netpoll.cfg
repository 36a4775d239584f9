SPECIFICATION FairSpec
CONSTANTS
    Netpolls = {n1, n2}
    Infos = {i1, i2}
    NoInfo = NoInfo
    MaxMsgs = 2
    Tries = 2
    PoolSize = 1
INVARIANTS MessageOnce QueuedHasWork SenderInfoAlive
PROPERTIES ChannelImplemented WorkerInOrder QueuedIsSettled
