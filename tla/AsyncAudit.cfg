SPECIFICATION FairSpec
CONSTANTS
    Records = {r1, r2, r3}
    QueueSize = 1
    NoJob = NoJob
INVARIANTS
    NoSendOnClosedQueue
    AtMostOneFate
    NoRecordLost
    OneLateWrite
    DepthZeroAfterShutdown
PROPERTIES
    ImplementsAuditQueue
    CloseReturns
    AcceptedIsSettled
    StoreReturns
