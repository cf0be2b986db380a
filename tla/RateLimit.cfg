SPECIFICATION Spec
CONSTANTS
    r1 = r1
    r2 = r2
    r3 = r3
    r4 = r4
    r5 = r5
    p1 = p1
    p2 = p2
    Requests = {r1, r2, r3, r4, r5}
    Exempt = {r5}
    Replicas = {p1}
    ReplicaOf <- OneReplica
    Skew <- NoSkew
    Refill = 2
    Cost = 3
    Burst = 2
    MinTTL = 1
    FailOpen = FALSE
    MaxDelay = 0
    MaxTime = 7
SYMMETRY RequestSymmetry
INVARIANTS
    TypeOK
    WithinQuota
    RetryAfterIsEnough
    ServedOnConsent
PROPERTY ImplementsTokenBucket
