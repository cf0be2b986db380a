SPECIFICATION Spec
CONSTANTS
    r1 = r1
    r2 = r2
    r3 = r3
    r4 = r4
    r5 = r5
    p1 = p1
    p2 = p2
    Requests = {r1, r2, r3, r4, r5}
    Exempt = {}
    Replicas = {p1, p2}
    ReplicaOf <- Alternating
    Skew <- OneAhead
    Refill = 1
    Cost = 2
    Burst = 1
    MinTTL = 1
    FailOpen = FALSE
    MaxDelay = 0
    MaxTime = 2
INVARIANT WithinQuota
