SPECIFICATION ProcessFairSpec
CONSTANTS
    Handlers = {h1, p1}
    Probes = {p1}
INVARIANTS
    DependenciesOutlive
    ReleasedOnce
    FailureIsReported
    WritesFindThePool
    InTimeIsAudited
PROPERTIES
    ReadyIsEarned
    ExitsOnSignal
