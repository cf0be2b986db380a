SPECIFICATION FairSpec
CONSTANTS
    Lookups = {l1}
    Timeout = 2
    MaxLength = 3
    ReadLimit = 2
    CaptureLimit = 1
    MaxRequests = 2
    SlurpLimit = 1
INVARIANTS
    TypeOK
    FinalizedOnce
    TruncationIsMarked
    
PROPERTY LookupEnds
