SPECIFICATION Spec
CONSTANTS
    Lookups = {l1}
    Timeout = 1
    MaxLength = 1
    ReadLimit = 2
    CaptureLimit = 1
    MaxRequests = 2
    SlurpLimit = 1
INVARIANT TimeoutIsGatewayTimeout
