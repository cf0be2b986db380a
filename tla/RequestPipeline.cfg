SPECIFICATION Spec
CONSTANTS
    Requests = {q1, q2}
    FailOpen = FALSE
INVARIANTS
    TypeOK
    InFlightIsExact
    RecordsAgree
    RejectionsAreFinal
