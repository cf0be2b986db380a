SPECIFICATION Spec
CONSTANTS
    Requests = {q1}
    FailOpen = TRUE
INVARIANT PanicsLeaveATrace
