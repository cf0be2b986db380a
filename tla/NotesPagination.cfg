SPECIFICATION Spec
CONSTANTS
    Keys <- FiveKeys
    Limit = 2
    NoCursor = NoCursor
INVARIANTS
    TypeOK
    NewestFirst
    NothingSkipped
CHECK_DEADLOCK FALSE
