SPECIFICATION CloudSpec
CONSTANTS
    a = a
    b = b
    None = None
    Users <- MCUsers
    Messages <- MCMessages
    Cache = 2
    MaxToken = 1
    Faults = FALSE
    UnbindsEarly = TRUE
CHECK_DEADLOCK FALSE
INVARIANTS
    OwnerKnowsToken
