SPECIFICATION CloudSpec
CONSTANTS
    a = a
    b = b
    None = None
    Users <- MCUsers
    Messages <- MCMessages
    Cache = 2
    MaxToken = 1
    Faults = TRUE
    UnbindsEarly = FALSE
CHECK_DEADLOCK FALSE
INVARIANTS
    OwnersWereAllowed
    ToldIsKept
    OwnerKnowsToken
    StoredIsCurrent
    NoReplay
PROPERTIES
    OldRequestEnds
