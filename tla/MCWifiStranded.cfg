SPECIFICATION PageSpec
CONSTANTS
    a = a
    b = b
    s1 = s1
    s2 = s2
    None = None
    Nets <- MCNets
    Scans <- MCScans
    MaxRetry = 1
    LossInScan = TRUE
CHECK_DEADLOCK FALSE
INVARIANTS
    NotStranded
