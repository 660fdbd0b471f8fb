SPECIFICATION PageSpec
CONSTANTS
    a = a
    b = b
    s1 = s1
    s2 = s2
    None = None
    Nets <- MCNets
    Scans <- MCScans
    MaxRetry = 1
    LossInScan = FALSE
SYMMETRY Symmetry
CHECK_DEADLOCK FALSE
INVARIANTS
    PageTypeOK
    NotStranded
    ConnectedIsReal
    NamedNetworkIsLinked
    ServicesFollowAddress
    SavedIsConfigured
    ScanningIsAnswered
