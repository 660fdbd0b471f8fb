SPECIFICATION UsersSpec
CONSTANTS
    s1 = s1
    s2 = s2
    c = c
    Capture = c
    Streams <- MCStreams
    Tasks <- MCTasks
CHECK_DEADLOCK FALSE
INVARIANTS
    NoTornFrame
    
    BuffersWhenUsed
    SlotHasOneOwner
    HoldsByStage
PROPERTIES
    StopEndsCapture
