SPECIFICATION Spec
CONSTANTS
    Shares = {"c", "d", "scripts"}
    Lists <- QueueLists
    MaxQueueSize = 8
    MaxQueued = 2
    QueuedLow = 1
    Width = 64
    MaxFaults = 1
    DamageAhead = FALSE
INVARIANTS
    InStep
    DiffsInStep
    RightContent
    SnapshotHeld
    Accounted
PROPERTIES
    Ends
