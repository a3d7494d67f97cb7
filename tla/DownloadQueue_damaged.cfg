SPECIFICATION Spec
CONSTANTS
    Shares = {"c", "d", "scripts"}
    Lists <- DamagedLists
    MaxQueueSize = 500
    MaxQueued = 3
    QueuedLow = 1
    Width = 1024
    MaxFaults = 1
    DamageAhead = TRUE
INVARIANT DiffsInStep
