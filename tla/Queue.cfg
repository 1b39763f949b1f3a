SPECIFICATION FairQueueSpec
CONSTANTS
    Job = {j1, j2}
    Worker = {w1, w2}
    Nobody = Nobody
    Attempts = 3
    MaxStalled = 1
INVARIANTS
    QueueTypeOK
    QueueInv
    DuplicatesNeedStalls
    SettledForAReason
    OverlapNeedsStall
PROPERTIES
    ImplementsNotification
    EveryJobSettles
