SPECIFICATION FairSpec
CONSTANTS
    None = None
    Capacity = 2
    Keys <- MCKeys
    Scancodes <- MCScancodes
    MaxTyped = 5
INVARIANTS
    TypeOK
    QueueLockUncontended
    PendingIsNewest
    TypedTextArrives
    ShiftWrongOnlyAfterLoss
    SleepsOnlyWhenWorkedOff
PROPERTIES
    LossOnlyWhenFull
    PortIsServed
    WakeDrainsQueue
CHECK_DEADLOCK FALSE
