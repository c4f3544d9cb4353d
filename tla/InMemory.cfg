SPECIFICATION Spec
CONSTANTS
    a = a
    b = b
    t1 = t1
    t2 = t2
    Free = Free
    Ids <- TwoIds
    Threads <- TwoThreads
    MaxNow = 2
    expires_at <- Deadlines
INVARIANTS
    OnlyHolderInside
    PurgeNeverRaises
PROPERTIES
    ImplementsAtomic
    LockIsFreed
