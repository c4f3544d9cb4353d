SPECIFICATION Spec
CONSTANTS
    i1 = i1
    i2 = i2
    t1 = t1
    t2 = t2
    n1 = n1
    n2 = n2
    Bogus = Bogus
    Shared = Shared
    Ids <- TwoIds
    Threads <- TwoThreads
    Stores <- TwoStores
    SharedStores <- TwoStores
    Seeds <- OneId
    TTL = 1
    MaxTime = 2
    ClockMonotone = TRUE
    TakeFilters = FALSE
SYMMETRY SharedPerms
INVARIANTS
    SingleUse
    AcceptedInWindow
PROPERTIES
    ReapsOnlyExpired
    TokenSpec
