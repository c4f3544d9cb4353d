SPECIFICATION Spec
CONSTANTS
    i1 = i1
    i2 = i2
    t1 = t1
    t2 = t2
    n1 = n1
    n2 = n2
    Bogus = Bogus
    Shared = Shared
    Ids <- TwoIds
    Threads <- TwoThreads
    Stores <- OneStore
    SharedStores <- NoSeeds
    Seeds <- NoSeeds
    TTL = 1
    MaxTime = 2
    ClockMonotone = FALSE
    TakeFilters = TRUE
SYMMETRY Perms
INVARIANTS
    TypeOK
    OnePlace
    CallsConsistent
    SingleUse
    RefusedIsGone
PROPERTIES
    TokenSpec
