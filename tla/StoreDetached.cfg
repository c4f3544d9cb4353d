SPECIFICATION Spec
CONSTANTS
    i1 = i1
    i2 = i2
    t1 = t1
    t2 = t2
    n1 = n1
    n2 = n2
    Bogus = Bogus
    Shared = Shared
    Ids <- OneId
    Threads <- TwoThreads
    Stores <- TwoStores
    SharedStores <- TwoStores
    Seeds <- NoSeeds
    TTL = 1
    MaxTime = 2
    ClockMonotone = FALSE
    TakeFilters = TRUE
PROPERTIES
    NeverRefusesLive
