SPECIFICATION Spec
CONSTANTS
    c1 = c1
    c2 = c2
    c3 = c3
    k1 = k1
    k2 = k2
    d1 = d1
    d2 = d2
    h1 = h1
    h2 = h2
    None = None
    OffCurve = OffCurve
    Challenges <- ThreeChallenges
    Keys <- OneKey
    Devices <- TwoDevices
    KeyOf <- Cloned
    Origins <- OnlyOwn
    RpIdOf <- RpIds
    expected_origins <- OnlyOwn
    rp_id = "rp"
    Registered <- OneKey
    Handlers <- OneHandler
    Serial = TRUE
    MaxCeremonies = 4
SYMMETRY ClonePerms
INVARIANT
    CloneIsFlagged
PROPERTY
    FallsOnlyFlagged
