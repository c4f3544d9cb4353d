SPECIFICATION Spec
CONSTANTS
    c1 = c1
    c2 = c2
    c3 = c3
    k1 = k1
    k2 = k2
    d1 = d1
    d2 = d2
    h1 = h1
    h2 = h2
    None = None
    OffCurve = OffCurve
    Challenges <- TwoChallenges
    Keys <- TwoKeys
    Devices <- TwoDevices
    KeyOf <- TwoUsers
    Origins <- OwnAndSub
    RpIdOf <- RpIds
    expected_origins <- WithPort
    rp_id = "rp"
    Registered <- OneKey
    Handlers <- TwoHandlers
    Serial = FALSE
    MaxCeremonies = 2
SYMMETRY ChallengePerms
INVARIANTS
    LoginIsGenuine
    NoReplay
