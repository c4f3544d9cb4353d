SPECIFICATION Spec
CONSTANTS
    c1 = c1
    k1 = k1
    k2 = k2
    rp = rp
    rp2 = rp2
    id1 = id1
    id2 = id2
    None = None
    OffCurve = OffCurve
    BadKey = BadKey
    Junk = Junk
    OtherChallenge = OtherChallenge
    Keys <- TwoKeys
    Challenges <- OneChallenge
    RpIds <- TwoRpIds
    Origins <- AllOrigins
    CredIds <- TwoCreds
    MaxCount = 1
    ClientDatas <- MCClientDatas
    Arguments <- MCArguments
INVARIANTS
    OnlyVerificationError
CHECK_DEADLOCK FALSE
