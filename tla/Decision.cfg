SPECIFICATION Spec
CONSTANTS
    Unknown = Unknown
    Other = Other
    YamlInstalled = TRUE
    Cases <- MCCases
    MaxAge = 20
INVARIANTS
    MissingFactNeverHelps
    LevelCarriesSignals
    AdmissionAgreesWithLogin
    BetterIsNeverWorse
    Attributable
    
CHECK_DEADLOCK FALSE
