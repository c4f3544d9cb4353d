SPECIFICATION Spec
CONSTANTS
    None = None
    Lengths = {0, 14, 15, 26, 42, 62, 84, 106, 152, 180, 213, 214}
    Texts <- MCTexts
INVARIANTS
    ReadBack
    BlocksReadBack
    StreamFits
PROPERTIES
    FunctionModulesKept
CHECK_DEADLOCK FALSE
