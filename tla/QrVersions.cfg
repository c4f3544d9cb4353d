SPECIFICATION Spec
CONSTANTS
    None = None
    Lengths = {118}
    Texts <- MCTexts
INVARIANTS
    ReadBackAll
CHECK_DEADLOCK FALSE
