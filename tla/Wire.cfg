\* A message is changed at most as often as its limit says and then stays as it is.
SPECIFICATION Spec
CONSTANTS
    None = None
    RecursionLimit = 4
    NoKey = NoKey
    HmacKey = "ours"
    Points <- MCPoints
    Messages <- MCMessages
    Octets = {0, 1, 2, 24, 64, 65, 128, 129, 161, 193, 246, 247, 255}
INVARIANTS
    ReadBack
    Canonical
    NothingUnread
    KeyIsPortable
    PayloadIsOurs
PROPERTIES
    PrefixFree
    EveryByteCounts
CHECK_DEADLOCK FALSE
