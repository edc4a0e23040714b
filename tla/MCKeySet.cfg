SPECIFICATION KeySpec
CONSTANTS
    old = old
    new = new
    Kids = {old, new}
    Ttl = 3
    MinRefresh = 2
    StaleIfError = 2
    Lifespan = 8
SYMMETRY Symmetric
CHECK_DEADLOCK FALSE
INVARIANTS
    FetchesLimited
PROPERTIES
    WithdrawnKeysGo
    RefusedForCause
