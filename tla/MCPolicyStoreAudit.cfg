SPECIFICATION StoreSpec
CONSTANTS
    Writers = {w1, w2}
    RuleIds = {a}
    NoRule = NoRule
    Rules = {x, y}
    StoreFaults = FALSE
    MaxVersion = 3
PROPERTIES
    AuditTrailKept
CHECK_DEADLOCK FALSE
