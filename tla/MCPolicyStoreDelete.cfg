SPECIFICATION StoreSpec
CONSTANTS
    Writers = {w1}
    RuleIds = {a}
    NoRule = NoRule
    Rules = {x, y}
    StoreFaults = TRUE
    MaxVersion = 3
PROPERTIES
    RefusedDeleteIsOff
CHECK_DEADLOCK FALSE
