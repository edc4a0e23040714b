SPECIFICATION Spec
CONSTANTS
    Canonical <- MCCanonical
    Missing = Missing
    NoBound = NoBound
    Writers = {w1, w2}
    RuleIds = {a}
    NoRule = NoRule
    Rules <- MCRules
    StoreFaults = TRUE
    MaxVersion = 2
    Containers = {c1}
    Commands <- MCCommands
    TTL = 2
    RetryTTL = 1
    LambdaTimeout = 1
    LoadFaults = TRUE
SYMMETRY AnyAuthor
CONSTRAINT OverlapsUnserved
INVARIANTS
    OnlyNewestInForce
    DeletedIsOff
PROPERTIES
    SupersededByNext
    StandingBlocksHold
    GoneBlocksLetGo
    LoadedBlocksHold
CHECK_DEADLOCK FALSE
