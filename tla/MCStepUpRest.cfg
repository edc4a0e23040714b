SPECIFICATION Spec
CONSTANTS
    Requests = {r1, r2}
    Nobody = Nobody
    Jtis <- MCJtis
    Tokens <- MCTokens
    Plans <- MCPlans
    Calls <- MCCalls
    Caps <- MCCaps
    LedgerDoors = {"mcp"}
    ScopeAudit = {}
    RestAudit = FALSE
    LedgerFaults = FALSE
    StepUpSeconds = 1
    Leeway = 1
    MaxLifetime = 4
    Grace = 2
    LambdaTimeout = 1
    MaxTime = 4
PROPERTIES
    RestUnlocksLikeMcp
VIEW View
SYMMETRY Symmetry
CHECK_DEADLOCK FALSE
