SPECIFICATION Spec
CONSTANTS
    Canonical <- MCCanonical
    Missing = Missing
    NoBound = NoBound
    Mistyped = Mistyped
    Labels <- MCLabels
    DeviceTypes = {"fan", "heater"}
    FieldOrder <- MCOrder
    Domains <- MCDomains
    IntegerFields = {"time_hour"}
    BooleanFields = {"is_home"}
    StringFields = {"room"}
    Contexts <- MCContexts
    Pool <- MCPool
    InvariantSets <- MCInvariantSets
    ListFaults = FALSE
    MaxRules = 3
INVARIANTS
    RedundantAddsNothing
VIEW View
CHECK_DEADLOCK FALSE
