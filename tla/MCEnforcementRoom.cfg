SPECIFICATION EnforceSpec
CONSTANTS
    Canonical <- MCCanonical
    Missing = Missing
    NoBound = NoBound
    NoCap = NoCap
    NoQuestion = NoQuestion
    NoState = NoState
    q1 = q1
    q2 = q2
    q3 = q3
    q4 = q4
    FieldOrder <- MCOrder
    Domains <- MCDomains
    IntegerFields = {"time_hour"}
    BooleanFields = {"is_home"}
    StringFields = {"room"}
    Worlds <- MCWorlds
    Questions <- MCQuestions
    Plants <- MCPlants
INVARIANT
    GuardClassAlwaysHolds
CHECK_DEADLOCK FALSE
