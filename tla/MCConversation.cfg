SPECIFICATION Spec
CONSTANTS
    Sms = {m1, clear}
    Http = {m2}
    Resets = {clear}
    MaxRounds = 2
    MaxDeliveries = 3
    AgentProvider = "auto"
    Invocations = {i1, i2}
    m1 = m1
    m2 = m2
    clear = clear
INVARIANTS AnswerableUnlessCut
PROPERTIES KeepsTheConversation
CHECK_DEADLOCK FALSE
