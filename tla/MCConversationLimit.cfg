SPECIFICATION Spec
CONSTANTS
    Sms = {m1, clear}
    Http = {m2}
    Resets = {clear}
    MaxRounds = 2
    MaxDeliveries = 2
    AgentProvider = "auto"
    Invocations = {i1}
    m1 = m1
    m2 = m2
    clear = clear
INVARIANT StrictAlternation
CHECK_DEADLOCK FALSE
