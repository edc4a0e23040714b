SPECIFICATION CalmSpec
CONSTANTS
    People = {raja}
    Calibrated = {raja}
    Rooms = {"Office"}
    Threshold = 2
    Pollers = {poll}
    Callers = {}
INVARIANTS OneRowAnHour
