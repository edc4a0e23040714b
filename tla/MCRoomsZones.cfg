SPECIFICATION Spec
CONSTANTS
    ana = ana
    ben = ben
    phone = phone
    watch = watch
    den = den
    attic = attic
    c1 = c1
    c2 = c2
    j1 = j1
    j2 = j2
    People = {ana, ben}
    Devices = {phone, watch}
    Rooms = {den, attic}
    Spots <- MCSpots
    Minutes = 3
    Windows <- MCWindows
    Zones = {"chicago", "new_york"}
    Offset <- MCOffset
    CallerSources = {"asked"}
    Calls = {c1, c2}
    Jobs = {}
    MaxSamples = 2
    MinTrainRows = 1
    MaxCalls = 4
SYMMETRY Symmetric
CHECK_DEADLOCK FALSE
INVARIANTS
    OneRuleAtATime
