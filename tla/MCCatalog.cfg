SPECIFICATION Spec
CONSTANTS
    Devices <- MCDevices
    Phrases <- MCPhrases
    Names <- MCNames
    NamePhrase <- MCNamePhrase
    Actions <- MCActions
    Containers <- MCContainers
    NoRow = NoRow
    NotRead = NotRead
    Unreadable = Unreadable
    MaxRequests = 3
    c1 = c1
    c2 = c2
    lamp = lamp
    fan = fan
    lampOn = lampOn
    fanOn = fanOn
    evening = evening
SYMMETRY MCSymmetry
INVARIANTS TypeOK OwnDeletesSeen
PROPERTY ManualPhrasesStand
CHECK_DEADLOCK FALSE
