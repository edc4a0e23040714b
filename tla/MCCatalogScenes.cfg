SPECIFICATION Spec
CONSTANTS
    Devices <- MCDevices
    Phrases <- MCPhrases
    Names <- MCNames
    NamePhrase <- MCNamePhrase
    Actions <- MCActions
    Containers <- MCContainers
    NoRow = NoRow
    NotRead = NotRead
    Unreadable = Unreadable
    MaxRequests = 2
    c1 = c1
    c2 = c2
    lamp = lamp
    fan = fan
    lampOn = lampOn
    fanOn = fanOn
    evening = evening
INVARIANT DeletedScenesStay
CHECK_DEADLOCK FALSE
