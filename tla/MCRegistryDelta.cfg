SPECIFICATION RegistrySpec
CONSTANTS
    ProviderOf <- Lamp
    KindOf <- LampKind
    Scheduled = {"kasa"}
    Identities = {1, 2}
    Runs = {r1, r2}
    NoItem = NoItem
PROPERTY DeltaNeverOffline
