SPECIFICATION FairSpec
CONSTANTS
    ProviderOf <- Plug
    KindOf <- PlugKind
    Scheduled = {"kasa"}
    Identities = {1, 2}
    Runs = {r1, r2}
    NoItem = NoItem
INVARIANTS FullSyncReconciles
PROPERTY Reconciled
