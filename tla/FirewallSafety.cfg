SPECIFICATION Spec
CONSTANTS
    phone = phone
    tablet = tablet
    router = router
    public = public
    shouted = shouted
    Address = {phone, router, public}
    V4 = {phone, public}
    Local = {phone, router}
    Spelling = {phone, router, public}
    Canonical <- Identity
    Configs <- AllConfigs
    Operations = {"sync", "drift", "rollback"}
    Faults = {"command", "timeout", "store", "probe", "crash", "policy", "host", "forwarding"}
    MaxDisturbances = 2
INVARIANTS
    TypeOK
    SyncMeansInstalled
    AtomicReplacement
    FailedSyncIsAccountedFor
    NoDriftMissed
PROPERTIES
    KeepsPromise
