SPECIFICATION Spec
CONSTANTS
    phone = phone
    tablet = tablet
    router = router
    public = public
    shouted = shouted
    Address = {phone, router}
    V4 = {phone}
    Local = {phone, router}
    Spelling = {phone, router}
    Canonical <- Identity
    Configs <- DeployedOnly
    Operations = {"sync"}
    Faults = {"command", "host"}
    MaxDisturbances = 2
PROPERTIES
    ProtectedNeverInstalled
