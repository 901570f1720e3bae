SPECIFICATION FairSpec
CONSTANTS
    phone = phone
    tablet = tablet
    router = router
    public = public
    shouted = shouted
    Address = {phone, router}
    V4 = {phone}
    Local = {phone, router}
    Spelling = {phone, router, shouted}
    Canonical <- Lowered
    Configs <- GatewayOnly
    Operations = {"sync"}
    Faults = {"command", "timeout", "store", "probe", "crash", "policy", "host", "forwarding", "external"}
    MaxDisturbances = 3
PROPERTIES
    Convergence
