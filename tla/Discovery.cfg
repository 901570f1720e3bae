SPECIFICATION Spec
CONSTANTS
    a = a
    b = b
    eth = eth
    wlan = wlan
    Mac <- TwoMacs
    Ip = {1, 2}
    Interface <- TwoInterfaces
    NoMac = NoMac
    NoInterface = NoInterface
    Modes <- AnyThenActive
    AutoRegister = {TRUE, FALSE}
    PassiveAnswers <- SomeNeighbours
    ActiveAnswers <- SomeReplies
    DeepAnswers <- SomeInventories
    Writes = 1
CHECK_DEADLOCK FALSE
INVARIANTS
    TypeOK
    ReportAccountsForAnswers
    IdentitiesAgree
PROPERTIES
    KeepsScanPromise
    AbsenceNeedsEvidence
    ScanEnds
