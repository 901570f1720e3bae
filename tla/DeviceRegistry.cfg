SPECIFICATION Spec
CONSTANTS
    a = a
    b = b
    Mac <- TwoMacs
    Ip = {1, 2}
    Given <- TwoMacs
    Rank <- SameRank
    Scanners = {"live"}
    Grace = 1
    AutoRegister = TRUE
    Places <- OnePlace
    Moves = 1
    UserOps = {"merge", "split", "resolve", "update", "delete", "assign", "add"}
    Requests = 2
    Hints = 1
    Interruptions = 3
    Together = 1
SYMMETRY Symmetric
CHECK_DEADLOCK FALSE
INVARIANTS
    TypeOK
    OneIdentityPerMac
PROPERTIES
    SharersAreFlagged
    FlagAwaitsReview
