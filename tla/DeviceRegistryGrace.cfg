SPECIFICATION FairSpec
CONSTANTS
    a = a
    b = b
    Mac <- TwoMacs
    Ip = {1, 2}
    Given <- TwoMacs
    Rank <- SameRank
    Scanners = {"live"}
    Grace = 1
    AutoRegister = TRUE
    Places <- OnePlace
    Moves = 1
    UserOps = {"merge", "split", "resolve", "update", "delete", "assign", "add"}
    Requests = 0
    Hints = 1
    Interruptions = 1
    Together = 2
CHECK_DEADLOCK FALSE
PROPERTIES
    GraceHonoured
