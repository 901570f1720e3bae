SPECIFICATION FairSpec
CONSTANTS
    a = a
    b = b
    Mac <- TwoMacs
    Ip = {1, 2}
    Given = {a}
    Rank <- SameRank
    Scanners = {"live"}
    Grace = 1
    AutoRegister = TRUE
    Places <- TwoPaths
    Moves = 1
    UserOps = {"merge", "delete", "add"}
    Requests = 1
    Hints = 1
    Interruptions = 1
    Together = 3
CHECK_DEADLOCK FALSE
PROPERTIES
    FollowsNetwork
