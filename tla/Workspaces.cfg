SPECIFICATION Spec
CONSTANTS
    w1 = w1
    w2 = w2
    Order <- WindowOrder
    Editors = {"devices", "rules"}
    Subscribers <- Listeners
    Detailed = {"devices"}
    Workers = {w1, w2}
    Scanner = "presence"
    Limit <- Bounds
SYMMETRY Symmetry
INVARIANTS
    TypeOK
    NeverStuck
    SavedIsOnItsWay
PROPERTIES
    NothingAfterClose
    NeverGoesBack
CHECK_DEADLOCK FALSE
