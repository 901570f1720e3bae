SPECIFICATION Spec
CONSTANTS
    d1 = d1
    d2 = d2
    n1 = n1
    n2 = n2
    Device <- TwoDevices
    Name <- TwoNames
    Clicks = 2
    Edits = 1
SYMMETRY Symmetric
CHECK_DEADLOCK FALSE
INVARIANT TablesLinked
PROPERTIES
    ConfirmedWhenAssigned
    AssignmentChangesAsAsked
