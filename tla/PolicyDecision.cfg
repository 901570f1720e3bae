SPECIFICATION Spec
CONSTANTS
    Days = 2
    Minutes = 4
    Zone <- Clocks
    Shift <- ClockShift
    Rules <- SomeRules
    MaxRules = 3
    MaxSteps = 4
    LastInstant = 9
INVARIANTS
    TypeOK
    StartsOnItsWeekday
    TransitionIsNext
    ConflictsAreForeseen
PROPERTIES
    BlocksOnlyClose
