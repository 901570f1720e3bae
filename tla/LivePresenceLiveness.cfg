SPECIFICATION FairSpec
CONSTANTS
    Threads = 4
    MaxHints = 2
    MaxRequests = 0
    Faults = {"scan"}
INVARIANTS
    HintsAreServed
PROPERTIES
    KeepsScanning
    StopReturns
