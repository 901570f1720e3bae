SPECIFICATION Spec
CONSTANTS
    Threads = 4
    MaxHints = 1
    MaxRequests = 2
    Faults = {"start", "scan", "popen", "reader"}
INVARIANTS
    TypeOK
    SingleFlight
    QuietAfterStop
    ClosedLast
    SafetyChain
    LastRequestWins
