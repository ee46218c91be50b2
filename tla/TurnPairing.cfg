\* The cli: a turn that leaves its calls open, then one that is cancelled; no fault.
SPECIFICATION Spec
CONSTANTS
    Frontends = {"cli"}
    Clients = {c1}
    Threshold = 4
    Window = 20
    QueueLimit = 2
    MaxIters = 2
    HardStop = 2
    Faults = {}
    MaxCalls = 1
    MaxCalled = 2
    MaxTurns = 3
    MaxCompress = 0
    MaxFaults = 0
INVARIANT
    EveryRequestPaired
CHECK_DEADLOCK FALSE
