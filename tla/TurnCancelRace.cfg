\* The server: cancel() races the end of the turn; no fault.
SPECIFICATION Spec
CONSTANTS
    Frontends = {"server"}
    Clients = {c1}
    Threshold = 4
    Window = 20
    QueueLimit = 2
    MaxIters = 1
    HardStop = 2
    Faults = {}
    MaxCalls = 1
    MaxCalled = 1
    MaxTurns = 1
    MaxCompress = 0
    MaxFaults = 0
INVARIANT
    NextTurnUnharmed
CHECK_DEADLOCK FALSE
