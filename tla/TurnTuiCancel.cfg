\* The tui: a CancelTurn sent during a turn is worked off after it.
SPECIFICATION Spec
CONSTANTS
    Frontends = {"tui"}
    Clients = {c1}
    Threshold = 4
    Window = 20
    QueueLimit = 2
    MaxIters = 1
    HardStop = 2
    Faults = {}
    MaxCalls = 1
    MaxCalled = 1
    MaxTurns = 1
    MaxCompress = 0
    MaxFaults = 0
INVARIANT
    NextTurnUnharmed
CHECK_DEADLOCK FALSE
