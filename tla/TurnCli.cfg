\* The cli: Ctrl-C, timeout, every fault once, at each step of two turns.
SPECIFICATION Spec
CONSTANTS
    Frontends = {"cli"}
    Clients = {c1}
    Threshold = 4
    Window = 20
    QueueLimit = 2
    MaxIters = 2
    HardStop = 2
    Faults = {"storage", "event", "late", "crash"}
    MaxCalls = 2
    MaxCalled = 2
    MaxTurns = 2
    MaxCompress = 1
    MaxFaults = 1
INVARIANTS
    RequestsPaired
    StoredPaired
    Resumable
    EventsAreStored
    TurnEndOnce
    CliTokenFresh
\* the session is over once MaxTurns messages were handled
CHECK_DEADLOCK FALSE
