\* Server with two HTTP clients, and the tui; no fault. Every step of a turn, but one
\* call per turn: what counts here is who waits for whom.
SPECIFICATION FairSpec
CONSTANTS
    Frontends = {"server", "tui"}
    Clients = {c1, c2}
    Threshold = 4
    Window = 20
    QueueLimit = 2
    MaxIters = 1
    HardStop = 2
    Faults = {}
    MaxCalls = 1
    MaxCalled = 1
    MaxTurns = 3
    MaxCompress = 0
    MaxFaults = 0
PROPERTIES
    MessagesRun
\* the session is over once MaxTurns messages were handled
CHECK_DEADLOCK FALSE
