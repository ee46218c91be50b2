\* No fault, no crash: only set_mode beside a turn on the server.
SPECIFICATION Spec
CONSTANTS
    Frontends = {"server"}
    Modes = {default, plan}
    DefaultMode = default
    PlanMode = plan
    Interval = 2
    Faults = {}
    MaxSeq = 4
    MaxMsg = 2
    MaxCrash = 0
INVARIANT
    TurnAppendAccepted
CHECK_DEADLOCK FALSE
