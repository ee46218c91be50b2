\* Server and tui: set_mode beside a turn, re-initialisation before every turn,
\* a stream that is never initialised; every kind of append failure.
SPECIFICATION Spec
CONSTANTS
    Frontends = {"server", "tui"}
    Modes = {default, plan}
    DefaultMode = default
    PlanMode = plan
    Interval = 1
    Faults = {"torn", "written"}
    MaxSeq = 3
    MaxMsg = 1
    MaxCrash = 1
INVARIANTS
    TypeOK
    
    DurableBacked

    
\* the bounds on sequence numbers, messages and crashes end behaviours
CHECK_DEADLOCK FALSE
