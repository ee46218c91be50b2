\* The cli reopens a session that has a snapshot; no fault, one crash.
SPECIFICATION Spec
CONSTANTS
    Frontends = {"cli"}
    Modes = {default, plan}
    DefaultMode = default
    PlanMode = plan
    Interval = 2
    Faults = {}
    MaxSeq = 4
    MaxMsg = 2
    MaxCrash = 1
INVARIANT
    ReplayedOnce
CHECK_DEADLOCK FALSE
