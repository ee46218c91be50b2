\* The cli: one command at a time; clean and torn append failures, two crashes. One
\* mode: none of these properties depends on which mode a change is to.
SPECIFICATION Spec
CONSTANTS
    Frontends = {"cli"}
    Modes = {plan}
    DefaultMode = plan
    PlanMode = plan
    Interval = 2
    Faults = {"clean", "torn"}
    MaxSeq = 5
    MaxMsg = 3
    MaxCrash = 2
INVARIANTS
    CliAppendAccepted
    AlwaysReopens
    NothingForgotten
    
PROPERTIES
    DurableMonotone
\* the bounds on sequence numbers, messages and crashes end behaviours
CHECK_DEADLOCK FALSE
