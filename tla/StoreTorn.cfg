CONSTANTS
    Procs = {p1}
    Sids = {s1}
    MaxAppends = 3
    MaxDeletes = 0
    MaxLists = 0
    MaxCrashes = 1
SPECIFICATION StoreSpec
INVARIANT CrashLosesLastLine
CHECK_DEADLOCK FALSE
