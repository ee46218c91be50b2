SPECIFICATION McpSpec
CONSTANTS
    Callers = {k1, k2}
    ServerCount = 2
    ToolInputs = {i1}
    MaxDispatches = 2
    MaxDeaths = 1
    MaxTicks = 1
INVARIANT EntryHasItsCall
CHECK_DEADLOCK FALSE
