SPECIFICATION MCSpec
CONSTANTS
    Messages = {m1, m2}
    FirstMessage = m1
    Permits = 2
    MaxMade = 2
    Clients = {c1}
    Capacity = 2
    BusCapacity = 1
    LiveCapacity = 1
    SnapshotEvery = 2
    Transient = {2}
    MaxEvents = 3
    MaxLoads = 2
    MaxConnects = 2
    Procs = {p1, p2}
    Sids = {s1, s2}
    MaxAppends = 2
    MaxDeletes = 1
    MaxLists = 1
    MaxCrashes = 1
    Inputs = {"look", "leave", "edit", "doc", "vcs", "run"}
    Modes = {"default", "plan", "acceptEdits"}
    ParallelReads = 2
    HardTrip = 2
    FailClosed = FALSE
    MaxCalls = 2
    MaxRounds = 2
    Threshold = 5
    FixedOverhead = 1
    ClipAbove = 3
    ClippedTo = 2
    SummaryTokens = {1}
    RollingWindow = 2
    ThrashThreshold = 2
    UnderestimateTrigger = 2
    TextTokens = {2}
    ResultTokens = {1, 4}
    MaxResults = 2
    MaxRequests = 3
    MaxSnapshots = 1
    Providers = {"openai", "anthropic", "ollama"}
    MaxRetries = 1
    MaxBuffer = 5
    ChunkSizes = {1, 4}
    MaxTexts = 1
    MaxUses = 2
    MaxNoise = 1
    InFlight = 1
    Callers = {k1, k2}
    ServerCount = 2
    ToolInputs = {i1}
    MaxDispatches = 2
    MaxDeaths = 1
    MaxTicks = 1
    MaxTrackedShells = 2
    MaxSpawned = 3
    Files = {f1, f2}
    Texts = {"a"}
    MaxEntries = 2
    MaxBytes = 6
    MaxChanges = 3
    MaxMishaps = 1
    Protocols = {"ndjson", "acp", "lsp"}
    LiveEvents = 1
    MaxPrompts = 2
    MaxWork = 1
    MaxMessages = 1
INVARIANTS
    MachinesTypeOK
    OneOpenLoad WaitingIsListed AnswerHolds
    SentIsReplayable NothingMissed NothingTwice
    LockHeldOnce  AckedKept
    HardDenyHolds RestrictedAsked WavesKeepOrder HardTripEnds
    GroupsWhole RequestFits
    ReplyIsWhatWasSaid ShownOnce
    OneRequestPerKey RequestKeepsConnection
    KillReaches
    UndoIsExact 
 
CHECK_DEADLOCK FALSE
