SPECIFICATION MCSpec
CONSTANTS
    Lane = {l1, l2}
    Ip = {i1, i2}
    PerIp = 2
    Budget = 3
    MaxCost = 2
    MaxCalls = 3
    Stale = TRUE
    MintLane = {m1, m2}
    Address = {a1}
    Code = {c1, c2}
    Body = {b1, b2}
    None = None
    MINTS_PER_DAY = 2
    Attempts = 2
    MaxMints = 3
    StaleLookup = TRUE
    Node <- SolveNode
    Edge <- SolveEdge
    Ends <- SolveEnds
    Meta <- SolveMeta
    In <- SolveIn
    Out <- SolveOut
    Pushed <- SolvePushed
    Genesis <- SolveGenesis
    Wishes <- SolveWishes
    Unknown <- SolveUnknown
    MaxLog = 8
    MaxAsked = 1
    Id = {"a", "b", "c", "d"}
    Hash = {"h1", "h2", "h3"}
    NodesOf <- ShareNodes
    Prefix <- SharePrefix
    Rank <- ShareRank
    BYTE = 2
    MaxWrites = 3
    MaxMerges = 2
    Process = {p, q}
    Content <- FileContent
    Jobs <- FileJobs
    MaxRuns = 3
INVARIANTS
    DenialIsEarned
    SerialCallsKeepTheLimits
    IssuedLinksKeep
    LimitIsEarned
    IndexListsTheFiles
    LinksOpenTheirSelection
    KeptRecordsStay
    RerunCompletes
    RefusalHasItsReason
PROPERTIES
    AcceptedIsLive
CHECK_DEADLOCK FALSE
