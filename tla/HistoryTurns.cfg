CONSTANTS
    worker = worker
    laboratory = laboratory
    MaxTurns = 4
    MaxBridged = 2
    Runners <- TwoRunners
    Overlap = FALSE
    r1 = r1
    r2 = r2
    Handlers <- TwoHandlers
    BridgeBase <- OneDuty
    BridgeOps = {"write"}
    Ops = {"write", "help"}
    Inspections = {"help"}
    ChainLimit = 6
    MaxActions = 1
    MaxDeaths = 1
    MaxSpent = 3
    BridgeModes = {"active"}
    Transports = {"chat"}
SPECIFICATION SessionSpec
INVARIANTS HistoryKept ViewIsFaithful
PROPERTY HistoryAppendOnly
CHECK_DEADLOCK FALSE
