CONSTANTS
    worker = worker
    laboratory = laboratory
    MaxTurns = 1
    MaxBridged = 2
    Runners <- OneRunner
    Overlap = TRUE
    r1 = r1
    r2 = r2
    Handlers <- TwoHandlers
    BridgeBase <- OneDuty
    BridgeOps = {"write"}
    Ops = {"write", "help"}
    Inspections = {"help"}
    ChainLimit = 6
    MaxActions = 1
    MaxDeaths = 1
    MaxSpent = 3
    BridgeModes = {"active"}
    Transports = {"bridge"}
SPECIFICATION SessionSpec
INVARIANTS SecondFailureFails
CHECK_DEADLOCK FALSE
