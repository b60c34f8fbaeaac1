CONSTANTS
    turn = turn
    turn2 = turn2
    claim = claim
    counterclaim = counterclaim
    key = key
    NoKey = NoKey
    Worker = Worker
    Operator = Operator
    Turns <- TwoTurns
    Commands <- AllCommands
    Contents <- Claims
    Fixtures <- OneFixture
    KeyOf <- SharedKey
    MaxMemories = 3
    MaxProposals = 0
    MaxOps = 4
    MaxBusy = 2
    MaxCrashes = 1
SPECIFICATION Spec
SYMMETRY TurnSymmetry
INVARIANT MemoryRowsAgree
PROPERTY MemorySteps
CHECK_DEADLOCK FALSE
