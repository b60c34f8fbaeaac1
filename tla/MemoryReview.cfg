CONSTANTS
    turn = turn
    turn2 = turn2
    claim = claim
    counterclaim = counterclaim
    key = key
    NoKey = NoKey
    Worker = Worker
    Operator = Operator
    Turns <- OneTurn
    Commands <- SomeCommands
    Contents <- Claims
    Fixtures <- NoFixture
    KeyOf <- SharedKey
    MaxMemories = 2
    MaxProposals = 2
    MaxOps = 2
    MaxBusy = 2
    MaxCrashes = 1
SPECIFICATION FairSpec
INVARIANT ReviewedOnce
PROPERTY ProposalsSettleOnce
CHECK_DEADLOCK FALSE
