CONSTANTS
    turnA = turnA
    turnB = turnB
    worker = worker
    Writers <- TwoWriters
    EventsPerWriter = 3
    LiveWriter = turnA
    Unstreamed <- SecondRow
    PageLimit = 2
SPECIFICATION FairSpec
INVARIANT StreamIsSound
PROPERTIES ReplayReachesLatest ImplementsPromise EveryNumberApplied
