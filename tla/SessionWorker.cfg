CONSTANTS
    caller = caller
    Callers <- NoCallers
    MaxTurns = 2
    MaxAttempts = 2
    MaxCrashes = 1
    Overlap = FALSE
SPECIFICATION FairSpec
INVARIANT JobsAreSound
PROPERTIES  RepairedUnlessStranded
