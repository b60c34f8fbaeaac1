CONSTANTS
    caller = caller
    Callers <- OneCaller
    MaxTurns = 1
    MaxAttempts = 2
    MaxCrashes = 0
    Overlap = TRUE
SPECIFICATION FairSpec
INVARIANT RetriesFollowRuns
 
